---------------------------- MODULE Search_proofs ----------------------------
(***************************************************************************)
(* Proofs about one search, for any files, folders, rankings, requests and *)
(* changes around it.                                                      *)
(***************************************************************************)
EXTENDS Search, SequenceTheorems, FiniteSetTheorems, WellFoundedInduction,
        TLAPS

-----------------------------------------------------------------------------
(* Lists *)

LEMMA NumbersAre ==
  /\ Limit \in Nat \ {0} /\ Headroom \in Nat \ {0} /\ Pool \in Nat \ {0}
  /\ Width \in Nat \ {0} /\ Parts \in Nat \ {0} /\ RrfScale \in Nat \ {0}
  BY SearchAssumption

(* A set of naturals has a least one.                                      *)
LEMMA LeastOfThem ==
  ASSUME NEW T, T \subseteq Nat, T # {}
  PROVE  \E n \in T : \A k \in T : n <= k
  <1> DEFINE less == {p \in Nat \X Nat : p[1] < p[2]}
  <1>1. IsWellFoundedOn(less, Nat)
    BY NatLessThanWellFounded DEF OpToRel
  <1>2. PICK n \in T : \A k \in T : ~(<<k, n>> \in less)
    <2> HIDE DEF less
    <2> QED BY <1>1, WFMin
  <1>3. \A k, m \in Nat : <<k, m>> \in less <=> k < m
    OBVIOUS
  <1> HIDE DEF less
  <1>4. n \in Nat /\ \A k \in T : k \in Nat /\ ~(k < n)
    BY <1>2, <1>3
  <1>5. \A k \in T : n <= k
    BY <1>4
  <1> QED BY <1>5

LEMMA MinIsLeast ==
  ASSUME NEW T, T \subseteq Nat, T # {}
  PROVE  Min(T) \in T /\ \A k \in T : Min(T) <= k
  BY LeastOfThem DEF Min

LEMMA TakeIs ==
  ASSUME NEW S, NEW list \in Seq(S), NEW n \in Nat
  PROVE  /\ Take(list, n) \in Seq(S)
         /\ Len(Take(list, n)) <= n /\ Len(Take(list, n)) <= Len(list)
         /\ Len(Take(list, n)) \in {n, Len(list)}
         /\ \A i \in 1 .. Len(Take(list, n)) : Take(list, n)[i] = list[i]
  <1> DEFINE m == Min({n, Len(list)})
  <1>1. Len(list) \in Nat /\ \A i \in 1 .. Len(list) : list[i] \in S
    BY LenProperties, ElementOfSeq
  <1>2. m \in {n, Len(list)} /\ m <= n /\ m <= Len(list)
    BY <1>1, MinIsLeast
  <1> HIDE DEF m
  <1>3. m \in Nat /\ \A i \in 1 .. m : list[i] \in S
    BY <1>1, <1>2
  <1>4. /\ SubSeq(list, 1, m) \in Seq(S)
        /\ Len(SubSeq(list, 1, m)) = m
        /\ \A i \in 1 .. m : SubSeq(list, 1, m)[i] = list[i]
    BY <1>3, SubSeqProperties
  <1> QED BY <1>2, <1>4 DEF Take, m

LEMMA RankIs ==
  ASSUME NEW S, NEW list \in Seq(S), NEW c \in ToSet(list)
  PROVE  /\ Rank(list, c) \in 1 .. Len(list) /\ list[Rank(list, c)] = c
         /\ \A i \in DOMAIN list : list[i] = c => Rank(list, c) <= i
  <1> DEFINE T == {i \in DOMAIN list : list[i] = c}
  <1>1. DOMAIN list = 1 .. Len(list) /\ Len(list) \in Nat
    BY LenProperties
  <1>2. T # {} /\ T \subseteq Nat
    BY <1>1 DEF ToSet
  <1>3. Min(T) \in T /\ \A i \in T : Min(T) <= i
    <2> HIDE DEF T
    <2> QED BY <1>2, MinIsLeast
  <1> QED BY <1>1, <1>3 DEF Rank

LEMMA MembersOfList ==
  ASSUME NEW S, NEW list \in Seq(S)
  PROVE  /\ ToSet(list) \subseteq S /\ DOMAIN list = 1 .. Len(list) /\ Len(list) \in Nat
         /\ \A c : c \in ToSet(list) <=> \E i \in 1 .. Len(list) : list[i] = c
  BY LenProperties, ElementOfSeq DEF ToSet

-----------------------------------------------------------------------------
(* What a list has at some places                                          *)

Keeps(g, n, list, places) ==
  g = [k \in 0 .. n |-> IF k = 0 THEN <<>>
                        ELSE IF k \in places THEN Append(g[k - 1], list[k]) ELSE g[k - 1]]

LEMMA KeepsExists ==
  ASSUME NEW list, NEW places, NEW n \in Nat
  PROVE  \E g : Keeps(g, n, list, places)
  <1> DEFINE T == {i \in Nat : ~\E g : Keeps(g, i, list, places)}
             next(l, k) == IF k \in places THEN Append(l, list[k]) ELSE l
  <1> SUFFICES ASSUME T # {} PROVE FALSE
    OBVIOUS
  <1>1. PICK i \in T : \A k \in T : i <= k
    BY LeastOfThem
  <1>2. CASE i = 0
    <2> DEFINE h == [k \in 0 .. 0 |-> <<>>]
    <2>1. Keeps(h, 0, list, places)
      BY DEF Keeps
    <2> QED BY <1>1, <1>2, <2>1
  <1>3. CASE i # 0
    <2>1. i \in Nat /\ i - 1 \in Nat /\ i - 1 \notin T
      BY <1>1, <1>3
    <2>2. PICK g : Keeps(g, i - 1, list, places)
      BY <2>1
    <2> DEFINE h == [k \in 0 .. i |-> IF k = i THEN next(g[i - 1], i) ELSE g[k]]
    <2>3. \A k \in 0 .. i - 1 : g[k] = IF k = 0 THEN <<>> ELSE next(g[k - 1], k)
      BY <2>1, <2>2 DEF Keeps
    <2> HIDE DEF next
    <2>4. \A k \in 0 .. i : h[k] = IF k = 0 THEN <<>> ELSE next(h[k - 1], k)
      <3> SUFFICES ASSUME NEW k \in 0 .. i
                   PROVE  h[k] = IF k = 0 THEN <<>> ELSE next(h[k - 1], k)
        OBVIOUS
      <3>1. CASE k = i
        <4>1. h[k] = next(g[k - 1], k) /\ h[k - 1] = g[k - 1]
          BY <2>1, <3>1
        <4> QED BY <1>3, <3>1, <4>1
      <3>2. CASE k # i /\ k = 0
        BY <2>1, <2>3, <3>2
      <3>3. CASE k # i /\ k # 0
        <4>1. k \in 0 .. i - 1 /\ k - 1 \in 0 .. i - 1 /\ k - 1 # i
          BY <2>1, <3>3
        <4>2. h[k] = g[k] /\ h[k - 1] = g[k - 1]
          BY <2>1, <4>1
        <4> QED BY <2>3, <3>3, <4>1, <4>2
      <3> QED BY <3>1, <3>2, <3>3
    <2>5. h = [k \in 0 .. i |-> h[k]]
      OBVIOUS
    <2> HIDE DEF h
    <2>6. Keeps(h, i, list, places)
      BY <2>4, <2>5 DEF Keeps, next
    <2> QED BY <1>1, <2>6
  <1> QED BY <1>2, <1>3

(* l is what list has at some of its first n places, in its order.         *)
Picks(l, at, list, n) ==
  /\ at \in [1 .. Len(l) -> 1 .. n]
  /\ \A i \in 1 .. Len(l) : l[i] = list[at[i]]
  /\ \A i, j \in 1 .. Len(l) : i < j => at[i] < at[j]

(* What is kept is what stands at the places, in the order of the list.    *)
LEMMA KeptIs ==
  ASSUME NEW S, NEW list \in Seq(S), NEW places
  PROVE  /\ Kept(list, places) \in Seq(S)
         /\ \E at : /\ Picks(Kept(list, places), at, list, Len(list))
                    /\ \A i \in 1 .. Len(Kept(list, places)) : at[i] \in places
                    /\ \A p \in 1 .. Len(list) :
                         p \in places => \E i \in 1 .. Len(Kept(list, places)) : at[i] = p
  <1> DEFINE n == Len(list)
             g == CHOOSE h : Keeps(h, n, list, places)
             Places(l, at, k) ==
               /\ \A i \in 1 .. Len(l) : at[i] \in places
               /\ \A p \in 1 .. k : p \in places => \E i \in 1 .. Len(l) : at[i] = p
             Right(l, k) == l \in Seq(S) /\ \E at : /\ Picks(l, at, list, k)
                                                    /\ Places(l, at, k)
  <1>1. n \in Nat /\ \A i \in 1 .. n : list[i] \in S
    BY LenProperties, ElementOfSeq
  <1>2. Keeps(g, n, list, places) /\ Kept(list, places) = g[n]
    <2>1. Keeps(g, n, list, places)
      <3>1. \E h : Keeps(h, n, list, places)
        BY <1>1, KeepsExists
      <3> QED BY <3>1
    <2>2. Kept(list, places) = g[n]
      BY DEF Kept, Keeps
    <2> QED BY <2>1, <2>2
  <1> HIDE DEF g
  <1>3. \A k \in 0 .. n : g[k] = IF k = 0 THEN <<>>
                                 ELSE IF k \in places THEN Append(g[k - 1], list[k])
                                 ELSE g[k - 1]
    BY <1>2 DEF Keeps
  <1>4. Right(<<>>, 0)
    <2> DEFINE at == [i \in 1 .. 0 |-> i]
    <2>1. <<>> \in Seq(S) /\ Len(<<>>) = 0
      BY EmptySeq
    <2>2. at \in [1 .. 0 -> 1 .. 0] /\ \A i \in 1 .. 0 : FALSE
      OBVIOUS
    <2> HIDE DEF at
    <2>3. Picks(<<>>, at, list, 0) /\ Places(<<>>, at, 0)
      BY <2>1, <2>2 DEF Picks
    <2> QED BY <2>1, <2>3
  <1>5. ASSUME NEW k \in 1 .. n, NEW l, Right(l, k - 1)
        PROVE  IF k \in places THEN Right(Append(l, list[k]), k) ELSE Right(l, k)
    <2>1. PICK at : Picks(l, at, list, k - 1) /\ Places(l, at, k - 1)
      BY <1>5
    <2>2. l \in Seq(S) /\ Len(l) \in Nat
      BY <1>5, LenProperties
    <2>3. ASSUME k \notin places PROVE Right(l, k)
      <3>1. Picks(l, at, list, k)
        BY <1>1, <2>1, <2>2 DEF Picks
      <3>2. \A p \in 1 .. k : p \in places => p \in 1 .. k - 1
        BY <2>3
      <3>3. Places(l, at, k)
        BY <2>1, <3>2
      <3> QED BY <2>2, <3>1, <3>3
    <2>4. ASSUME k \in places PROVE Right(Append(l, list[k]), k)
      <3> DEFINE m == Append(l, list[k])
                 to == [i \in 1 .. Len(l) + 1 |-> IF i = Len(l) + 1 THEN k ELSE at[i]]
      <3>1. /\ m \in Seq(S) /\ Len(m) = Len(l) + 1 /\ m[Len(l) + 1] = list[k]
            /\ \A i \in 1 .. Len(l) : m[i] = l[i]
        BY <1>1, <2>2, AppendProperties
      <3> HIDE DEF m
      <3>2. to[Len(l) + 1] = k /\ \A i \in 1 .. Len(l) : to[i] = at[i]
        BY <2>2
      <3>3. to \in [1 .. Len(l) + 1 -> 1 .. k]
        BY <1>1, <2>1, <2>2 DEF Picks
      <3> HIDE DEF to
      <3>4. \A i \in 1 .. Len(l) + 1 : m[i] = list[to[i]] /\ to[i] \in places
        BY <2>1, <2>2, <2>4, <3>1, <3>2 DEF Picks
      <3>5. \A i, j \in 1 .. Len(l) + 1 : i < j => to[i] < to[j]
        <4> SUFFICES ASSUME NEW i \in 1 .. Len(l) + 1, NEW j \in 1 .. Len(l) + 1, i < j
                     PROVE  to[i] < to[j]
          OBVIOUS
        <4>0. i \in 1 .. Len(l)
          BY <2>2
        <4>1. i \in 1 .. Len(l) /\ to[i] = at[i] /\ at[i] \in 1 .. k - 1
          BY <2>1, <3>2, <4>0 DEF Picks
        <4>2. CASE j = Len(l) + 1
          BY <1>1, <3>2, <4>1, <4>2
        <4>3. CASE j # Len(l) + 1
          <5>1. j \in 1 .. Len(l)
            BY <2>2, <4>3
          <5>2. at[i] < at[j]
            BY <2>1, <4>1, <5>1 DEF Picks
          <5> QED BY <3>2, <4>1, <5>1, <5>2
        <4> QED BY <4>2, <4>3
      <3>6. Picks(m, to, list, k)
        BY <3>1, <3>3, <3>4, <3>5 DEF Picks
      <3>7. ASSUME NEW p \in 1 .. k, p \in places
            PROVE  \E i \in 1 .. Len(m) : to[i] = p
        <4>1. CASE p = k
          BY <2>2, <3>1, <3>2, <4>1
        <4>2. CASE p # k
          <5>1. p \in 1 .. k - 1
            BY <4>2
          <5>2. PICK i \in 1 .. Len(l) : at[i] = p
            BY <2>1, <3>7, <5>1
          <5> QED BY <2>2, <3>1, <3>2, <5>2
        <4> QED BY <4>1, <4>2
      <3>8. Places(m, to, k)
        BY <3>1, <3>4, <3>7
      <3>9. Right(m, k)
        BY <3>1, <3>6, <3>8
      <3> QED BY <3>9 DEF m
    <2> QED BY <2>3, <2>4
  <1> DEFINE T == {k \in Nat : k <= n /\ ~Right(g[k], k)}
  <1> HIDE DEF Right
  <1>6. Right(g[0], 0)
    BY <1>1, <1>3, <1>4
  <1>7. T = {}
    <2> SUFFICES ASSUME T # {} PROVE FALSE
      OBVIOUS
    <2>1. PICK k \in T : \A i \in T : k <= i
      BY LeastOfThem
    <2>2. k # 0 /\ k \in 1 .. n /\ k - 1 \in Nat /\ k - 1 \notin T /\ k - 1 <= n
      BY <1>1, <1>6, <2>1
    <2>3. Right(g[k - 1], k - 1)
      BY <2>2
    <2>4. k \in 0 .. n
      BY <2>2
    <2>5. g[k] = IF k \in places THEN Append(g[k - 1], list[k]) ELSE g[k - 1]
      BY <1>3, <2>2, <2>4
    <2>6. Right(g[k], k)
      <3>1. IF k \in places THEN Right(Append(g[k - 1], list[k]), k) ELSE Right(g[k - 1], k)
        BY <1>5, <2>2, <2>3
      <3> QED BY <2>5, <3>1
    <2> QED BY <2>1, <2>6
  <1>8. Right(g[n], n)
    BY <1>1, <1>7
  <1> QED BY <1>2, <1>8 DEF Right

-----------------------------------------------------------------------------
(* The order of the fusion                                                 *)

Ahead(score, c, d) ==
  \/ score[c] > score[d]
  \/ score[c] = score[d] /\ Rank(Ids, c) < Rank(Ids, d)
First(score, T) == CHOOSE c \in T : \A d \in T \ {c} : Ahead(score, c, d)
FirstOf(score, T, g) ==
  IF T = {} THEN <<>> ELSE <<First(score, T)>> \o g[T \ {First(score, T)}]
Sorts(g, S, score) == g = [T \in SUBSET S |-> FirstOf(score, T, g)]

LEMMA SmallestSubset ==
  ASSUME NEW S, IsFiniteSet(S), NEW Bad, Bad \subseteq SUBSET S, Bad # {}
  PROVE  \E T \in Bad : /\ IsFiniteSet(T) /\ Cardinality(T) \in Nat
                        /\ \A x \in T : T \ {x} \notin Bad
  <1> DEFINE sizes == {Cardinality(T) : T \in Bad}
  <1>1. \A T \in SUBSET S : IsFiniteSet(T) /\ Cardinality(T) \in Nat
    BY FS_Subset, FS_CardinalityType
  <1>2. PICK n \in sizes : \A k \in sizes : n <= k
    <2>1. sizes \subseteq Nat /\ sizes # {}
      BY <1>1
    <2> HIDE DEF sizes
    <2> QED BY <2>1, LeastOfThem
  <1>3. PICK T \in Bad : Cardinality(T) = n
    BY <1>2
  <1>4. ASSUME NEW x \in T, T \ {x} \in Bad PROVE FALSE
    <2>1. Cardinality(T \ {x}) = Cardinality(T) - 1
      BY <1>1, FS_RemoveElement
    <2>2. n <= Cardinality(T \ {x})
      BY <1>2, <1>4
    <2> QED BY <1>1, <1>3, <2>1, <2>2
  <1> QED BY <1>1, <1>3, <1>4

LEMMA AheadIsTotal ==
  ASSUME NEW S, S \subseteq Chunk, NEW score \in [S -> Nat]
  PROVE  /\ \A c \in S : ~Ahead(score, c, c)
         /\ \A c, d \in S : c # d => Ahead(score, c, d) \/ Ahead(score, d, c)
         /\ \A c, d, e \in S : Ahead(score, c, d) /\ Ahead(score, d, e) => Ahead(score, c, e)
  <1>1. \A c \in S : Rank(Ids, c) \in Nat /\ Ids[Rank(Ids, c)] = c
    <2>1. Ids \in Seq(Chunk) /\ S \subseteq ToSet(Ids) /\ Len(Ids) \in Nat
      BY SearchAssumption, LenProperties
    <2> QED BY <2>1, RankIs
  <1> QED BY <1>1 DEF Ahead

LEMMA FirstIs ==
  ASSUME NEW S, IsFiniteSet(S), S \subseteq Chunk, NEW score \in [S -> Nat],
         NEW T, T \subseteq S, T # {}
  PROVE  First(score, T) \in T /\ \A d \in T \ {First(score, T)} : Ahead(score, First(score, T), d)
  <1> DEFINE Leads(c, U) == c \in U /\ \A d \in U \ {c} : Ahead(score, c, d)
             Bad == {U \in SUBSET S : U # {} /\ ~\E c : Leads(c, U)}
  <1>1. Bad = {}
    <2> SUFFICES ASSUME Bad # {} PROVE FALSE
      OBVIOUS
    <2>1. PICK U \in Bad : \A x \in U : U \ {x} \notin Bad
      BY SmallestSubset
    <2>2. PICK x : x \in U
      BY <2>1
    <2>3. x \in S /\ U \subseteq S
      BY <2>1, <2>2
    <2>4. CASE U \ {x} = {}
      BY <2>1, <2>2, <2>4
    <2>5. CASE U \ {x} # {}
      <3>1. PICK c : Leads(c, U \ {x})
        BY <2>1, <2>2, <2>3, <2>5
      <3>2. c \in S /\ c # x
        BY <2>3, <3>1
      <3>3. CASE Ahead(score, c, x)
        <4>1. Leads(c, U)
          BY <3>1, <3>3
        <4> QED BY <2>1, <4>1
      <3>4. CASE Ahead(score, x, c)
        <4>1. ASSUME NEW d \in U \ {x} PROVE Ahead(score, x, d)
          <5>1. d = c \/ Ahead(score, c, d)
            BY <3>1, <4>1
          <5> QED BY <2>3, <3>2, <3>4, <4>1, <5>1, AheadIsTotal
        <4>2. Leads(x, U)
          BY <2>2, <4>1
        <4> QED BY <2>1, <4>2
      <3> QED BY <2>3, <3>2, <3>3, <3>4, AheadIsTotal
    <2> QED BY <2>4, <2>5
  <1>2. \E c \in T : \A d \in T \ {c} : Ahead(score, c, d)
    BY <1>1
  <1> QED BY <1>2 DEF First

LEMMA SortsExists ==
  ASSUME NEW S, IsFiniteSet(S), S \subseteq Chunk, NEW score \in [S -> Nat]
  PROVE  \E g : Sorts(g, S, score)
  <1> DEFINE Upto(g, n) ==
               \A T \in SUBSET S : Cardinality(T) <= n => g[T] = FirstOf(score, T, g)
             Bad == {n \in Nat : ~\E g : g = [T \in SUBSET S |-> g[T]] /\ Upto(g, n)}
  <1>1. \A T \in SUBSET S :
          /\ Cardinality(T) \in Nat /\ Cardinality(T) <= Cardinality(S)
          /\ Cardinality(T) = 0 <=> T = {}
    BY FS_Subset, FS_CardinalityType, FS_EmptySet
  <1>2. ASSUME NEW T \in SUBSET S, T # {}
        PROVE  /\ T \ {First(score, T)} \in SUBSET S
               /\ Cardinality(T \ {First(score, T)}) = Cardinality(T) - 1
    BY <1>2, FirstIs, FS_Subset, FS_RemoveElement
  <1>3. Bad = {}
    <2> SUFFICES ASSUME Bad # {} PROVE FALSE
      OBVIOUS
    <2>1. PICK n \in Bad : \A k \in Bad : n <= k
      BY LeastOfThem
    <2>2. CASE n = 0
      <3> DEFINE h == [T \in SUBSET S |-> <<>>]
      <3>1. Upto(h, 0)
        <4>1. \A T \in SUBSET S : Cardinality(T) <= 0 => T = {}
          BY <1>1
        <4> QED BY <4>1 DEF FirstOf
      <3>2. h = [T \in SUBSET S |-> h[T]]
        OBVIOUS
      <3> HIDE DEF h, Upto
      <3> QED BY <2>1, <2>2, <3>1, <3>2
    <2>3. CASE n # 0
      <3>1. n \in Nat /\ n - 1 \in Nat /\ n - 1 \notin Bad
        <4>1. Bad \subseteq Nat
          OBVIOUS
        <4> HIDE DEF Bad
        <4> QED BY <2>1, <2>3, <4>1
      <3>2. PICK g : Upto(g, n - 1)
        <4> HIDE DEF Upto
        <4> QED BY <3>1
      <3> DEFINE h == [T \in SUBSET S |-> IF Cardinality(T) = n THEN FirstOf(score, T, g)
                                          ELSE g[T]]
      <3>3. \A T \in SUBSET S : h[T] = IF Cardinality(T) = n THEN FirstOf(score, T, g)
                                       ELSE g[T]
        OBVIOUS
      <3>4. h = [T \in SUBSET S |-> h[T]]
        OBVIOUS
      <3> HIDE DEF h
      <3>5. ASSUME NEW T \in SUBSET S, Cardinality(T) <= n
            PROVE  h[T] = FirstOf(score, T, h)
        <4>1. h[T] = FirstOf(score, T, g)
          BY <1>1, <3>1, <3>2, <3>3, <3>5
        <4>2. CASE T = {}
          BY <4>1, <4>2 DEF FirstOf
        <4>3. CASE T # {}
          <5> DEFINE U == T \ {First(score, T)}
          <5>1. U \in SUBSET S /\ Cardinality(U) # n
            BY <1>1, <1>2, <3>1, <3>5, <4>3
          <5>2. h[U] = g[U]
            BY <3>3, <5>1
          <5> QED BY <4>1, <4>3, <5>2 DEF FirstOf
        <4> QED BY <4>2, <4>3
      <3>6. Upto(h, n)
        BY <3>5
      <3> HIDE DEF Upto
      <3> QED BY <2>1, <3>4, <3>6
    <2> QED BY <2>2, <2>3
  <1>4. Cardinality(S) \in Nat
    BY <1>1
  <1>5. PICK g : g = [T \in SUBSET S |-> g[T]] /\ Upto(g, Cardinality(S))
    BY <1>3, <1>4
  <1>6. \A T \in SUBSET S : g[T] = FirstOf(score, T, g)
    BY <1>1, <1>5
  <1> QED BY <1>5, <1>6 DEF Sorts

LEMMA SortedIs ==
  ASSUME NEW S, IsFiniteSet(S), S \subseteq Chunk, NEW score \in [S -> Nat],
         NEW g, Sorts(g, S, score)
  PROVE  /\ g[S] \in Seq(S) /\ ToSet(g[S]) = S
         /\ \A i, j \in 1 .. Len(g[S]) : i < j => Ahead(score, g[S][i], g[S][j])
  <1> DEFINE Sorted(l, T) ==
               /\ l \in Seq(T) /\ ToSet(l) = T
               /\ \A i, j \in 1 .. Len(l) : i < j => Ahead(score, l[i], l[j])
             Bad == {T \in SUBSET S : ~Sorted(g[T], T)}
  <1>1. \A T \in SUBSET S : g[T] = FirstOf(score, T, g)
    BY DEF Sorts
  <1>2. Sorted(<<>>, {})
    BY EmptySeq DEF ToSet
  <1>3. ASSUME NEW T \in SUBSET S, T # {}, NEW l, Sorted(l, T \ {First(score, T)})
        PROVE  Sorted(<<First(score, T)>> \o l, T)
    <2> DEFINE c == First(score, T)
               m == <<c>> \o l
    <2>1. c \in T /\ \A d \in T \ {c} : Ahead(score, c, d)
      BY <1>3, FirstIs
    <2>2. l \in Seq(T) /\ Len(l) \in Nat /\ <<c>> \in Seq(T) /\ Len(<<c>>) = 1
      BY <1>3, <2>1, SeqMonotonic, LenProperties
    <2>3. /\ m \in Seq(T) /\ Len(m) = 1 + Len(l)
          /\ \A i \in 1 .. 1 + Len(l) : m[i] = IF i <= 1 THEN <<c>>[i] ELSE l[i - 1]
      BY <2>2, ConcatProperties
    <2>4. m[1] = c /\ \A i \in 1 .. Len(l) : m[i + 1] = l[i]
      BY <2>2, <2>3
    <2>5. /\ \A i \in 1 .. Len(l) : l[i] \in T \ {c}
          /\ \A d \in T \ {c} : \E i \in 1 .. Len(l) : l[i] = d
      BY <1>3, MembersOfList
    <2> HIDE DEF c, m
    <2>6. ToSet(m) = T
      <3>1. ToSet(m) \subseteq T
        BY <2>3, MembersOfList
      <3>2. ASSUME NEW d \in T PROVE \E i \in 1 .. Len(m) : m[i] = d
        <4>1. CASE d = c
          BY <2>2, <2>3, <2>4, <4>1
        <4>2. CASE d # c
          <5>1. PICK i \in 1 .. Len(l) : l[i] = d
            BY <2>5, <4>2
          <5>2. i + 1 \in 1 .. Len(m) /\ m[i + 1] = d
            BY <2>2, <2>3, <2>4, <5>1
          <5> QED BY <5>2
        <4> QED BY <4>1, <4>2
      <3> QED BY <2>3, <3>1, <3>2, MembersOfList
    <2>7. ASSUME NEW i \in 1 .. Len(m), NEW j \in 1 .. Len(m), i < j
          PROVE  Ahead(score, m[i], m[j])
      <3>1. j - 1 \in 1 .. Len(l) /\ m[j] = l[j - 1]
        <4>1. j - 1 \in 1 .. Len(l) /\ j = (j - 1) + 1
          BY <2>2, <2>3, <2>7
        <4> QED BY <2>4, <4>1
      <3>2. CASE i = 1
        <4>1. m[j] \in T \ {c}
          BY <2>5, <3>1
        <4>2. m[i] = c
          BY <2>4, <3>2
        <4>3. Ahead(score, c, m[j])
          BY <2>1, <4>1
        <4> QED BY <4>2, <4>3
      <3>3. CASE i # 1
        <4>1. i - 1 \in 1 .. Len(l) /\ i - 1 < j - 1 /\ i = (i - 1) + 1
          BY <2>2, <2>3, <2>7, <3>3
        <4>2. m[i] = l[i - 1]
          BY <2>4, <4>1
        <4> QED BY <1>3, <3>1, <4>1, <4>2
      <3> QED BY <3>2, <3>3
    <2>8. Sorted(m, T)
      BY <2>3, <2>6, <2>7
    <2> QED BY <2>8 DEF m, c
  <1> HIDE DEF Sorted
  <1>4. Bad = {}
    <2> SUFFICES ASSUME Bad # {} PROVE FALSE
      OBVIOUS
    <2>1. PICK T \in Bad : \A x \in T : T \ {x} \notin Bad
      BY SmallestSubset
    <2>2. T \in SUBSET S /\ ~Sorted(g[T], T)
      BY <2>1
    <2>3. CASE T = {}
      BY <1>1, <1>2, <2>2, <2>3 DEF FirstOf
    <2>4. CASE T # {}
      <3> DEFINE U == T \ {First(score, T)}
      <3>1. First(score, T) \in T
        BY <2>2, <2>4, FirstIs
      <3>2. U \in SUBSET S /\ U \notin Bad
        BY <2>1, <2>2, <3>1
      <3>3. Sorted(g[U], U)
        BY <3>2
      <3>4. g[T] = <<First(score, T)>> \o g[U]
        BY <1>1, <2>2, <2>4 DEF FirstOf
      <3> QED BY <1>3, <2>2, <2>4, <3>3, <3>4
    <2> QED BY <2>3, <2>4
  <1>5. Sorted(g[S], S)
    BY <1>4
  <1> QED BY <1>5 DEF Sorted

-----------------------------------------------------------------------------
(* The fusion                                                              *)

LEMMA ListIsFinite ==
  ASSUME NEW S, NEW list \in Seq(S)
  PROVE  IsFiniteSet(ToSet(list))
  <1>1. Len(list) \in Nat /\ list \in [1 .. Len(list) -> ToSet(list)]
    BY LenProperties DEF ToSet
  <1>2. list \in Surjection(1 .. Len(list), ToSet(list))
    BY <1>1 DEF Surjection, ToSet
  <1>3. IsFiniteSet(1 .. Len(list))
    BY <1>1, FS_Interval
  <1> QED BY <1>2, <1>3, FS_Surjection

(* The reciprocals of the ranks fall.                                      *)
Share(r) == RrfScale \div (RrfK + r)

LEMMA SharesFall ==
  \A r, q \in 1 .. Pool : Share(r) \in Nat /\ Share(r) > 0 /\ (r < q => Share(r) > Share(q))
  <1>1. ASSUME NEW r \in 1 .. Pool
        PROVE  /\ Share(r) \in Nat /\ Share(r) > 0 /\ RrfK + r \in Nat \ {0}
               /\ RrfScale = (RrfK + r) * Share(r)
    <2>1. /\ RrfScale \in Nat \ {0} /\ RrfK + r \in Nat \ {0} /\ RrfScale % (RrfK + r) = 0
      BY SearchAssumption DEF RrfK
    <2>2. \A n, d \in Nat \ {0} : n % d = 0 => n \div d \in Nat /\ n = d * (n \div d)
      OBVIOUS
    <2>3. Share(r) \in Nat /\ RrfScale = (RrfK + r) * Share(r)
      BY <2>1, <2>2 DEF Share
    <2>4. Share(r) # 0
      BY <2>1, <2>3
    <2> QED BY <2>1, <2>3, <2>4
  <1>2. ASSUME NEW r \in 1 .. Pool, NEW q \in 1 .. Pool, r < q
        PROVE  Share(r) > Share(q)
    <2>1. RrfK + r < RrfK + q
      BY <1>2, SearchAssumption DEF RrfK
    <2>2. \A a, b, x, y \in Nat \ {0} : a < b /\ a * x = b * y => x > y
      <3> SUFFICES ASSUME NEW a \in Nat \ {0}, NEW b \in Nat \ {0}, NEW x \in Nat \ {0},
                          NEW y \in Nat \ {0}, a < b, a * x = b * y, x <= y
                   PROVE  FALSE
        OBVIOUS
      <3>1. a * x <= a * y
        OBVIOUS
      <3>2. a * y < b * y
        OBVIOUS
      <3> QED BY <3>1, <3>2
    <2>3. Share(r) \in Nat \ {0} /\ Share(q) \in Nat \ {0}
      BY <1>1
    <2>4. (RrfK + r) * Share(r) = (RrfK + q) * Share(q)
      BY <1>1
    <2> QED BY <1>1, <2>1, <2>2, <2>3, <2>4
  <1> QED BY <1>1, <1>2

NoWorse(list, c, d) == ~Better(list, d, c)

LEMMA BetterIsMore ==
  ASSUME NEW list \in Seq(Chunk), Len(list) <= Pool, NEW c, NEW d
  PROVE  /\ Weight(list, c) \in Nat
         /\ NoWorse(list, c, d) => Weight(list, c) >= Weight(list, d)
         /\ Better(list, c, d) => Weight(list, c) > Weight(list, d)
  <1>1. \A e \in ToSet(list) : Rank(list, e) \in 1 .. Pool
    BY RankIs, LenProperties, NumbersAre
  <1>2. \A e : Weight(list, e) = IF e \in ToSet(list) THEN Share(Rank(list, e)) ELSE 0
    BY DEF Weight, Share
  <1>3. \A r, q \in 1 .. Pool : r <= q => Share(r) >= Share(q)
    BY SharesFall
  <1> QED BY <1>1, <1>2, <1>3, SharesFall DEF Better, NoWorse

(* In a list without repeats the rank is the place.                        *)
Distinct(list) == \A i, j \in 1 .. Len(list) : i < j => list[i] # list[j]

LEMMA RankIsPlace ==
  ASSUME NEW list \in Seq(Chunk), Distinct(list), NEW i \in 1 .. Len(list)
  PROVE  list[i] \in ToSet(list) /\ Rank(list, list[i]) = i
  <1>1. list[i] \in ToSet(list) /\ Len(list) \in Nat
    BY MembersOfList
  <1>2. Rank(list, list[i]) \in 1 .. Len(list) /\ list[Rank(list, list[i])] = list[i]
    BY <1>1, RankIs
  <1> QED BY <1>1, <1>2 DEF Distinct

LEMMA FusedIs ==
  ASSUME NEW one \in Seq(Chunk), NEW other \in Seq(Chunk), NEW n \in Nat,
         Len(one) <= Pool, Len(other) <= Pool
  PROVE  LET list == Fused(one, other, n) IN
         /\ list \in Seq(Chunk) /\ Len(list) <= n /\ Distinct(list)
         /\ ToSet(list) \subseteq ToSet(one) \union ToSet(other)
         /\ Len(list) = n \/ ToSet(one) \union ToSet(other) \subseteq ToSet(list)
         /\ \A d \in ToSet(list) : \A c \in ToSet(one) \union ToSet(other) :
              Weight(one, c) + Weight(other, c) > Weight(one, d) + Weight(other, d)
                => Better(list, c, d)
  <1> DEFINE both == ToSet(one) \union ToSet(other)
             score == [c \in both |-> Weight(one, c) + Weight(other, c)]
             g == CHOOSE h : Sorts(h, both, score)
             list == Take(g[both], n)
  <1>1. both \subseteq Chunk /\ IsFiniteSet(both)
    BY MembersOfList, ListIsFinite, FS_Union
  <1>2. \A c : Weight(one, c) \in Nat /\ Weight(other, c) \in Nat
    BY BetterIsMore
  <1>3. score \in [both -> Nat] /\ \A c \in both : score[c] = Weight(one, c) + Weight(other, c)
    BY <1>2
  <1>4. Fused(one, other, n) = list
    BY DEF Fused, InOrder, Sorts, FirstOf, First, Ahead
  <1>5. Sorts(g, both, score)
    <2>1. \E h : Sorts(h, both, score)
      <3> HIDE DEF both, score
      <3> QED BY <1>1, <1>3, SortsExists
    <2> HIDE DEF both, score
    <2> QED BY <2>1
  <1> HIDE DEF both, score, g
  <1>6. /\ g[both] \in Seq(both) /\ ToSet(g[both]) = both
        /\ \A i, j \in 1 .. Len(g[both]) : i < j => Ahead(score, g[both][i], g[both][j])
    BY <1>1, <1>3, <1>5, SortedIs
  <1> DEFINE all == g[both]
  <1> HIDE DEF all
  <1>7. all \in Seq(both) /\ Len(all) \in Nat /\ all \in Seq(Chunk)
    BY <1>1, <1>6, SeqMonotonic, LenProperties DEF all
  <1>8. /\ list \in Seq(both) /\ list \in Seq(Chunk) /\ Len(list) \in Nat
        /\ Len(list) <= n /\ Len(list) <= Len(all) /\ Len(list) \in {n, Len(all)}
        /\ \A i \in 1 .. Len(list) : list[i] = all[i]
    BY <1>7, TakeIs, LenProperties DEF all
  <1> HIDE DEF list
  <1>9. \A i, j \in 1 .. Len(all) : i < j => Ahead(score, all[i], all[j]) /\ all[i] # all[j]
    <2>1. \A i \in 1 .. Len(all) : all[i] \in both /\ ~Ahead(score, all[i], all[i])
      BY <1>1, <1>3, <1>7, ElementOfSeq, AheadIsTotal
    <2>2. \A i, j \in 1 .. Len(all) : i < j => Ahead(score, all[i], all[j])
      BY <1>6 DEF all
    <2> QED BY <2>1, <2>2
  <1>10. Distinct(list)
    BY <1>7, <1>8, <1>9 DEF Distinct
  <1>11. ASSUME NEW d \in ToSet(list), NEW c \in both, score[c] > score[d]
         PROVE  Better(list, c, d)
    <2>1. PICK j \in 1 .. Len(list) : list[j] = d
      BY <1>8, MembersOfList
    <2>2. PICK i \in 1 .. Len(all) : all[i] = c
      BY <1>6, <1>7, MembersOfList DEF all
    <2>3. d \in both /\ score[c] \in Nat /\ score[d] \in Nat
      BY <1>3, <1>8, <1>11, MembersOfList
    <2>4. ~Ahead(score, d, c) /\ c # d
      BY <1>11, <2>3 DEF Ahead
    <2>5. j \in 1 .. Len(all) /\ all[j] = d
      BY <1>7, <1>8, <2>1
    <2>6. i < j
      BY <1>7, <1>9, <2>2, <2>4, <2>5
    <2>7. i \in 1 .. Len(list) /\ list[i] = c
      BY <1>8, <2>1, <2>2, <2>6
    <2> QED BY <1>8, <1>10, <2>1, <2>6, <2>7, RankIsPlace DEF Better
  <1>12. ToSet(list) \subseteq both
    BY <1>8, MembersOfList
  <1>13. \A d \in ToSet(list) : \A c \in both :
           Weight(one, c) + Weight(other, c) > Weight(one, d) + Weight(other, d)
             => Better(list, c, d)
    BY <1>3, <1>11, <1>12
  <1>14. Len(list) = n \/ both \subseteq ToSet(list)
    <2>1. ASSUME Len(list) = Len(all), NEW c \in both PROVE c \in ToSet(list)
      <3>1. PICK i \in 1 .. Len(all) : all[i] = c
        BY <1>6, <1>7, MembersOfList DEF all
      <3> QED BY <1>8, <2>1, <3>1, MembersOfList
    <2> QED BY <1>8, <2>1
  <1> QED BY <1>4, <1>8, <1>10, <1>12, <1>13, <1>14 DEF both

(* What one of two lists ranks higher, and the other not lower, is higher  *)
(* in the fusion; and only what is in one of them is there.                *)
LEMMA FusedKeepsOrder ==
  ASSUME NEW one \in Seq(Chunk), NEW other \in Seq(Chunk), NEW n \in Nat,
         Len(one) <= Pool, Len(other) <= Pool, NEW c, NEW d, c # d,
         NoWorse(one, c, d), NoWorse(other, c, d)
  PROVE  /\ d \in ToSet(Fused(one, other, n)) => Better(Fused(one, other, n), c, d)
         /\ NoWorse(Fused(one, other, n), c, d)
  <1> DEFINE list == Fused(one, other, n)
  <1>1. /\ list \in Seq(Chunk) /\ Distinct(list)
        /\ ToSet(list) \subseteq ToSet(one) \union ToSet(other)
        /\ \A x \in ToSet(list) : \A y \in ToSet(one) \union ToSet(other) :
             Weight(one, y) + Weight(other, y) > Weight(one, x) + Weight(other, x)
               => Better(list, y, x)
    BY FusedIs
  <1> HIDE DEF list
  <1>2. ASSUME d \in ToSet(list) PROVE Better(list, c, d)
    <2>1. \A l \in Seq(Chunk) : NoWorse(l, c, d) /\ d \in ToSet(l) => Better(l, c, d)
      <3> SUFFICES ASSUME NEW l \in Seq(Chunk), NoWorse(l, c, d), d \in ToSet(l)
                   PROVE  Better(l, c, d)
        OBVIOUS
      <3>1. c \in ToSet(l) /\ ~(Rank(l, d) < Rank(l, c))
        BY DEF NoWorse, Better
      <3>2. Rank(l, c) \in Nat /\ Rank(l, d) \in Nat /\ l[Rank(l, c)] = c /\ l[Rank(l, d)] = d
        BY <3>1, RankIs, LenProperties
      <3> QED BY <3>1, <3>2 DEF Better
    <2>2. Better(one, c, d) \/ Better(other, c, d)
      BY <1>1, <1>2, <2>1
    <2>3. c \in ToSet(one) \union ToSet(other)
      BY <2>2 DEF Better
    <2>4. /\ Weight(one, c) \in Nat /\ Weight(other, c) \in Nat
          /\ Weight(one, d) \in Nat /\ Weight(other, d) \in Nat
          /\ Weight(one, c) >= Weight(one, d) /\ Weight(other, c) >= Weight(other, d)
          /\ Weight(one, c) > Weight(one, d) \/ Weight(other, c) > Weight(other, d)
      BY <2>2, BetterIsMore
    <2> QED BY <1>1, <1>2, <2>3, <2>4
  <1>3. NoWorse(list, c, d)
    <2>1. ASSUME Better(list, d, c) PROVE FALSE
      <3>1. d \in ToSet(list) /\ (c \notin ToSet(list) \/ Rank(list, d) < Rank(list, c))
        BY <2>1 DEF Better
      <3>2. c \in ToSet(list) /\ Rank(list, c) < Rank(list, d)
        BY <1>2, <3>1 DEF Better
      <3>3. Rank(list, c) \in Nat /\ Rank(list, d) \in Nat
        BY <1>1, <3>1, <3>2, RankIs, LenProperties
      <3> QED BY <3>1, <3>2, <3>3
    <2> QED BY <2>1 DEF NoWorse
  <1> QED BY <1>2, <1>3 DEF list

-----------------------------------------------------------------------------
(* The page picked                                                         *)

Beats(w, g, v, c, d) ==
  /\ \E list \in {w, g, v} : Better(list, c, d)
  /\ \A list \in {w, g, v} : ~Better(list, d, c)
Before(w, g, v, c, d) == c.file # d.file /\ ~Beats(w, g, v, d, c)
Best(w, g, v, d) ==
  \A c \in ToSet(w) \union ToSet(g) \union ToSet(v) :
    c.file = d.file => ~Beats(w, g, v, c, d)

Fuses(w, g, v, cjk, n, m) == Fused(IF cjk THEN Fused(w, g, n) ELSE w, v, m)

LEMMA FusedTwice ==
  ASSUME NEW w \in Seq(Chunk), NEW g \in Seq(Chunk), NEW v \in Seq(Chunk),
         Len(w) <= Pool, Len(g) <= Pool, Len(v) <= Pool, NEW cjk, ~cjk => g = <<>>,
         NEW n \in 0 .. Pool, NEW m \in Nat
  PROVE  /\ Fuses(w, g, v, cjk, n, m) \in Seq(Chunk) /\ Distinct(Fuses(w, g, v, cjk, n, m))
         /\ ToSet(Fuses(w, g, v, cjk, n, m)) \subseteq ToSet(w) \union ToSet(g) \union ToSet(v)
         /\ \A d \in ToSet(Fuses(w, g, v, cjk, n, m)) : \A c :
              Beats(w, g, v, c, d) => Better(Fuses(w, g, v, cjk, n, m), c, d)
  <1> DEFINE k == IF cjk THEN Fused(w, g, n) ELSE w
             list == Fused(k, v, m)
  <1>1. k \in Seq(Chunk) /\ Len(k) <= Pool /\ ToSet(k) \subseteq ToSet(w) \union ToSet(g)
    <2>1. CASE cjk
      <3>1. /\ Fused(w, g, n) \in Seq(Chunk) /\ Len(Fused(w, g, n)) <= n
            /\ ToSet(Fused(w, g, n)) \subseteq ToSet(w) \union ToSet(g)
        BY FusedIs
      <3>2. Len(Fused(w, g, n)) \in Nat
        BY <3>1, LenProperties
      <3> QED BY <2>1, <3>1, <3>2, NumbersAre
    <2>2. CASE ~cjk
      BY <2>2
    <2> QED BY <2>1, <2>2
  <1>2. /\ list \in Seq(Chunk) /\ Distinct(list)
        /\ ToSet(list) \subseteq ToSet(k) \union ToSet(v)
    <2> HIDE DEF k
    <2> QED BY <1>1, FusedIs
  <1>3. ASSUME NEW d \in ToSet(list), NEW c, Beats(w, g, v, c, d) PROVE Better(list, c, d)
    <2>1. NoWorse(w, c, d) /\ NoWorse(g, c, d) /\ NoWorse(v, c, d)
      BY <1>3 DEF Beats, NoWorse
    <2>2. c # d
      <3>1. PICK l \in {w, g, v} : Better(l, c, d)
        BY <1>3 DEF Beats
      <3>2. c \in ToSet(l) /\ Rank(l, c) \in Nat
        BY <3>1, RankIs, LenProperties DEF Better
      <3> QED BY <3>1, <3>2 DEF Better
    <2>3. NoWorse(k, c, d)
      BY <2>1, <2>2, FusedKeepsOrder
    <2> HIDE DEF k
    <2> QED BY <1>1, <1>3, <2>1, <2>2, <2>3, FusedKeepsOrder
  <1>4. Fuses(w, g, v, cjk, n, m) = list
    BY DEF Fuses
  <1> HIDE DEF k, list
  <1> QED BY <1>1, <1>2, <1>3, <1>4

LEMMA PickedIs ==
  ASSUME NEW w \in Seq(Chunk), NEW g \in Seq(Chunk), NEW v \in Seq(Chunk),
         Len(w) <= Pool, Len(g) <= Pool, Len(v) <= Pool, NEW cjk, ~cjk => g = <<>>,
         NEW n \in 0 .. Pool, NEW m \in Nat
  PROVE  LET page == Picked(Fuses(w, g, v, cjk, n, m)) IN
         /\ page \in Seq(Chunk) /\ Len(page) <= Limit
         /\ ToSet(page) \subseteq ToSet(w) \union ToSet(g) \union ToSet(v)
         /\ \A i, j \in 1 .. Len(page) : i < j => Before(w, g, v, page[i], page[j])
         /\ \A i \in 1 .. Len(page) : Best(w, g, v, page[i])
  <1> DEFINE list == Fuses(w, g, v, cjk, n, m)
             places == {i \in DOMAIN list : FirstOfFile(list, i)}
             all == Kept(list, places)
             page == Take(all, Limit)
  <1>1. /\ list \in Seq(Chunk) /\ Distinct(list)
        /\ ToSet(list) \subseteq ToSet(w) \union ToSet(g) \union ToSet(v)
        /\ \A d \in ToSet(list) : \A c : Beats(w, g, v, c, d) => Better(list, c, d)
    BY FusedTwice
  <1>2. Picked(list) = page
    BY DEF Picked
  <1> HIDE DEF list
  <1>3. places \subseteq 1 .. Len(list) /\ \A i \in places : FirstOfFile(list, i)
    BY <1>1, MembersOfList
  <1> HIDE DEF places
  <1>4. all \in Seq(Chunk)
    BY <1>1, KeptIs
  <1>5. PICK at : Picks(all, at, list, Len(list)) /\ \A i \in 1 .. Len(all) : at[i] \in places
    BY <1>1, KeptIs
  <1> HIDE DEF all
  <1>6. /\ page \in Seq(Chunk) /\ Len(page) <= Limit /\ Len(page) <= Len(all)
        /\ \A i \in 1 .. Len(page) : page[i] = all[i]
    BY <1>4, TakeIs, SearchAssumption
  <1>7. Len(page) \in Nat /\ Len(all) \in Nat /\ Len(list) \in Nat
    BY <1>1, <1>4, <1>6, LenProperties
  <1> HIDE DEF page
  <1>8. ASSUME NEW i \in 1 .. Len(page)
        PROVE  /\ at[i] \in 1 .. Len(list) /\ page[i] = list[at[i]] /\ FirstOfFile(list, at[i])
               /\ page[i] \in ToSet(list) /\ Rank(list, page[i]) = at[i]
    <2>1. i \in 1 .. Len(all)
      BY <1>6, <1>7
    <2>2. at[i] \in 1 .. Len(list) /\ page[i] = list[at[i]] /\ FirstOfFile(list, at[i])
      BY <1>3, <1>5, <1>6, <2>1 DEF Picks
    <2> QED BY <1>1, <2>2, RankIsPlace
  <1>9. \A i, j \in 1 .. Len(page) : i < j => at[i] < at[j]
    BY <1>5, <1>6, <1>7 DEF Picks
  <1>10. ASSUME NEW d \in ToSet(list), NEW c, Beats(w, g, v, c, d)
         PROVE  c \in ToSet(list) /\ Rank(list, c) < Rank(list, d)
    BY <1>1, <1>10 DEF Better
  <1>11. ASSUME NEW i \in 1 .. Len(page), NEW j \in 1 .. Len(page), i < j
         PROVE  Before(w, g, v, page[i], page[j])
    <2>1. at[i] < at[j] /\ at[i] \in Nat /\ at[j] \in Nat
      BY <1>8, <1>9, <1>11
    <2>2. page[i].file # page[j].file
      <3>1. at[i] \in 1 .. at[j] - 1 /\ FirstOfFile(list, at[j])
        BY <1>8, <2>1
      <3>2. list[at[i]].file # list[at[j]].file
        BY <3>1 DEF FirstOfFile
      <3> QED BY <1>8, <3>2
    <2>3. ~Beats(w, g, v, page[j], page[i])
      BY <1>8, <1>10, <2>1
    <2> QED BY <2>2, <2>3 DEF Before
  <1>12. ASSUME NEW i \in 1 .. Len(page), NEW c, c.file = page[i].file,
                Beats(w, g, v, c, page[i])
         PROVE  FALSE
    <2>1. c \in ToSet(list) /\ Rank(list, c) < at[i]
      BY <1>8, <1>10, <1>12
    <2>2. Rank(list, c) \in 1 .. Len(list) /\ list[Rank(list, c)] = c
      BY <1>1, <2>1, RankIs
    <2>3. Rank(list, c) \in 1 .. at[i] - 1
      BY <1>7, <1>8, <2>1, <2>2
    <2>4. list[Rank(list, c)].file # list[at[i]].file
      BY <1>8, <2>3 DEF FirstOfFile
    <2> QED BY <1>8, <1>12, <2>2, <2>4
  <1>13. \A i \in 1 .. Len(page) : Best(w, g, v, page[i])
    BY <1>12 DEF Best
  <1>14. ToSet(page) \subseteq ToSet(list)
    BY <1>6, <1>8, MembersOfList
  <1> QED BY <1>1, <1>2, <1>6, <1>11, <1>13, <1>14 DEF list

LEMMA LimitsAre ==
  ASSUME NEW r \in Requests
  PROVE  /\ Limits(r).keyword \in 0 .. Pool /\ Limits(r).vector \in 0 .. Pool
         /\ Limits(r).width \in Nat
  <1> DEFINE full == ForMode(r.mode)
             cap == Limit * Headroom
  <1>1. full.keyword \in 0 .. Pool /\ full.vector \in 0 .. Pool /\ full.width \in Nat
    BY SearchAssumption, NumbersAre DEF ForMode
  <1>2. cap \in Nat
    BY NumbersAre
  <1>3. Limits(r) = IF r.model THEN full
                    ELSE [keyword |-> Min({full.keyword, cap}), vector |-> 0,
                          width |-> Min({full.width, cap})]
    BY DEF Limits
  <1> HIDE DEF full, cap
  <1>4. Min({full.keyword, cap}) \in 0 .. Pool /\ Min({full.width, cap}) \in Nat
    <2>1. \A a, b \in Nat : Min({a, b}) \in {a, b} /\ Min({a, b}) <= a
      BY MinIsLeast
    <2>2. /\ Min({full.keyword, cap}) \in {full.keyword, cap}
          /\ Min({full.keyword, cap}) <= full.keyword
          /\ Min({full.width, cap}) \in {full.width, cap}
      BY <1>1, <1>2, <2>1, NumbersAre
    <2> QED BY <1>1, <1>2, <2>2, NumbersAre
  <1> QED BY <1>1, <1>3, <1>4, NumbersAre

(* The candidates an index finds are among those it ranks.                 *)
LEMMA FoundIs ==
  ASSUME NEW order \in Rankings, NEW n \in 0 .. Pool, NEW places, NEW list,
         list = Take(Kept(order, places), n)
  PROVE  /\ list \in Seq(Chunk) /\ Len(list) <= Pool
         /\ \A c \in ToSet(list) : \E i \in places : i \in DOMAIN order /\ order[i] = c
  <1> DEFINE all == Kept(order, places)
  <1>1. order \in Seq(Chunk)
    BY SearchAssumption
  <1>2. all \in Seq(Chunk)
    BY <1>1, KeptIs
  <1>3. PICK at : Picks(all, at, order, Len(order)) /\ \A i \in 1 .. Len(all) : at[i] \in places
    BY <1>1, KeptIs
  <1> HIDE DEF all
  <1>4. /\ list \in Seq(Chunk) /\ Len(list) <= n /\ Len(list) <= Len(all)
        /\ \A i \in 1 .. Len(list) : list[i] = all[i]
    BY <1>2, TakeIs DEF all
  <1>5. Len(list) \in Nat /\ Len(all) \in Nat /\ DOMAIN order = 1 .. Len(order)
    BY <1>1, <1>2, <1>4, LenProperties
  <1>6. ASSUME NEW c \in ToSet(list)
        PROVE  \E i \in places : i \in DOMAIN order /\ order[i] = c
    <2>1. PICK i \in 1 .. Len(list) : list[i] = c
      BY <1>4, MembersOfList
    <2>2. i \in 1 .. Len(all)
      BY <1>4, <1>5
    <2>3. at[i] \in places /\ at[i] \in 1 .. Len(order) /\ order[at[i]] = c
      BY <1>3, <1>4, <2>1, <2>2 DEF Picks
    <2> QED BY <1>5, <2>3
  <1> QED BY <1>4, <1>5, <1>6, NumbersAre

-----------------------------------------------------------------------------
(* The invariant                                                           *)

Steps == {"idle", "words", "grams", "vectors", "lookup", "boundary", "text", "trust",
          "done", "failed"}
Trusts == {"PartlyPrepared", "Ready", "NeedsUpdate", "FileNotFound", "StillBeingPrepared"}
Row == [chunk : Chunk, snippet : Version \union {None}, warned : BOOLEAN,
        trust : Trusts \union {None}]

AroundOK ==
  /\ disk \in [File -> 0 .. MaxVersion] /\ cut \in [File -> 0 .. MaxVersion]
  /\ cached \in [File -> 0 .. MaxVersion]
  /\ owner \in [File -> Folder \union {None}] /\ folders \subseteq Folder
  /\ status \in [File -> Status] /\ embedded \subseteq File

(* What the search will not see again: a folder taken from a file, a file  *)
(* that was gone, an older version of it.                                  *)
HistoryOK ==
  /\ before.disk \in [File -> 0 .. MaxVersion]
  /\ before.owner \in [File -> Folder \union {None}]
  /\ \A f \in File :
       /\ owner[f] # None => before.owner[f] # None
       /\ disk[f] # 0 => before.disk[f] # 0 /\ disk[f] >= before.disk[f]

ListsOK ==
  /\ step \in Steps /\ request \in Requests
  /\ index \in [word : Rankings, gram : Rankings, vector : Rankings]
  /\ {words, grams, nearest, picks} \subseteq Seq(Chunk)
  /\ Len(words) <= Pool /\ Len(grams) <= Pool /\ Len(nearest) <= Pool
  /\ ~request.cjk => grams = <<>> /\ step # "grams"
  /\ step = "idle" => words = <<>> /\ grams = <<>> /\ nearest = <<>>
  /\ step \in {"idle", "words", "grams", "vectors"} => picks = <<>> /\ rows = <<>>
  /\ found \in [DOMAIN found -> Status] /\ boundary \subseteq Folder

Candidates == ToSet(words) \union ToSet(grams) \union ToSet(nearest)

(* The file is of the place and kind asked for, and had a row.             *)
Rightful(f) ==
  LET scope == request.scope
      root == IF scope.limit = None THEN scope.folder ELSE scope.limit
  IN /\ scope.kinds = {} \/ KindOf[f] \in scope.kinds
     /\ IsStrictPrefix(root, f)
     /\ scope.subfolders \/ Len(f) = Len(root) + 1
     /\ before.owner[f] # None

CandidatesOK == \A c \in Candidates : Rightful(c.file)

Order(c, d) == Before(words, grams, nearest, c, d)

(* The rows made and the chunks still to be rendered, in the order of the  *)
(* page; while the trust of a row is told, its chunk is still the first.   *)
PageOK ==
  /\ rows \in Seq(Row)
  /\ ToSet(picks) \subseteq Candidates
  /\ \A i \in 1 .. Len(rows) : rows[i].chunk \in Candidates
  /\ step = "trust" => /\ picks # <<>> /\ rows # <<>> /\ Head(picks) \in DOMAIN found
                       /\ rows[Len(rows)].chunk = Head(picks)
  /\ Len(rows) + Len(picks) <= IF step = "trust" THEN Limit + 1 ELSE Limit
  /\ \A i, j \in 1 .. Len(picks) : i < j => Order(picks[i], picks[j])
  /\ \A i, j \in 1 .. Len(rows) : i < j => Order(rows[i].chunk, rows[j].chunk)
  /\ \A i \in 1 .. Len(rows) : \A j \in 1 .. Len(picks) :
       j > 1 \/ step # "trust" => Order(rows[i].chunk, picks[j])
  /\ \A c \in ToSet(picks) \union {rows[i].chunk : i \in 1 .. Len(rows)} :
       Best(words, grams, nearest, c)

(* What a row says of a file that was gone when the search began, and how  *)
(* old its text is.                                                        *)
True(row) ==
  LET f == row.chunk.file IN
  /\ before.disk[f] = 0 => row.snippet = None /\ row.trust \in {"FileNotFound", None}
  /\ row.snippet # None => row.snippet >= before.disk[f]

RowsOK == \A i \in 1 .. Len(rows) : True(rows[i])

SearchInv ==
  AroundOK /\ HistoryOK /\ ListsOK /\ CandidatesOK /\ PageOK /\ RowsOK

-----------------------------------------------------------------------------
(* What the invariant says                                                 *)

LEMMA InvTyped ==
  ASSUME SearchInv
  PROVE  TypeOK
  <1>1. Len(rows) \in Nat /\ Len(picks) \in Nat /\ Limit \in Nat
    BY LenProperties, SearchAssumption DEF SearchInv, PageOK, ListsOK
  <1>2. Len(rows) <= Limit
    <2>1. CASE step = "trust"
      <3>1. picks # <<>> /\ picks \in Seq(Chunk)
        BY <2>1 DEF SearchInv, PageOK, ListsOK
      <3>2. Len(picks) >= 1
        BY <3>1, EmptySeq
      <3> QED BY <1>1, <2>1, <3>2 DEF SearchInv, PageOK
    <2>2. CASE step # "trust"
      BY <1>1, <2>2 DEF SearchInv, PageOK
    <2> QED BY <2>1, <2>2
  <1>3. \A list \in {words, grams, nearest, picks} : ToSet(list) \subseteq Chunk
    BY MembersOfList DEF SearchInv, ListsOK
  <1> QED BY <1>2, <1>3 DEF SearchInv, AroundOK, ListsOK, TypeOK

LEMMA InvInScope ==
  ASSUME SearchInv
  PROVE  RowsAreInScope
  <1>1. DOMAIN rows = 1 .. Len(rows)
    BY LenProperties DEF SearchInv, PageOK
  <1> QED BY <1>1 DEF SearchInv, PageOK, CandidatesOK, Rightful, RowsAreInScope

LEMMA InvTrue ==
  ASSUME SearchInv
  PROVE  RowsAreTrue
  <1>1. DOMAIN rows = 1 .. Len(rows)
    BY LenProperties DEF SearchInv, PageOK
  <1>2. \A i \in 1 .. Len(rows) : before.owner[rows[i].chunk.file] # None /\ True(rows[i])
    BY DEF SearchInv, PageOK, CandidatesOK, Rightful, RowsOK
  <1> QED BY <1>1, <1>2 DEF True, RowsAreTrue

LEMMA InvBestFirst ==
  ASSUME SearchInv
  PROVE  BestFirst
  <1>1. DOMAIN rows = 1 .. Len(rows) /\ Len(rows) \in Nat
    BY LenProperties DEF SearchInv, PageOK
  <1>2. \A c, d : Dominates(c, d) <=> Beats(words, grams, nearest, c, d)
    BY DEF Dominates, Beats
  <1>3. ASSUME NEW i \in 1 .. Len(rows), NEW j \in 1 .. i - 1
        PROVE  /\ ~Dominates(rows[i].chunk, rows[j].chunk)
               /\ rows[i].chunk.file # rows[j].chunk.file
    <2>1. j \in 1 .. Len(rows) /\ j < i
      BY <1>1
    <2>2. Order(rows[j].chunk, rows[i].chunk)
      BY <2>1 DEF SearchInv, PageOK
    <2> QED BY <1>2, <2>2 DEF Order, Before
  <1>4. \A i \in 1 .. Len(rows) : \A c \in Candidates :
          c.file = rows[i].chunk.file => ~Dominates(c, rows[i].chunk)
    BY <1>2 DEF SearchInv, PageOK, Best, Candidates
  <1> QED BY <1>1, <1>3, <1>4 DEF BestFirst, Candidates

LEMMA InvInit ==
  ASSUME Init
  PROVE  SearchInv
  <1>1. <<>> \in Seq(Chunk) /\ <<>> \in Seq(Row) /\ Len(<<>>) = 0 /\ ToSet(<<>>) = {}
    BY EmptySeq DEF ToSet
  <1>2. AroundOK
    BY SearchAssumption DEF Init, AroundOK
  <1>3. HistoryOK
    BY <1>2 DEF Init, AroundOK, HistoryOK
  <1>4. ListsOK
    BY <1>1, NumbersAre DEF Init, ListsOK, Steps
  <1>5. CandidatesOK
    BY <1>1 DEF Init, CandidatesOK, Candidates
  <1>6. PageOK
    BY <1>1, SearchAssumption DEF Init, PageOK
  <1>7. RowsOK
    BY <1>1 DEF Init, RowsOK
  <1> QED BY <1>2, <1>3, <1>4, <1>5, <1>6, <1>7 DEF SearchInv

-----------------------------------------------------------------------------
(* The surroundings change                                                 *)

LEMMA MeanwhileKeeps ==
  ASSUME SearchInv, Meanwhile
  PROVE  SearchInv'
  <1>1. UNCHANGED <<search, index>> /\ before' = [before EXCEPT !.quiet = FALSE]
    BY DEF Meanwhile, EditFile, DeleteFile, ScanFile, ExtractFile, ChunkFile, EmbedFile,
           RemoveFolder, TakeIn, Changed
  <1>2. before'.disk = before.disk /\ before'.owner = before.owner
    BY <1>1
  <1>3. AroundOK' /\ HistoryOK'
    <2>1. ASSUME NEW f \in File, EditFile(f) PROVE AroundOK' /\ HistoryOK'
      <3>1. \A g \in File : disk'[g] = IF g = f THEN disk[f] + 1 ELSE disk[g]
        BY <2>1 DEF SearchInv, AroundOK, EditFile
      <3>2. disk[f] \in 1 .. MaxVersion - 1 /\ MaxVersion \in Nat
        BY <2>1, SearchAssumption DEF EditFile
      <3>3. AroundOK'
        BY <2>1, <3>2 DEF SearchInv, AroundOK, EditFile
      <3>4. \A g \in File : disk[g] \in Nat /\ before.disk[g] \in Nat
        BY SearchAssumption DEF SearchInv, AroundOK, HistoryOK
      <3>5. \A g \in File : disk'[g] # 0 => before.disk[g] # 0 /\ disk'[g] >= before.disk[g]
        BY <3>1, <3>2, <3>4 DEF SearchInv, HistoryOK
      <3>6. owner' = owner
        BY <2>1 DEF EditFile
      <3>7. HistoryOK'
        BY <1>2, <3>5, <3>6 DEF SearchInv, HistoryOK
      <3> QED BY <3>3, <3>7
    <2>2. ASSUME NEW f \in File, DeleteFile(f) PROVE AroundOK' /\ HistoryOK'
      BY <1>2, <2>2, SearchAssumption DEF SearchInv, AroundOK, HistoryOK, DeleteFile
    <2>3. ASSUME NEW f \in File, ScanFile(f) PROVE AroundOK' /\ HistoryOK'
      <3>1. cut' \in [File -> 0 .. MaxVersion] /\ status' \in [File -> Status]
        <4>1. /\ cut \in [File -> 0 .. MaxVersion] /\ status \in [File -> Status]
              /\ 0 \in 0 .. MaxVersion /\ {"missing", "stale"} \subseteq Status
          BY SearchAssumption DEF SearchInv, AroundOK, Status
        <4>2. /\ cut' \in {cut, [cut EXCEPT ![f] = 0]}
              /\ status' \in {status, [status EXCEPT ![f] = "missing"],
                              [status EXCEPT ![f] = "stale"]}
          BY <2>3 DEF ScanFile
        <4> QED BY <4>1, <4>2
      <3> QED BY <1>2, <2>3, <3>1 DEF SearchInv, AroundOK, HistoryOK, ScanFile
    <2>4. ASSUME NEW f \in File, ExtractFile(f) PROVE AroundOK' /\ HistoryOK'
      BY <1>2, <2>4 DEF SearchInv, AroundOK, HistoryOK, ExtractFile
    <2>5. ASSUME NEW f \in File, ChunkFile(f) PROVE AroundOK' /\ HistoryOK'
      BY <1>2, <2>5 DEF SearchInv, AroundOK, HistoryOK, ChunkFile, Status
    <2>6. ASSUME NEW f \in File, EmbedFile(f) PROVE AroundOK' /\ HistoryOK'
      BY <1>2, <2>6 DEF SearchInv, AroundOK, HistoryOK, EmbedFile
    <2>7. ASSUME NEW s \in Folder, RemoveFolder(s) PROVE AroundOK' /\ HistoryOK'
      <3>1. \A f \in File : owner'[f] = IF owner[f] = s THEN None ELSE owner[f]
        BY <2>7 DEF RemoveFolder
      <3>2. AroundOK'
        BY <2>7, SearchAssumption DEF SearchInv, AroundOK, RemoveFolder
      <3> QED BY <1>2, <2>7, <3>1, <3>2 DEF SearchInv, HistoryOK, RemoveFolder
    <2>8. ASSUME NEW s \in Folder, TakeIn(s) PROVE AroundOK' /\ HistoryOK'
      <3> DEFINE inside == {t \in folders : IsStrictPrefix(s, t)}
      <3>1. \A f \in File : owner'[f] = IF owner[f] \in inside THEN s ELSE owner[f]
        BY <2>8 DEF TakeIn
      <3>2. AroundOK'
        BY <2>8 DEF SearchInv, AroundOK, TakeIn
      <3>3. None \notin inside
        BY SearchAssumption DEF SearchInv, AroundOK
      <3> HIDE DEF inside
      <3> QED BY <1>2, <2>8, <3>1, <3>2, <3>3 DEF SearchInv, HistoryOK, TakeIn
    <2> QED BY <2>1, <2>2, <2>3, <2>4, <2>5, <2>6, <2>7, <2>8 DEF Meanwhile
  <1>4. ListsOK'
    BY <1>1 DEF SearchInv, ListsOK, search
  <1>5. CandidatesOK'
    BY <1>1, <1>2 DEF SearchInv, CandidatesOK, Candidates, Rightful, search
  <1>6. PageOK'
    BY <1>1 DEF SearchInv, PageOK, Candidates, Order, search
  <1>7. RowsOK'
    BY <1>1, <1>2 DEF SearchInv, RowsOK, True, search
  <1> QED BY <1>3, <1>4, <1>5, <1>6, <1>7 DEF SearchInv

-----------------------------------------------------------------------------
(* The steps before the page is picked                                     *)

LEMMA EmptyPage ==
  ASSUME rows = <<>>, picks = <<>>, step # "trust"
  PROVE  PageOK /\ RowsOK
  <1>1. <<>> \in Seq(Row) /\ Len(<<>>) = 0 /\ ToSet(<<>>) = {} /\ Limit \in Nat
    BY EmptySeq, SearchAssumption DEF ToSet
  <1> QED BY <1>1 DEF PageOK, RowsOK

LEMMA SubmitKeeps ==
  ASSUME SearchInv, Submit
  PROVE  SearchInv'
  <1>1. rows = <<>> /\ picks = <<>> /\ words = <<>> /\ grams = <<>> /\ nearest = <<>>
    BY DEF SearchInv, ListsOK, Submit
  <1>2. UNCHANGED <<rows, picks, words, grams, nearest>> /\ step' \in {"words", "vectors"}
    BY DEF Submit
  <1>3. AroundOK' /\ HistoryOK'
    BY DEF SearchInv, AroundOK, HistoryOK, Submit, around
  <1>4. ListsOK'
    BY <1>1, <1>2 DEF SearchInv, ListsOK, Submit, Steps
  <1>5. CandidatesOK'
    BY <1>1, <1>2 DEF CandidatesOK, Candidates, ToSet
  <1>6. (rows = <<>> /\ picks = <<>> /\ step # "trust")'
    BY <1>1, <1>2
  <1>7. PageOK' /\ RowsOK'
    BY <1>6, EmptyPage, PTL
  <1> QED BY <1>3, <1>4, <1>5, <1>7 DEF SearchInv

(* What an index finds is of the place and kind asked for, and has a row.  *)
LEMMA ActiveIsRightful ==
  ASSUME SearchInv, NEW c \in Chunk, Active(c), InScope(request.scope, c.file)
  PROVE  Rightful(c.file)
  <1>1. c.file \in File
    BY DEF Chunk
  <1> QED BY <1>1 DEF SearchInv, HistoryOK, Active, InScope, Rightful

LEMMA MatchingIs ==
  ASSUME SearchInv, NEW order \in Rankings, NEW n \in 0 .. Pool
  PROVE  /\ Matching(order, n) \in Seq(Chunk) /\ Len(Matching(order, n)) <= Pool
         /\ \A c \in ToSet(Matching(order, n)) : Rightful(c.file)
  <1> DEFINE places == {i \in DOMAIN order :
                          Active(order[i]) /\ InScope(request.scope, order[i].file)}
  <1>1. Matching(order, n) = Take(Kept(order, places), n)
    BY DEF Matching
  <1>2. \A i \in places : Active(order[i]) /\ InScope(request.scope, order[i].file)
    OBVIOUS
  <1> HIDE DEF places
  <1>3. /\ Matching(order, n) \in Seq(Chunk) /\ Len(Matching(order, n)) <= Pool
        /\ \A c \in ToSet(Matching(order, n)) : \E i \in places : order[i] = c
    BY <1>1, FoundIs
  <1>4. ToSet(Matching(order, n)) \subseteq Chunk
    BY <1>3, MembersOfList
  <1> QED BY <1>2, <1>3, <1>4, ActiveIsRightful

LEMMA NearestIs ==
  ASSUME SearchInv, NEW order \in Rankings, NEW n \in 0 .. Pool
  PROVE  /\ Nearest(order, n) \in Seq(Chunk) /\ Len(Nearest(order, n)) <= Pool
         /\ \A c \in ToSet(Nearest(order, n)) : Rightful(c.file)
  <1> DEFINE places == {i \in DOMAIN order : Scanned(order[i])}
  <1>1. Nearest(order, n) = Take(Kept(order, places), n)
    BY DEF Nearest
  <1>2. \A i \in places : Active(order[i]) /\ InScope(request.scope, order[i].file)
    BY DEF Scanned
  <1> HIDE DEF places
  <1>3. /\ Nearest(order, n) \in Seq(Chunk) /\ Len(Nearest(order, n)) <= Pool
        /\ \A c \in ToSet(Nearest(order, n)) : \E i \in places : order[i] = c
    BY <1>1, FoundIs
  <1>4. ToSet(Nearest(order, n)) \subseteq Chunk
    BY <1>3, MembersOfList
  <1> QED BY <1>2, <1>3, <1>4, ActiveIsRightful

LEMMA RightfulStays ==
  ASSUME UNCHANGED <<request, before>>, NEW f
  PROVE  Rightful(f)' <=> Rightful(f)
  BY DEF Rightful

LEMMA MatchWordsKeeps ==
  ASSUME SearchInv, MatchWords
  PROVE  SearchInv'
  <1> DEFINE found_ == Matching(index.word, Limits(request).keyword)
  <1>1. /\ found_ \in Seq(Chunk) /\ Len(found_) <= Pool
        /\ \A c \in ToSet(found_) : Rightful(c.file)
    <2>1. index.word \in Rankings /\ Limits(request).keyword \in 0 .. Pool
      BY LimitsAre DEF SearchInv, ListsOK
    <2> QED BY <2>1, MatchingIs
  <1>2. /\ words' = found_ /\ rows = <<>> /\ picks = <<>>
        /\ UNCHANGED <<around, request, index, before, grams, nearest>>
        /\ UNCHANGED <<rows, picks, found, boundary>>
        /\ step' \in {"grams", "vectors"} /\ (step' = "grams" => request.cjk)
    BY DEF SearchInv, ListsOK, MatchWords
  <1> HIDE DEF found_
  <1>3. AroundOK' /\ HistoryOK'
    BY <1>2 DEF SearchInv, AroundOK, HistoryOK, around
  <1>4. ListsOK'
    BY <1>1, <1>2 DEF SearchInv, ListsOK, Steps
  <1>5. CandidatesOK'
    BY <1>1, <1>2, RightfulStays DEF SearchInv, CandidatesOK, Candidates
  <1>6. (rows = <<>> /\ picks = <<>> /\ step # "trust")'
    BY <1>2
  <1>7. PageOK' /\ RowsOK'
    BY <1>6, EmptyPage, PTL
  <1> QED BY <1>3, <1>4, <1>5, <1>7 DEF SearchInv

LEMMA MatchGramsKeeps ==
  ASSUME SearchInv, MatchGrams
  PROVE  SearchInv'
  <1> DEFINE found_ == Matching(index.gram, Limits(request).keyword)
  <1>1. /\ found_ \in Seq(Chunk) /\ Len(found_) <= Pool
        /\ \A c \in ToSet(found_) : Rightful(c.file)
    <2>1. index.gram \in Rankings /\ Limits(request).keyword \in 0 .. Pool
      BY LimitsAre DEF SearchInv, ListsOK
    <2> QED BY <2>1, MatchingIs
  <1>2. /\ grams' = found_ /\ rows = <<>> /\ picks = <<>> /\ request.cjk
        /\ UNCHANGED <<around, request, index, before, words, nearest>>
        /\ UNCHANGED <<rows, picks, found, boundary>>
        /\ step' = "vectors"
    BY DEF SearchInv, ListsOK, MatchGrams
  <1> HIDE DEF found_
  <1>3. AroundOK' /\ HistoryOK'
    BY <1>2 DEF SearchInv, AroundOK, HistoryOK, around
  <1>4. ListsOK'
    BY <1>1, <1>2 DEF SearchInv, ListsOK, Steps
  <1>5. CandidatesOK'
    BY <1>1, <1>2, RightfulStays DEF SearchInv, CandidatesOK, Candidates
  <1>6. (rows = <<>> /\ picks = <<>> /\ step # "trust")'
    BY <1>2
  <1>7. PageOK' /\ RowsOK'
    BY <1>6, EmptyPage, PTL
  <1> QED BY <1>3, <1>4, <1>5, <1>7 DEF SearchInv

-----------------------------------------------------------------------------
(* The page                                                                *)

LEMMA MatchVectorsKeeps ==
  ASSUME SearchInv, MatchVectors
  PROVE  SearchInv'
  <1> DEFINE v == IF request.model THEN Nearest(index.vector, Limits(request).vector) ELSE <<>>
             page == Picked(Fuses(words, grams, v, request.cjk, Limits(request).keyword,
                                  Limits(request).width))
  <1>1. v \in Seq(Chunk) /\ Len(v) <= Pool /\ \A c \in ToSet(v) : Rightful(c.file)
    <2>1. index.vector \in Rankings /\ Limits(request).vector \in 0 .. Pool
      BY LimitsAre DEF SearchInv, ListsOK
    <2>2. CASE request.model
      BY <2>1, <2>2, NearestIs
    <2>3. CASE ~request.model
      BY <2>3, EmptySeq, NumbersAre DEF ToSet
    <2> QED BY <2>2, <2>3
  <1>2. /\ nearest' = v /\ picks' = page /\ rows = <<>> /\ step' = "lookup"
        /\ UNCHANGED <<around, request, index, before, words, grams, rows, found, boundary>>
    BY DEF SearchInv, ListsOK, MatchVectors, Keywords, Fuses
  <1> HIDE DEF v
  <1>3. /\ page \in Seq(Chunk) /\ Len(page) <= Limit
        /\ ToSet(page) \subseteq ToSet(words) \union ToSet(grams) \union ToSet(v)
        /\ \A i, j \in 1 .. Len(page) : i < j => Before(words, grams, v, page[i], page[j])
        /\ \A i \in 1 .. Len(page) : Best(words, grams, v, page[i])
    <2>1. /\ words \in Seq(Chunk) /\ grams \in Seq(Chunk)
          /\ Len(words) <= Pool /\ Len(grams) <= Pool
          /\ ~request.cjk => grams = <<>>
      BY DEF SearchInv, ListsOK
    <2>2. Limits(request).keyword \in 0 .. Pool /\ Limits(request).width \in Nat
      BY LimitsAre DEF SearchInv, ListsOK
    <2> QED BY <1>1, <2>1, <2>2, PickedIs
  <1> HIDE DEF page
  <1>4. AroundOK' /\ HistoryOK'
    BY <1>2 DEF SearchInv, AroundOK, HistoryOK, around
  <1>5. ListsOK'
    BY <1>1, <1>2, <1>3 DEF SearchInv, ListsOK, Steps
  <1>6. CandidatesOK'
    BY <1>1, <1>2, RightfulStays DEF SearchInv, CandidatesOK, Candidates
  <1>7. PageOK'
    <2>1. rows' = <<>> /\ <<>> \in Seq(Row) /\ Len(<<>>) = 0 /\ Len(page) \in Nat /\ Limit \in Nat
      BY <1>2, <1>3, EmptySeq, LenProperties, SearchAssumption
    <2>2. Candidates' = ToSet(words) \union ToSet(grams) \union ToSet(v)
      BY <1>2 DEF Candidates
    <2>3. \A c \in ToSet(page) : Best(words, grams, v, c)
      BY <1>3, MembersOfList
    <2>4. \A c, d : Order(c, d)' <=> Before(words, grams, v, c, d)
      BY <1>2 DEF Order
    <2>5. {rows'[i].chunk : i \in 1 .. Len(rows')} = {}
      BY <2>1
    <2> QED BY <1>2, <1>3, <2>1, <2>2, <2>3, <2>4, <2>5 DEF PageOK
  <1>8. RowsOK'
    <2>1. Len(rows') = 0
      BY <1>2, EmptySeq
    <2> QED BY <2>1 DEF RowsOK
  <1> QED BY <1>4, <1>5, <1>6, <1>7, <1>8 DEF SearchInv

LEMMA ReadingKeeps ==
  ASSUME SearchInv, LookUp \/ ReadBoundary \/ Finish \/ Fail
  PROVE  SearchInv'
  <1>1. /\ UNCHANGED <<around, index, before, request, words, grams, nearest, picks, rows>>
        /\ step # "trust" /\ step' # "trust" /\ step' # "grams"
        /\ step' \notin {"idle", "words", "grams", "vectors"} /\ step' \in Steps
    BY DEF LookUp, ReadBoundary, Finish, Fail, Steps
  <1>2. found' \in [DOMAIN found' -> Status] /\ boundary' \subseteq Folder
    <2>1. CASE LookUp
      <3> DEFINE known == {d \in ToSet(picks) : Active(d)}
      <3>1. \A c \in known : status[c.file] \in Status
        <4>1. known \subseteq Chunk
          BY MembersOfList DEF SearchInv, ListsOK
        <4> QED BY <4>1 DEF SearchInv, AroundOK, Chunk
      <3>2. found' = [c \in known |-> status[c.file]] /\ boundary' = boundary
        BY <2>1 DEF LookUp
      <3> HIDE DEF known
      <3> QED BY <3>1, <3>2 DEF SearchInv, ListsOK
    <2>2. CASE ReadBoundary
      BY <2>2 DEF SearchInv, ListsOK, AroundOK, ReadBoundary
    <2>3. CASE Finish \/ Fail
      BY <2>3 DEF SearchInv, ListsOK, Finish, Fail
    <2> QED BY <2>1, <2>2, <2>3
  <1>3. AroundOK' /\ HistoryOK'
    BY <1>1 DEF SearchInv, AroundOK, HistoryOK, around
  <1>4. ListsOK'
    BY <1>1, <1>2 DEF SearchInv, ListsOK
  <1>5. CandidatesOK'
    BY <1>1 DEF SearchInv, CandidatesOK, Candidates, Rightful
  <1>6. PageOK'
    BY <1>1 DEF SearchInv, PageOK, Candidates, Order
  <1>7. RowsOK'
    BY <1>1 DEF SearchInv, RowsOK, True
  <1> QED BY <1>3, <1>4, <1>5, <1>6, <1>7 DEF SearchInv

LEMMA SnippetIs ==
  ASSUME SearchInv, NEW f \in File
  PROVE  /\ Snippet(f) \in Version \union {None}
         /\ Snippet(f) # None => disk[f] # 0 /\ Snippet(f) = disk[f]
  <1>1. disk[f] \in 0 .. MaxVersion
    BY DEF SearchInv, AroundOK
  <1>2. CachedText(f) # 0 => CachedText(f) = disk[f]
    BY DEF CachedText
  <1>3. Snippet(f) = None \/ (Validated(f) /\ Snippet(f) = disk[f])
    BY <1>2 DEF Snippet
  <1>4. Snippet(f) # None => disk[f] # 0 /\ Snippet(f) = disk[f]
    BY <1>3 DEF Validated
  <1>5. disk[f] # 0 => disk[f] \in Version
    BY <1>1, SearchAssumption DEF Version
  <1> QED BY <1>4, <1>5

LEMMA TrustIs ==
  ASSUME NEW f, NEW said \in Status, NEW warned \in BOOLEAN
  PROVE  /\ TrustFor(f, said, warned) \in Trusts
         /\ disk[f] = 0 => TrustFor(f, said, warned) = "FileNotFound"
  BY DEF TrustFor, TrustState, Status, Trusts

(* What is asked of the rows and the chunks left, of any rows and chunks.  *)
PageFits(made, left, open) ==
  /\ \A i, j \in 1 .. Len(left) : i < j => Order(left[i], left[j])
  /\ \A i, j \in 1 .. Len(made) : i < j => Order(made[i].chunk, made[j].chunk)
  /\ \A i \in 1 .. Len(made) : \A j \in 1 .. Len(left) :
       j > 1 \/ ~open => Order(made[i].chunk, left[j])
  /\ \A c \in ToSet(left) \union {made[i].chunk : i \in 1 .. Len(made)} :
       Best(words, grams, nearest, c)

(* The tail of a list holds members of the list only.                       *)
LEMMA TailOfList ==
  ASSUME NEW S, NEW list \in Seq(S), list # <<>>
  PROVE  /\ Tail(list) \in Seq(S) /\ Len(Tail(list)) = Len(list) - 1 /\ Len(list) \in Nat
         /\ \A i \in 1 .. Len(Tail(list)) : Tail(list)[i] = list[i + 1]
         /\ ToSet(Tail(list)) \subseteq ToSet(list)
  <1>1. /\ Tail(list) \in Seq(S) /\ Len(Tail(list)) = Len(list) - 1 /\ Len(list) \in Nat
        /\ \A i \in 1 .. Len(Tail(list)) : Tail(list)[i] = list[i + 1]
    BY HeadTailProperties, LenProperties
  <1>2. ASSUME NEW c \in ToSet(Tail(list))
        PROVE  c \in ToSet(list)
    <2>1. PICK i \in 1 .. Len(Tail(list)) : Tail(list)[i] = c
      BY <1>1, MembersOfList
    <2>2. i + 1 \in 1 .. Len(list) /\ list[i + 1] = c
      BY <1>1, <2>1
    <2> QED BY <2>2, MembersOfList
  <1> QED BY <1>1, <1>2

(* The first of the chunks left is passed over, or is the row in hand.     *)
LEMMA FirstPassed ==
  ASSUME NEW made, NEW left \in Seq(Chunk), left # <<>>, NEW open,
         PageFits(made, left, open)
  PROVE  PageFits(made, Tail(left), FALSE)
  <1>1. /\ Tail(left) \in Seq(Chunk) /\ Len(Tail(left)) = Len(left) - 1 /\ Len(left) \in Nat
        /\ \A i \in 1 .. Len(Tail(left)) : Tail(left)[i] = left[i + 1]
    BY HeadTailProperties, LenProperties
  <1>2. \A i \in 1 .. Len(Tail(left)) : i + 1 \in 1 .. Len(left) /\ i + 1 > 1
    BY <1>1
  <1>3. ToSet(Tail(left)) \subseteq ToSet(left)
    BY TailOfList
  <1>4. \A i, j \in 1 .. Len(Tail(left)) : i < j => Order(Tail(left)[i], Tail(left)[j])
    BY <1>1, <1>2 DEF PageFits
  <1>5. \A i \in 1 .. Len(made) : \A j \in 1 .. Len(Tail(left)) :
          Order(made[i].chunk, Tail(left)[j])
    BY <1>1, <1>2 DEF PageFits
  <1> QED BY <1>3, <1>4, <1>5 DEF PageFits

(* The first of the chunks left makes a row.                               *)
LEMMA FirstShown ==
  ASSUME NEW made \in Seq(Row), NEW left \in Seq(Chunk), left # <<>>, NEW row \in Row,
         row.chunk = Head(left), PageFits(made, left, FALSE)
  PROVE  PageFits(Append(made, row), left, TRUE)
  <1> DEFINE now == Append(made, row)
  <1>1. /\ now \in Seq(Row) /\ Len(now) = Len(made) + 1 /\ now[Len(made) + 1] = row
        /\ \A i \in 1 .. Len(made) : now[i] = made[i]
    BY AppendProperties
  <1>2. Len(made) \in Nat /\ Len(left) \in Nat /\ 1 \in 1 .. Len(left) /\ left[1] = row.chunk
    BY LenProperties, HeadTailProperties, EmptySeq
  <1> HIDE DEF now
  <1>3. \A i \in 1 .. Len(now) : i = Len(made) + 1 \/ i \in 1 .. Len(made)
    BY <1>1, <1>2
  <1>4. ASSUME NEW i \in 1 .. Len(now), NEW j \in 1 .. Len(now), i < j
        PROVE  Order(now[i].chunk, now[j].chunk)
    <2>1. i \in 1 .. Len(made) /\ now[i] = made[i]
      BY <1>1, <1>2, <1>4
    <2>2. CASE j = Len(made) + 1
      <3>1. now[j].chunk = left[1]
        BY <1>1, <1>2, <2>2
      <3> QED BY <1>2, <2>1, <3>1 DEF PageFits
    <2>3. CASE j \in 1 .. Len(made)
      BY <1>1, <1>4, <2>1, <2>3 DEF PageFits
    <2> QED BY <1>3, <2>2, <2>3
  <1>5. ASSUME NEW i \in 1 .. Len(now), NEW j \in 1 .. Len(left), j > 1
        PROVE  Order(now[i].chunk, left[j])
    <2>1. CASE i = Len(made) + 1
      <3>1. Order(left[1], left[j])
        BY <1>2, <1>5 DEF PageFits
      <3> QED BY <1>1, <1>2, <2>1, <3>1
    <2>2. CASE i \in 1 .. Len(made)
      BY <1>1, <2>2 DEF PageFits
    <2> QED BY <1>3, <2>1, <2>2
  <1>6. \A i \in 1 .. Len(now) : Best(words, grams, nearest, now[i].chunk)
    <2>1. left[1] \in ToSet(left)
      BY <1>2, MembersOfList
    <2> QED BY <1>1, <1>2, <1>3, <2>1 DEF PageFits
  <1>7. PageFits(now, left, TRUE)
    BY <1>4, <1>5, <1>6 DEF PageFits
  <1> QED BY <1>7 DEF now

LEMMA RenderTextKeeps ==
  ASSUME SearchInv, RenderText
  PROVE  SearchInv'
  <1> DEFINE c == Head(picks)
             row == [chunk |-> c, snippet |-> Snippet(c.file),
                     warned |-> Warnings(c.file), trust |-> None]
  <1>1. /\ step = "text" /\ picks # <<>> /\ picks \in Seq(Chunk) /\ rows \in Seq(Row)
        /\ UNCHANGED <<around, index, before, request, words, grams, nearest, found, boundary>>
    BY DEF SearchInv, ListsOK, PageOK, RenderText
  <1>2. AroundOK' /\ HistoryOK'
    BY <1>1 DEF SearchInv, AroundOK, HistoryOK, around
  <1>3. CandidatesOK'
    BY <1>1 DEF SearchInv, CandidatesOK, Candidates, Rightful
  <1>4. c \in Chunk /\ c.file \in File /\ c \in ToSet(picks)
    <2>1. c \in Chunk /\ c = picks[1] /\ 1 \in 1 .. Len(picks)
      BY <1>1, HeadTailProperties, EmptySeq
    <2> QED BY <1>1, <2>1, MembersOfList DEF Chunk
  <1>5. PageFits(rows, picks, FALSE)
    BY <1>1 DEF SearchInv, PageOK, PageFits
  <1>6. /\ Tail(picks) \in Seq(Chunk) /\ Len(Tail(picks)) = Len(picks) - 1
        /\ ToSet(Tail(picks)) \subseteq ToSet(picks) /\ Len(picks) \in Nat /\ Len(rows) \in Nat
    BY <1>1, TailOfList, LenProperties
  <1>7. Candidates' = Candidates /\ \A x, y : Order(x, y)' <=> Order(x, y)
    BY <1>1 DEF Candidates, Order
  <1>8. CASE c \notin DOMAIN found
    <2>1. picks' = Tail(picks) /\ rows' = rows /\ step' = "text"
      BY <1>1, <1>8 DEF RenderText
    <2>2. PageFits(rows, Tail(picks), FALSE)
      BY <1>1, <1>5, FirstPassed
    <2>3. PageFits(rows, picks, step = "trust")'
      BY <1>1, <1>7, <2>1, <2>2 DEF PageFits
    <2>4. ListsOK'
      BY <1>1, <1>6, <2>1 DEF SearchInv, ListsOK
    <2>5. PageOK'
      <3>1. Limit \in Nat
        BY SearchAssumption
      <3> QED BY <1>1, <1>6, <1>7, <2>1, <2>3, <3>1 DEF SearchInv, PageOK, PageFits
    <2>6. RowsOK'
      BY <1>1, <2>1 DEF SearchInv, RowsOK, True
    <2> QED BY <1>2, <1>3, <2>4, <2>5, <2>6 DEF SearchInv
  <1>9. CASE c \in DOMAIN found
    <2>1. picks' = picks /\ rows' = Append(rows, row) /\ step' = "trust"
      BY <1>1, <1>9 DEF RenderText
    <2>2. Warnings(c.file) \in BOOLEAN
      BY DEF Warnings
    <2>3. row \in Row /\ row.chunk = c /\ row.snippet = Snippet(c.file) /\ row.trust = None
      BY <1>4, <2>2, SnippetIs DEF Row
    <2>4. True(row)
      <3>1. /\ disk[c.file] # 0 => /\ before.disk[c.file] # 0
                                   /\ disk[c.file] >= before.disk[c.file]
        BY <1>4 DEF SearchInv, HistoryOK
      <3> QED BY <1>4, <2>3, <3>1, SnippetIs DEF True
    <2> HIDE DEF row, c
    <2>5. /\ rows' \in Seq(Row) /\ Len(rows') = Len(rows) + 1 /\ rows'[Len(rows) + 1] = row
          /\ \A i \in 1 .. Len(rows) : rows'[i] = rows[i]
      BY <1>1, <2>1, <2>3, AppendProperties
    <2>6. \A i \in 1 .. Len(rows') : rows'[i] = row \/ \E j \in 1 .. Len(rows) : rows'[i] = rows[j]
      BY <1>6, <2>5
    <2>7. PageFits(rows', picks, TRUE)
      BY <1>1, <1>5, <2>1, <2>3, FirstShown DEF c
    <2>8. PageFits(rows, picks, step = "trust")'
      BY <1>1, <1>7, <2>1, <2>7 DEF PageFits
    <2>9. ListsOK'
      BY <1>1, <2>1 DEF SearchInv, ListsOK, Steps
    <2>10. PageOK'
      <3>1. \A i \in 1 .. Len(rows') : rows'[i].chunk \in Candidates
        BY <1>4, <2>3, <2>6 DEF SearchInv, PageOK
      <3>2. /\ rows' # <<>> /\ rows'[Len(rows')].chunk = Head(picks) /\ Head(picks) \in DOMAIN found
        BY <1>6, <1>9, <2>3, <2>5, EmptySeq DEF c
      <3>3. Limit \in Nat /\ Len(rows) + Len(picks) <= Limit
        BY <1>1, SearchAssumption DEF SearchInv, PageOK
      <3>4. Len(rows') + Len(picks') <= Limit + 1
        BY <1>6, <2>1, <2>5, <3>3
      <3> QED BY <1>1, <1>7, <2>1, <2>5, <2>8, <3>1, <3>2, <3>4 DEF SearchInv, PageOK, PageFits
    <2>11. RowsOK'
      <3>1. \A r : True(r)' <=> True(r)
        BY <1>1 DEF True
      <3> QED BY <2>4, <2>6, <3>1 DEF SearchInv, RowsOK
    <2> QED BY <1>2, <1>3, <2>9, <2>10, <2>11 DEF SearchInv
  <1> QED BY <1>8, <1>9

LEMMA RenderTrustKeeps ==
  ASSUME SearchInv, RenderTrust
  PROVE  SearchInv'
  <1> DEFINE n == Len(rows)
             c == Head(picks)
             told == TrustFor(c.file, found[c], rows[n].warned)
             row == [rows[n] EXCEPT !.trust = told]
  <1>1. /\ step = "trust" /\ picks # <<>> /\ picks \in Seq(Chunk) /\ rows \in Seq(Row)
        /\ rows # <<>> /\ c \in DOMAIN found /\ rows[n].chunk = c
        /\ picks' = Tail(picks) /\ step' = "text" /\ rows' = [rows EXCEPT ![n].trust = told]
        /\ UNCHANGED <<around, index, before, request, words, grams, nearest, found, boundary>>
    BY DEF SearchInv, ListsOK, PageOK, RenderTrust
  <1>2. AroundOK' /\ HistoryOK'
    BY <1>1 DEF SearchInv, AroundOK, HistoryOK, around
  <1>3. CandidatesOK'
    BY <1>1 DEF SearchInv, CandidatesOK, Candidates, Rightful
  <1>4. n \in Nat /\ n \in 1 .. n /\ rows[n] \in Row
    BY <1>1, EmptySeq, ElementOfSeq
  <1>5. told \in Trusts /\ (disk[c.file] = 0 => told = "FileNotFound")
    <2>1. found[c] \in Status /\ rows[n].warned \in BOOLEAN
      BY <1>1, <1>4 DEF SearchInv, ListsOK, Row
    <2> QED BY <2>1, TrustIs
  <1> HIDE DEF told
  <1>6. /\ row \in Row /\ row.chunk = rows[n].chunk /\ row.snippet = rows[n].snippet
        /\ row.trust = told
    BY <1>4, <1>5 DEF Row
  <1>7. rows' = [rows EXCEPT ![n] = row]
    BY <1>1, Zenon
  <1> HIDE DEF row
  <1>8. /\ rows' \in Seq(Row) /\ Len(rows') = n
        /\ \A i \in 1 .. n : rows'[i] = IF i = n THEN row ELSE rows[i]
    <2>1. rows \in Seq(Row) /\ n \in 1 .. Len(rows) /\ row \in Row
      BY <1>1, <1>4, <1>6
    <2>2. /\ [rows EXCEPT ![n] = row] \in Seq(Row) /\ Len([rows EXCEPT ![n] = row]) = n
          /\ \A i \in 1 .. n : [rows EXCEPT ![n] = row][i] = IF i = n THEN row ELSE rows[i]
      BY <2>1, ExceptSeq
    <2> QED BY <2>2, <1>7
  <1>9. \A i \in 1 .. n : rows'[i].chunk = rows[i].chunk
    BY <1>6, <1>8
  <1>10. /\ Tail(picks) \in Seq(Chunk) /\ Len(Tail(picks)) = Len(picks) - 1
         /\ ToSet(Tail(picks)) \subseteq ToSet(picks) /\ Len(picks) \in Nat
    BY <1>1, TailOfList
  <1>11. Candidates' = Candidates /\ \A x, y : Order(x, y)' <=> Order(x, y)
    BY <1>1 DEF Candidates, Order
  <1>12. PageFits(rows, Tail(picks), FALSE)
    <2>1. PageFits(rows, picks, TRUE)
      BY <1>1 DEF SearchInv, PageOK, PageFits
    <2> QED BY <1>1, <2>1, FirstPassed
  <1>13. PageFits(rows, picks, step = "trust")'
    <2>1. /\ \A i, j \in 1 .. Len(rows') : i < j => Order(rows'[i].chunk, rows'[j].chunk)
          /\ \A i \in 1 .. Len(rows') : \A j \in 1 .. Len(Tail(picks)) :
               Order(rows'[i].chunk, Tail(picks)[j])
          /\ \A i \in 1 .. Len(rows') : Best(words, grams, nearest, rows'[i].chunk)
      BY <1>8, <1>9, <1>12 DEF PageFits
    <2> QED BY <1>1, <1>11, <1>12, <2>1 DEF PageFits
  <1>14. ListsOK'
    BY <1>1, <1>10 DEF SearchInv, ListsOK, Steps
  <1>15. PageOK'
    <2>1. Limit \in Nat /\ n + Len(picks) <= Limit + 1
      BY <1>1, SearchAssumption DEF SearchInv, PageOK
    <2>2. Len(rows') + Len(picks') <= Limit
      BY <1>1, <1>4, <1>8, <1>10, <2>1
    <2>3. \A i \in 1 .. Len(rows') : rows'[i].chunk \in Candidates
      BY <1>8, <1>9 DEF SearchInv, PageOK
    <2> QED BY <1>1, <1>8, <1>10, <1>11, <1>13, <2>2, <2>3 DEF SearchInv, PageOK, PageFits
  <1>16. RowsOK'
    <2>1. True(row)
      <3>1. c.file \in File
        BY <1>1, <1>4 DEF Row, Chunk
      <3>2. True(rows[n])
        BY <1>4 DEF SearchInv, RowsOK
      <3>3. before.disk[c.file] = 0 => disk[c.file] = 0
        BY <3>1 DEF SearchInv, HistoryOK
      <3> QED BY <1>1, <1>5, <1>6, <3>2, <3>3 DEF True
    <2>2. \A r : True(r)' <=> True(r)
      BY <1>1 DEF True
    <2> QED BY <1>8, <2>1, <2>2 DEF SearchInv, RowsOK
  <1> QED BY <1>2, <1>3, <1>14, <1>15, <1>16 DEF SearchInv

-----------------------------------------------------------------------------
(* Theorems                                                                *)

LEMMA Inductive ==
  ASSUME SearchInv, [Next]_vars
  PROVE  SearchInv'
  <1>1. CASE UNCHANGED vars
    BY <1>1 DEF vars, around, search, SearchInv, AroundOK, HistoryOK, ListsOK, CandidatesOK,
                Candidates, Rightful, PageOK, Order, RowsOK, True
  <1> QED BY <1>1, SubmitKeeps, MatchWordsKeeps, MatchGramsKeeps, MatchVectorsKeeps,
             ReadingKeeps, RenderTextKeeps, RenderTrustKeeps, MeanwhileKeeps DEF Next

LEMMA SearchInvHolds == Spec => []SearchInv
  BY InvInit, Inductive, PTL DEF Spec

(* The state has its types, and no page has more rows than Limit.          *)
THEOREM SearchTyped == Spec => []TypeOK
  BY SearchInvHolds, InvTyped, PTL

(* Every row lies in the place and is of a kind that was asked for, for    *)
(* any folders and changes to them (search_scope.rs).                      *)
THEOREM PageIsInScope == Spec => []RowsAreInScope
  BY SearchInvHolds, InvInScope, PTL

(* No row says or shows of a file what was no longer so when the search    *)
(* began (snippet.rs 211-250, 281-293, 394-417).                           *)
THEOREM PageIsTrue == Spec => []RowsAreTrue
  BY SearchInvHolds, InvTrue, PTL

(* Rows come in the order in which the indexes agree, and each file is     *)
(* shown by a chunk none of its own is ahead of, for any rankings (rrf.rs, *)
(* hybrid.rs 297-331).                                                     *)
THEOREM PageIsInOrder == Spec => []BestFirst
  BY SearchInvHolds, InvBestFirst, PTL

-----------------------------------------------------------------------------
(* How many rows a page has                                                *)

Files(C) == {c.file : c \in C}

LEMMA CountTo ==
  ASSUME NEW n \in Nat
  PROVE  IsFiniteSet(1 .. n) /\ Cardinality(1 .. n) = n
  <1>1. IsFiniteSet(1 .. n) /\ Cardinality(1 .. n) = IF 1 > n THEN 0 ELSE n - 1 + 1
    BY FS_Interval
  <1> QED BY <1>1

LEMMA DistinctCount ==
  ASSUME NEW S, NEW list \in Seq(S), Distinct(list)
  PROVE  IsFiniteSet(ToSet(list)) /\ Cardinality(ToSet(list)) = Len(list)
  <1>1. Len(list) \in Nat /\ list \in [1 .. Len(list) -> ToSet(list)]
    BY LenProperties DEF ToSet
  <1>2. list \in Surjection(1 .. Len(list), ToSet(list))
    BY <1>1 DEF Surjection, ToSet
  <1>3. \A i, j \in 1 .. Len(list) : list[i] = list[j] => i = j
    BY <1>1 DEF Distinct
  <1>4. list \in Injection(1 .. Len(list), ToSet(list))
    BY <1>1, <1>3 DEF Injection, IsInjective
  <1>5. IsFiniteSet(1 .. Len(list)) /\ Cardinality(1 .. Len(list)) = Len(list)
    BY <1>1, CountTo
  <1> QED BY <1>2, <1>4, <1>5, FS_Surjection

(* Of what was asked for a list holds all, or enough.                      *)
Whole(held, asked, enough) ==
  held \subseteq asked /\ (asked \subseteq held \/ Cardinality(held) >= enough)

AtPlaces(order, places) == {order[i] : i \in places \cap DOMAIN order}

LEMMA TakenIsWhole ==
  ASSUME NEW order \in Rankings, NEW places, NEW n \in Nat
  PROVE  LET list == Take(Kept(order, places), n) IN
         /\ list \in Seq(Chunk) /\ Distinct(list) /\ Len(list) <= n
         /\ Whole(ToSet(list), AtPlaces(order, places), n)
  <1> DEFINE all == Kept(order, places)
             list == Take(all, n)
  <1>1. /\ order \in Seq(Chunk) /\ DOMAIN order = 1 .. Len(order) /\ Len(order) \in Nat
        /\ \A i, j \in 1 .. Len(order) : order[i] = order[j] => i = j
    <2>1. order \in Seq(Chunk)
      BY SearchAssumption
    <2>2. DOMAIN order = 1 .. Len(order) /\ Len(order) \in Nat
      BY <2>1, LenProperties
    <2>3. \A i, j \in DOMAIN order : order[i] = order[j] => i = j
      BY SearchAssumption
    <2> QED BY <2>1, <2>2, <2>3
  <1>2. all \in Seq(Chunk)
    BY <1>1, KeptIs
  <1>3. PICK at : /\ Picks(all, at, order, Len(order))
                  /\ \A i \in 1 .. Len(all) : at[i] \in places
                  /\ \A p \in 1 .. Len(order) :
                       p \in places => \E i \in 1 .. Len(all) : at[i] = p
    BY <1>1, KeptIs
  <1> HIDE DEF all
  <1>4. /\ list \in Seq(Chunk) /\ Len(list) <= n /\ Len(list) <= Len(all)
        /\ Len(list) \in {n, Len(all)} /\ \A i \in 1 .. Len(list) : list[i] = all[i]
    BY <1>2, TakeIs
  <1> HIDE DEF list
  <1>5. Len(list) \in Nat /\ Len(all) \in Nat
    BY <1>2, <1>4, LenProperties
  <1>6. \A i \in 1 .. Len(list) :
          /\ at[i] \in 1 .. Len(order) /\ at[i] \in places /\ list[i] = order[at[i]]
    <2>1. \A i \in 1 .. Len(list) : i \in 1 .. Len(all)
      BY <1>4, <1>5
    <2> QED BY <1>3, <1>4, <2>1 DEF Picks
  <1>7. Distinct(list)
    <2> SUFFICES ASSUME NEW i \in 1 .. Len(list), NEW j \in 1 .. Len(list), i < j,
                        list[i] = list[j]
                 PROVE  FALSE
      BY DEF Distinct
    <2>1. i \in 1 .. Len(all) /\ j \in 1 .. Len(all)
      BY <1>4, <1>5
    <2>2. at[i] < at[j]
      BY <1>3, <2>1 DEF Picks
    <2>3. at[i] = at[j] /\ at[i] \in Nat
      BY <1>1, <1>6
    <2> QED BY <2>2, <2>3
  <1>8. ToSet(list) \subseteq AtPlaces(order, places)
    <2> SUFFICES ASSUME NEW c \in ToSet(list) PROVE c \in AtPlaces(order, places)
      OBVIOUS
    <2>1. PICK i \in 1 .. Len(list) : list[i] = c
      BY <1>4, MembersOfList
    <2> QED BY <1>1, <1>6, <2>1 DEF AtPlaces
  <1>9. ASSUME Len(list) = Len(all) PROVE AtPlaces(order, places) \subseteq ToSet(list)
    <2> SUFFICES ASSUME NEW c \in AtPlaces(order, places) PROVE c \in ToSet(list)
      OBVIOUS
    <2>1. PICK p \in 1 .. Len(order) : p \in places /\ order[p] = c
      BY <1>1 DEF AtPlaces
    <2>2. PICK i \in 1 .. Len(list) : at[i] = p
      BY <1>3, <1>9, <2>1
    <2>3. list[i] = c
      BY <1>6, <2>1, <2>2
    <2> QED BY <1>4, <2>3, MembersOfList
  <1>10. Cardinality(ToSet(list)) = Len(list)
    BY <1>4, <1>7, DistinctCount
  <1>11. Whole(ToSet(list), AtPlaces(order, places), n)
    BY <1>4, <1>5, <1>8, <1>9, <1>10 DEF Whole
  <1> QED BY <1>4, <1>7, <1>11 DEF list, all

(* A fusion with room for enough holds all of what both lists were asked   *)
(* for, or enough of it.                                                   *)
LEMMA FusedIsWhole ==
  ASSUME NEW one \in Seq(Chunk), NEW other \in Seq(Chunk), Len(one) <= Pool, Len(other) <= Pool,
         NEW n \in Nat, NEW enough \in Nat, enough <= n,
         NEW A, NEW B, Whole(ToSet(one), A, enough), Whole(ToSet(other), B, enough)
  PROVE  Whole(ToSet(Fused(one, other, n)), A \union B, enough)
  <1> DEFINE list == Fused(one, other, n)
  <1>1. /\ list \in Seq(Chunk) /\ Distinct(list)
        /\ ToSet(list) \subseteq ToSet(one) \union ToSet(other)
        /\ Len(list) = n \/ ToSet(one) \union ToSet(other) \subseteq ToSet(list)
    BY FusedIs
  <1> HIDE DEF list
  <1>2. IsFiniteSet(ToSet(list)) /\ Cardinality(ToSet(list)) = Len(list)
    BY <1>1, DistinctCount
  <1>3. ToSet(list) \subseteq A \union B
    BY <1>1 DEF Whole
  <1>4. CASE Len(list) = n
    BY <1>2, <1>3, <1>4 DEF Whole, list
  <1>5. CASE ToSet(one) \union ToSet(other) \subseteq ToSet(list)
    <2>1. \A s : s \subseteq ToSet(list) => Cardinality(s) \in Nat /\ Cardinality(s) <= Len(list)
      BY <1>2, FS_Subset, FS_CardinalityType
    <2>2. /\ Cardinality(ToSet(one)) \in Nat /\ Cardinality(ToSet(one)) <= Len(list)
          /\ Cardinality(ToSet(other)) \in Nat /\ Cardinality(ToSet(other)) <= Len(list)
      BY <1>5, <2>1
    <2>3. Len(list) \in Nat
      BY <1>1, LenProperties
    <2>4. CASE A \subseteq ToSet(one) /\ B \subseteq ToSet(other)
      BY <1>3, <1>5, <2>4 DEF Whole, list
    <2>5. CASE Cardinality(ToSet(one)) >= enough \/ Cardinality(ToSet(other)) >= enough
      <3>1. Len(list) >= enough
        BY <2>2, <2>3, <2>5
      <3> QED BY <1>2, <1>3, <3>1 DEF Whole, list
    <2> QED BY <2>4, <2>5 DEF Whole
  <1> QED BY <1>1, <1>4, <1>5

(* Of each file in a list the page has one chunk, up to its rows.          *)
LEMMA PickedCount ==
  ASSUME NEW list \in Seq(Chunk)
  PROVE  /\ Picked(list) \in Seq(Chunk) /\ ToSet(Picked(list)) \subseteq ToSet(list)
         /\ IsFiniteSet(Files(ToSet(list)))
         /\ Len(Picked(list)) = Min({Limit, Cardinality(Files(ToSet(list)))})
  <1> DEFINE places == {i \in DOMAIN list : FirstOfFile(list, i)}
             all == Kept(list, places)
             page == Take(all, Limit)
             files == Files(ToSet(list))
  <1>1. /\ DOMAIN list = 1 .. Len(list) /\ Len(list) \in Nat /\ Limit \in Nat
        /\ \A c : c \in ToSet(list) <=> \E i \in 1 .. Len(list) : list[i] = c
    BY MembersOfList, NumbersAre
  <1>2. all \in Seq(Chunk) /\ Len(all) \in Nat
    BY KeptIs, LenProperties
  <1>3. PICK at : /\ Picks(all, at, list, Len(list))
                  /\ \A i \in 1 .. Len(all) : at[i] \in places
                  /\ \A p \in 1 .. Len(list) :
                       p \in places => \E i \in 1 .. Len(all) : at[i] = p
    BY KeptIs
  <1>4. Picked(list) = page
    BY DEF Picked
  <1> HIDE DEF all
  <1>5. \A i \in 1 .. Len(all) : /\ at[i] \in 1 .. Len(list) /\ all[i] = list[at[i]]
                                 /\ FirstOfFile(list, at[i])
    BY <1>1, <1>3 DEF Picks
  <1> HIDE DEF places, files
  <1>6. \A f : f \in files <=> \E i \in 1 .. Len(list) : list[i].file = f
    BY <1>1 DEF Files, files
  <1> DEFINE its == [i \in 1 .. Len(all) |-> all[i].file]
  <1>7. its \in [1 .. Len(all) -> files]
    BY <1>5, <1>6
  <1>8. ASSUME NEW f \in files PROVE \E i \in 1 .. Len(all) : its[i] = f
    <2> DEFINE T == {k \in 1 .. Len(list) : list[k].file = f}
    <2>1. T \subseteq Nat /\ T # {}
      BY <1>6
    <2>2. PICK k \in T : \A j \in T : k <= j
      BY <2>1, LeastOfThem
    <2>3. k \in 1 .. Len(list) /\ list[k].file = f
      BY <2>2
    <2>4. \A j \in 1 .. k - 1 : j \in 1 .. Len(list) /\ j \notin T
      BY <1>1, <2>2, <2>3
    <2>5. FirstOfFile(list, k)
      BY <2>3, <2>4 DEF FirstOfFile
    <2>6. k \in places
      BY <1>1, <2>3, <2>5 DEF places
    <2>7. PICK i \in 1 .. Len(all) : at[i] = k
      BY <1>3, <2>3, <2>6
    <2>8. all[i].file = f
      BY <1>5, <2>3, <2>7
    <2> QED BY <2>8
  <1>9. ASSUME NEW i \in 1 .. Len(all), NEW j \in 1 .. Len(all), i < j
        PROVE  all[i].file # all[j].file
    <2>1. at[i] < at[j] /\ at[i] \in 1 .. Len(list) /\ at[j] \in 1 .. Len(list)
      BY <1>3, <1>5, <1>9 DEF Picks
    <2>2. at[i] \in 1 .. at[j] - 1
      BY <1>1, <2>1
    <2>3. list[at[i]].file # list[at[j]].file
      BY <1>5, <2>2 DEF FirstOfFile
    <2> QED BY <1>5, <2>3
  <1>10. \A i, j \in 1 .. Len(all) : its[i] = its[j] => i = j
    BY <1>2, <1>9
  <1> HIDE DEF its
  <1>11. its \in Surjection(1 .. Len(all), files) /\ its \in Injection(1 .. Len(all), files)
    BY <1>7, <1>8, <1>10 DEF Surjection, Injection, IsInjective
  <1>12. IsFiniteSet(1 .. Len(all)) /\ Cardinality(1 .. Len(all)) = Len(all)
    <2>1. Len(all) \in Nat
      BY <1>2
    <2> QED BY <2>1, CountTo
  <1>13. IsFiniteSet(files) /\ Cardinality(files) = Len(all)
    BY <1>11, <1>12, FS_Surjection
  <1>14. /\ page \in Seq(Chunk) /\ Len(page) <= Limit /\ Len(page) <= Len(all)
         /\ Len(page) \in {Limit, Len(all)} /\ \A i \in 1 .. Len(page) : page[i] = all[i]
    BY <1>1, <1>2, TakeIs
  <1> HIDE DEF page
  <1>15. Len(page) = Min({Limit, Len(all)})
    <2>1. /\ Min({Limit, Len(all)}) \in {Limit, Len(all)}
          /\ Min({Limit, Len(all)}) <= Limit /\ Min({Limit, Len(all)}) <= Len(all)
      BY <1>1, <1>2, MinIsLeast
    <2>2. Len(page) \in Nat
      BY <1>14, LenProperties
    <2> QED BY <1>1, <1>2, <1>14, <2>1, <2>2
  <1>16. ToSet(page) \subseteq ToSet(list)
    <2> SUFFICES ASSUME NEW c \in ToSet(page) PROVE c \in ToSet(list)
      OBVIOUS
    <2>1. PICK i \in 1 .. Len(page) : page[i] = c
      BY <1>14, MembersOfList
    <2>2. i \in 1 .. Len(all)
      BY <1>2, <1>14, <2>1, LenProperties
    <2> QED BY <1>1, <1>5, <1>14, <2>1, <2>2
  <1> QED BY <1>4, <1>13, <1>14, <1>15, <1>16 DEF files

(* Active chunks are of one version of their file, so a file has no more   *)
(* than Parts of them.                                                     *)
LEMMA FilesOfMany ==
  ASSUME NEW held, IsFiniteSet(held), held \subseteq Chunk, \A c \in held : Active(c),
         Cardinality(held) >= Limit * Parts
  PROVE  IsFiniteSet(Files(held)) /\ Cardinality(Files(held)) >= Limit
  <1> DEFINE files == Files(held)
             ofFile == [c \in held |-> c.file]
             place == [c \in held |-> <<c.file, c.part>>]
             n == Cardinality(files)
  <1>1. ofFile \in Surjection(held, files)
    BY DEF Surjection, Files
  <1>2. IsFiniteSet(files) /\ n \in Nat
    BY <1>1, FS_Surjection, FS_CardinalityType
  <1>3. Parts \in Nat \ {0} /\ Limit \in Nat \ {0}
    BY NumbersAre
  <1>4. IsFiniteSet(1 .. Parts) /\ Cardinality(1 .. Parts) = Parts
    BY <1>3, CountTo
  <1>5. IsFiniteSet(files \X (1 .. Parts)) /\ Cardinality(files \X (1 .. Parts)) = n * Parts
    BY <1>2, <1>4, FS_Product
  <1>6. place \in [held -> files \X (1 .. Parts)]
    BY DEF Files, Chunk
  <1>7. ASSUME NEW c \in held, NEW d \in held, place[c] = place[d]
        PROVE  c = d
    <2>1. c.file = d.file /\ c.part = d.part
      BY <1>7
    <2>2. c.version = d.version
      BY <2>1 DEF Active
    <2> QED BY <2>1, <2>2 DEF Chunk
  <1>8. place \in Injection(held, files \X (1 .. Parts))
    <2> HIDE DEF place
    <2> QED BY <1>6, <1>7 DEF Injection, IsInjective
  <1>9. Cardinality(held) <= n * Parts /\ Cardinality(held) \in Nat
    BY <1>5, <1>8, FS_Injection, FS_CardinalityType
  <1> HIDE DEF n, files
  <1>10. n * Parts >= Limit * Parts
    BY <1>2, <1>3, <1>9
  <1>11. n >= Limit
    <2>1. ASSUME n + 1 <= Limit PROVE FALSE
      <3>1. (n + 1) * Parts <= Limit * Parts
        BY <1>2, <1>3, <2>1
      <3>2. (n + 1) * Parts = n * Parts + Parts
        BY <1>2, <1>3
      <3> QED BY <1>2, <1>3, <1>10, <3>1, <3>2
    <2> QED BY <1>2, <1>3, <2>1
  <1> QED BY <1>2, <1>11 DEF n, files

LEMMA PageOfWhole ==
  ASSUME NEW held, NEW asked, IsFiniteSet(asked), asked \subseteq Chunk, \A c \in asked : Active(c),
         Whole(held, asked, Limit * Parts)
  PROVE  Min({Limit, Cardinality(Files(held))}) = Min({Limit, Cardinality(Files(asked))})
  <1>1. CASE asked \subseteq held
    <2>1. held = asked
      BY <1>1 DEF Whole
    <2> QED BY <2>1
  <1>2. CASE Cardinality(held) >= Limit * Parts
    <2>1. held \subseteq asked /\ IsFiniteSet(held)
      BY FS_Subset DEF Whole
    <2>2. IsFiniteSet(Files(held)) /\ Cardinality(Files(held)) >= Limit
      BY <1>2, <2>1, FilesOfMany
    <2>3. IsFiniteSet(Files(asked))
      <3>1. [c \in asked |-> c.file] \in Surjection(asked, Files(asked))
        BY DEF Surjection, Files
      <3> QED BY <3>1, FS_Surjection
    <2>4. Files(held) \subseteq Files(asked)
      BY <2>1 DEF Files
    <2>5. /\ Cardinality(Files(held)) \in Nat /\ Cardinality(Files(asked)) \in Nat
          /\ Cardinality(Files(held)) <= Cardinality(Files(asked))
      BY <2>2, <2>3, <2>4, FS_Subset, FS_CardinalityType
    <2>6. \A k \in Nat : k >= Limit => Min({Limit, k}) = Limit
      <3> SUFFICES ASSUME NEW k \in Nat, k >= Limit PROVE Min({Limit, k}) = Limit
        OBVIOUS
      <3>1. Limit \in Nat
        BY NumbersAre
      <3>2. Min({Limit, k}) \in {Limit, k} /\ Min({Limit, k}) <= Limit
        BY <3>1, MinIsLeast
      <3> QED BY <3>1, <3>2
    <2>7. Cardinality(Files(asked)) >= Limit
      BY <2>2, <2>5, NumbersAre
    <2> QED BY <2>2, <2>5, <2>6, <2>7
  <1> QED BY <1>1, <1>2 DEF Whole

-----------------------------------------------------------------------------
(* What a search finds when nothing changes under it                       *)

(* There is room for all the chunks of as many files as a page has rows.   *)
Ample == Parts <= Headroom /\ Limit * Parts <= Pool /\ Limit * Parts <= Width

Enough == Limit * Parts

LEMMA EnoughIs == Enough \in Nat \ {0}
  BY NumbersAre DEF Enough

LEMMA AmpleLimits ==
  ASSUME Ample, NEW r \in Requests
  PROVE  /\ Limits(r).keyword = 0 \/ Limits(r).keyword >= Enough
         /\ Limits(r).vector = 0 \/ Limits(r).vector >= Enough
         /\ Limits(r).width >= Enough
         /\ ~r.model => Limits(r).vector = 0
  <1> DEFINE full == ForMode(r.mode)
             cap == Limit * Headroom
  <1>1. /\ full.keyword \in {0, Pool} /\ full.vector \in {0, Pool} /\ full.width = Width
    BY SearchAssumption DEF ForMode
  <1>2. cap \in Nat /\ cap >= Enough /\ Pool >= Enough /\ Width >= Enough
    <2>1. \A a, b, c \in Nat : a <= b => c * a <= c * b
      OBVIOUS
    <2> QED BY <2>1, NumbersAre DEF Ample, Enough
  <1>3. Limits(r) = IF r.model THEN full
                    ELSE [keyword |-> Min({full.keyword, cap}), vector |-> 0,
                          width |-> Min({full.width, cap})]
    BY DEF Limits
  <1> HIDE DEF full, cap
  <1>4. \A k \in Nat : Min({k, cap}) \in {k, cap} /\ Min({k, cap}) <= k
    BY <1>2, MinIsLeast
  <1>5. Min({0, cap}) = 0
    BY <1>2, <1>4
  <1>6. Min({Pool, cap}) >= Enough /\ Min({Width, cap}) >= Enough
    BY <1>2, <1>4, NumbersAre
  <1> QED BY <1>1, <1>2, <1>3, <1>5, <1>6

Asked(order) == {c \in ToSet(order) : Active(c) /\ InScope(request.scope, c.file)}

LEMMA NothingHeld ==
  ASSUME NEW list \in Seq(Chunk), Len(list) <= 0
  PROVE  ToSet(list) = {}
  BY MembersOfList

LEMMA MatchingIsWhole ==
  ASSUME SearchInv, NEW order \in Rankings, NEW n \in 0 .. Pool, n = 0 \/ n >= Enough
  PROVE  /\ Matching(order, n) \in Seq(Chunk) /\ Len(Matching(order, n)) <= n
         /\ Whole(ToSet(Matching(order, n)), IF n > 0 THEN Asked(order) ELSE {}, Enough)
  <1> DEFINE list == Matching(order, n)
             places == {i \in DOMAIN order :
                          Active(order[i]) /\ InScope(request.scope, order[i].file)}
  <1>1. list = Take(Kept(order, places), n)
    BY DEF Matching
  <1>2. n \in Nat
    BY NumbersAre
  <1>3. AtPlaces(order, places) = Asked(order)
    BY DEF AtPlaces, Asked, ToSet
  <1> HIDE DEF list, places
  <1>4. /\ list \in Seq(Chunk) /\ Len(list) <= n /\ Whole(ToSet(list), Asked(order), n)
    BY <1>1, <1>2, <1>3, TakenIsWhole
  <1>5. CASE n = 0
    <2>1. ToSet(list) = {}
      BY <1>4, <1>5, NothingHeld
    <2> QED BY <1>4, <1>5, <2>1 DEF Whole, list
  <1>6. CASE n >= Enough /\ n > 0
    <2>1. Cardinality(ToSet(list)) >= n => Cardinality(ToSet(list)) >= Enough
      <3>1. IsFiniteSet(ToSet(list))
        BY <1>4, ListIsFinite
      <3>2. Cardinality(ToSet(list)) \in Nat
        BY <3>1, FS_CardinalityType
      <3> QED BY <1>2, <1>6, <3>2, EnoughIs
    <2> QED BY <1>4, <1>6, <2>1 DEF Whole, list
  <1> QED BY <1>2, <1>5, <1>6

LEMMA NearestIsWhole ==
  ASSUME SearchInv, NEW order \in Rankings, NEW n \in 0 .. Pool, n = 0 \/ n >= Enough
  PROVE  /\ Nearest(order, n) \in Seq(Chunk) /\ Len(Nearest(order, n)) <= n
         /\ Whole(ToSet(Nearest(order, n)),
                  IF n > 0 THEN {c \in Asked(order) : c.file \in embedded} ELSE {}, Enough)
  <1> DEFINE list == Nearest(order, n)
             places == {i \in DOMAIN order : Scanned(order[i])}
             asked == {c \in Asked(order) : c.file \in embedded}
  <1>1. list = Take(Kept(order, places), n)
    BY DEF Nearest
  <1>2. n \in Nat
    BY NumbersAre
  <1>3. AtPlaces(order, places) = asked
    BY DEF AtPlaces, Asked, Scanned, ToSet
  <1> HIDE DEF list, places, asked
  <1>4. /\ list \in Seq(Chunk) /\ Len(list) <= n /\ Whole(ToSet(list), asked, n)
    BY <1>1, <1>2, <1>3, TakenIsWhole
  <1>5. CASE n = 0
    <2>1. ToSet(list) = {}
      BY <1>4, <1>5, NothingHeld
    <2> QED BY <1>4, <1>5, <2>1 DEF Whole, list
  <1>6. CASE n >= Enough /\ n > 0
    <2>1. Cardinality(ToSet(list)) >= n => Cardinality(ToSet(list)) >= Enough
      <3>1. IsFiniteSet(ToSet(list))
        BY <1>4, ListIsFinite
      <3>2. Cardinality(ToSet(list)) \in Nat
        BY <3>1, FS_CardinalityType
      <3> QED BY <1>2, <1>6, <3>2, EnoughIs
    <2> QED BY <1>4, <1>6, <2>1 DEF Whole, list, asked
  <1> QED BY <1>2, <1>5, <1>6

(* All three lists are whole, and so is their fusion in two rounds.        *)
LEMMA FullPicked ==
  ASSUME SearchInv, Ample,
         words = Matching(index.word, Limits(request).keyword),
         request.cjk => grams = Matching(index.gram, Limits(request).keyword),
         NEW v, v = IF request.model THEN Nearest(index.vector, Limits(request).vector) ELSE <<>>
  PROVE  LET page == Picked(Fused(Keywords, v, Limits(request).width)) IN
         /\ page \in Seq(Chunk) /\ Len(page) = Min({Limit, Cardinality(Found)})
         /\ \A c \in ToSet(page) : Active(c)
  <1> DEFINE kw == Limits(request).keyword
             vec == Limits(request).vector
             width == Limits(request).width
             aw == IF kw > 0 THEN Asked(index.word) ELSE {}
             ag == IF kw > 0 /\ request.cjk THEN Asked(index.gram) ELSE {}
             av == IF vec > 0 THEN {c \in Asked(index.vector) : c.file \in embedded} ELSE {}
             list == Fused(Keywords, v, width)
  <1>1. /\ request \in Requests /\ index.word \in Rankings /\ index.gram \in Rankings
        /\ index.vector \in Rankings /\ Pool \in Nat
    BY NumbersAre DEF SearchInv, ListsOK
  <1>2. /\ kw \in 0 .. Pool /\ (kw = 0 \/ kw >= Enough) /\ vec \in 0 .. Pool
        /\ vec = 0 \/ vec >= Enough
        /\ width \in Nat /\ width >= Enough /\ (~request.model => vec = 0)
    BY <1>1, LimitsAre, AmpleLimits
  <1>3. Found = Files(aw \union ag \union av)
    <2> DEFINE asked == (IF kw > 0 THEN ToSet(index.word) ELSE {})
                        \union (IF kw > 0 /\ request.cjk THEN ToSet(index.gram) ELSE {})
                        \union {c \in ToSet(index.vector) : vec > 0 /\ c.file \in embedded}
               right == {d \in asked : Active(d) /\ InScope(request.scope, d.file)}
    <2>1. Found = {c.file : c \in right}
      BY DEF Found
    <2>2. right = aw \union ag \union av
      BY DEF Asked
    <2> HIDE DEF right, aw, ag, av
    <2> QED BY <2>1, <2>2 DEF Files
  <1>4. /\ words \in Seq(Chunk) /\ Len(words) <= Pool /\ Len(words) \in Nat
        /\ Whole(ToSet(words), aw, Enough)
    <2>1. words \in Seq(Chunk) /\ Len(words) <= Pool
      BY DEF SearchInv, ListsOK
    <2> HIDE DEF kw
    <2>2. words = Matching(index.word, kw)
      BY DEF kw
    <2> QED BY <1>1, <1>2, <2>1, <2>2, MatchingIsWhole, LenProperties
  <1>5. /\ grams \in Seq(Chunk) /\ Len(grams) <= Pool /\ Len(grams) \in Nat
        /\ request.cjk => Whole(ToSet(grams), ag, Enough)
    <2>1. grams \in Seq(Chunk) /\ Len(grams) <= Pool
      BY DEF SearchInv, ListsOK
    <2> HIDE DEF kw
    <2>2. request.cjk => grams = Matching(index.gram, kw)
      BY DEF kw
    <2> QED BY <1>1, <1>2, <2>1, <2>2, MatchingIsWhole, LenProperties
  <1>6. v \in Seq(Chunk) /\ Len(v) <= Pool /\ Whole(ToSet(v), av, Enough)
    <2>1. CASE request.model
      <3>1. v = Nearest(index.vector, vec)
        BY <2>1
      <3> HIDE DEF vec
      <3>2. /\ v \in Seq(Chunk) /\ Len(v) <= vec /\ Len(v) \in Nat
            /\ Whole(ToSet(v), av, Enough)
        BY <1>1, <1>2, <3>1, NearestIsWhole, LenProperties
      <3> QED BY <1>1, <1>2, <3>2
    <2>2. CASE ~request.model
      <3>1. v = <<>> /\ v \in Seq(Chunk) /\ Len(v) = 0 /\ ToSet(v) = {} /\ av = {}
        BY <1>2, <2>2, EmptySeq DEF ToSet
      <3> QED BY <1>1, <3>1 DEF Whole
    <2> QED BY <2>1, <2>2
  <1> HIDE DEF kw, vec, width, aw, ag, av
  <1>7. /\ Keywords \in Seq(Chunk) /\ Len(Keywords) <= Pool
        /\ Whole(ToSet(Keywords), aw \union ag, Enough)
    <2>1. CASE ~request.cjk
      <3>1. ag = {} /\ Keywords = words
        BY <2>1 DEF ag, Keywords
      <3> QED BY <1>4, <3>1
    <2>2. CASE request.cjk
      <3>1. Keywords = Fused(words, grams, kw)
        BY <2>2 DEF Keywords, kw
      <3>2. /\ Keywords \in Seq(Chunk) /\ Len(Keywords) <= kw /\ Len(Keywords) \in Nat
            /\ ToSet(Keywords) \subseteq ToSet(words) \union ToSet(grams)
        <4>1. kw \in Nat
          BY <1>1, <1>2
        <4>2. LET l == Fused(words, grams, kw) IN
              /\ l \in Seq(Chunk) /\ Len(l) <= kw
              /\ ToSet(l) \subseteq ToSet(words) \union ToSet(grams)
          BY <1>4, <1>5, <4>1, FusedIs
        <4> QED BY <3>1, <4>2, LenProperties
      <3>3. CASE kw = 0
        <4>1. aw = {} /\ ag = {} /\ ToSet(Keywords) = {}
          BY <3>2, <3>3, NothingHeld DEF aw, ag
        <4> QED BY <1>1, <3>2, <3>3, <4>1 DEF Whole
      <3>4. CASE kw >= Enough
        <4>1. Whole(ToSet(Keywords), aw \union ag, Enough)
          <5>1. kw \in Nat /\ Enough \in Nat /\ Enough <= kw
            BY <1>1, <1>2, <3>4, EnoughIs
          <5>2. Whole(ToSet(words), aw, Enough) /\ Whole(ToSet(grams), ag, Enough)
            BY <1>4, <1>5, <2>2
          <5>3. Whole(ToSet(Fused(words, grams, kw)), aw \union ag, Enough)
            BY <1>4, <1>5, <5>1, <5>2, FusedIsWhole
          <5> QED BY <3>1, <5>3
        <4> QED BY <1>1, <1>2, <3>2, <4>1
      <3> QED BY <1>2, <3>3, <3>4
    <2> QED BY <2>1, <2>2
  <1>8. list \in Seq(Chunk) /\ Whole(ToSet(list), aw \union ag \union av, Enough)
    BY <1>2, <1>6, <1>7, FusedIs, FusedIsWhole, EnoughIs
  <1>9. /\ IsFiniteSet(aw \union ag \union av) /\ aw \union ag \union av \subseteq Chunk
        /\ \A c \in aw \union ag \union av : Active(c)
    <2>1. \A order \in Rankings : /\ IsFiniteSet(Asked(order)) /\ Asked(order) \subseteq Chunk
                                  /\ \A c \in Asked(order) : Active(c)
      <3> SUFFICES ASSUME NEW order \in Rankings
                   PROVE  /\ IsFiniteSet(Asked(order)) /\ Asked(order) \subseteq Chunk
                          /\ \A c \in Asked(order) : Active(c)
        OBVIOUS
      <3>1. order \in Seq(Chunk)
        BY SearchAssumption
      <3>2. IsFiniteSet(ToSet(order)) /\ ToSet(order) \subseteq Chunk
        BY <3>1, ListIsFinite, MembersOfList
      <3> QED BY <3>2, FS_Subset DEF Asked
    <2>2. /\ aw \subseteq Asked(index.word) /\ ag \subseteq Asked(index.gram)
          /\ av \subseteq Asked(index.vector)
      BY DEF aw, ag, av
    <2>3. IsFiniteSet(aw) /\ IsFiniteSet(ag) /\ IsFiniteSet(av)
      BY <1>1, <2>1, <2>2, FS_Subset
    <2>4. IsFiniteSet(aw \union ag \union av)
      BY <2>3, FS_Union
    <2> QED BY <1>1, <2>1, <2>2, <2>4
  <1>10. /\ Picked(list) \in Seq(Chunk) /\ ToSet(Picked(list)) \subseteq ToSet(list)
         /\ Len(Picked(list)) = Min({Limit, Cardinality(Files(ToSet(list)))})
    BY <1>8, PickedCount
  <1>11. Min({Limit, Cardinality(Files(ToSet(list)))}) = Min({Limit, Cardinality(Found)})
    BY <1>3, <1>8, <1>9, PageOfWhole DEF Enough
  <1>12. \A c \in ToSet(Picked(list)) : Active(c)
    BY <1>8, <1>9, <1>10 DEF Whole
  <1> QED BY <1>10, <1>11, <1>12 DEF list, width

BeforeOK ==
  before \in [disk : [File -> 0 .. MaxVersion], owner : [File -> Folder \union {None}],
              quiet : BOOLEAN]

(* The chunks still to be rendered, besides that of the row in hand.       *)
Left == IF step = "trust" THEN Len(picks) - 1 ELSE Len(picks)

(* As long as nothing changes the lists are what the indexes match now, no *)
(* picked chunk is lost, and the rows made and the chunks left are as many *)
(* as the page has to have.                                                *)
FullOK ==
  before.quiet =>
    /\ step \in {"grams", "vectors"} => words = Matching(index.word, Limits(request).keyword)
    /\ step = "vectors" /\ request.cjk =>
         grams = Matching(index.gram, Limits(request).keyword)
    /\ step = "lookup" => \A c \in ToSet(picks) : Active(c)
    /\ step \in {"boundary", "text", "trust"} => ToSet(picks) \subseteq DOMAIN found
    /\ step \in {"lookup", "boundary", "text", "trust", "done"} =>
         Len(rows) + Left = Min({Limit, Cardinality(Found)})
    /\ step = "done" => picks = <<>>

LEMMA BeforeStays ==
  ASSUME SearchInv, BeforeOK, [Next]_vars
  PROVE  BeforeOK' /\ (Meanwhile => ~before'.quiet)
  <1>1. CASE Meanwhile
    <2>1. before' = [before EXCEPT !.quiet = FALSE]
      BY <1>1 DEF Meanwhile, EditFile, DeleteFile, ScanFile, ExtractFile, ChunkFile, EmbedFile,
                  RemoveFolder, TakeIn, Changed
    <2> QED BY <2>1 DEF BeforeOK
  <1>2. CASE Submit
    <2>1. before' = [disk |-> disk, owner |-> owner, quiet |-> TRUE]
      BY <1>2 DEF Submit
    <2>2. ~Meanwhile
      <3>1. CASE Meanwhile
        <4>1. before' = [before EXCEPT !.quiet = FALSE]
          BY <3>1 DEF Meanwhile, EditFile, DeleteFile, ScanFile, ExtractFile, ChunkFile,
                      EmbedFile, RemoveFolder, TakeIn, Changed
        <4>2. before'.quiet = FALSE
          BY <4>1 DEF BeforeOK
        <4> QED BY <2>1, <4>2
      <3> QED BY <3>1
    <2> QED BY <2>1, <2>2 DEF BeforeOK, SearchInv, AroundOK
  <1>3. CASE ~Meanwhile /\ ~Submit
    <2>1. before' = before
      BY <1>3 DEF Next, vars, MatchWords, MatchGrams, MatchVectors, LookUp, ReadBoundary,
                  RenderText, RenderTrust, Finish, Fail
    <2> QED BY <1>3, <2>1 DEF BeforeOK
  <1> QED BY <1>1, <1>2, <1>3

LEMMA SameFound ==
  ASSUME UNCHANGED <<around, request, index>>
  PROVE  /\ Found' = Found /\ \A c : Active(c)' <=> Active(c)
         /\ \A order, n : Matching(order, n)' = Matching(order, n)
  <1>1. /\ owner' = owner /\ cut' = cut /\ embedded' = embedded
        /\ request' = request /\ index' = index
    BY DEF around
  <1>2. Found' = Found
    BY <1>1 DEF Found, Active, InScope
  <1>3. \A c : Active(c)' <=> Active(c)
    BY <1>1 DEF Active
  <1>4. \A order, n : Matching(order, n)' = Matching(order, n)
    BY <1>1 DEF Matching, Active, InScope
  <1> QED BY <1>2, <1>3, <1>4

LEMMA FullAsked ==
  ASSUME SearchInv, FullOK, Ample, Submit \/ MatchWords \/ MatchGrams
  PROVE  FullOK'
  <1> DEFINE kw == Limits(request).keyword
  <1>1. UNCHANGED <<around, request, index>>
    BY DEF Submit, MatchWords, MatchGrams
  <1>2. \A order : Matching(order, kw)' = Matching(order, kw)
    BY <1>1, SameFound
  <1>3. CASE Submit
    <2>1. words' = <<>> /\ grams' = <<>> /\ step' \in {"words", "vectors"}
          /\ (step' = "vectors" => ~(kw > 0))
      BY <1>3 DEF Submit, SearchInv, ListsOK
    <2>2. ASSUME ~(kw > 0), NEW order \in Rankings PROVE Matching(order, kw) = <<>>
      <3>1. kw = 0 /\ 0 \in 0 .. Pool
        BY <2>2, LimitsAre, NumbersAre DEF SearchInv, ListsOK
      <3>2. Matching(order, 0) \in Seq(Chunk) /\ Len(Matching(order, 0)) <= 0
        BY <3>1, MatchingIsWhole
      <3>3. Len(Matching(order, 0)) = 0
        BY <3>2, LenProperties
      <3> QED BY <3>1, <3>2, <3>3, EmptySeq
    <2>3. index.word \in Rankings /\ index.gram \in Rankings
      BY DEF SearchInv, ListsOK
    <2>4. step' = "vectors" => /\ Matching(index.word, kw) = <<>>
                               /\ Matching(index.gram, kw) = <<>>
      BY <2>1, <2>2, <2>3
    <2> QED BY <1>1, <1>2, <2>1, <2>4 DEF FullOK
  <1>4. CASE MatchWords
    <2>1. /\ words' = Matching(index.word, kw) /\ step' \in {"grams", "vectors"}
          /\ step' = "vectors" => ~request.cjk
      BY <1>4 DEF MatchWords
    <2> QED BY <1>1, <1>2, <2>1 DEF FullOK
  <1>5. CASE MatchGrams
    <2>1. /\ grams' = Matching(index.gram, kw) /\ step' = "vectors" /\ step = "grams"
          /\ words' = words /\ before' = before
      BY <1>5 DEF MatchGrams
    <2> QED BY <1>1, <1>2, <2>1 DEF FullOK
  <1> QED BY <1>3, <1>4, <1>5

LEMMA FullRead ==
  ASSUME SearchInv, FullOK, Ample, MatchVectors \/ LookUp \/ ReadBoundary \/ Finish \/ Fail
  PROVE  FullOK'
  <1>1. UNCHANGED <<around, request, index, before>>
    BY DEF MatchVectors, LookUp, ReadBoundary, Finish, Fail
  <1>2. Found' = Found /\ \A c : Active(c)' <=> Active(c)
    BY <1>1, SameFound
  <1> SUFFICES ASSUME before.quiet PROVE FullOK'
    BY <1>1 DEF FullOK
  <1>3. CASE MatchVectors
    <2> DEFINE v == IF request.model THEN Nearest(index.vector, Limits(request).vector) ELSE <<>>
    <2>1. /\ step = "vectors" /\ step' = "lookup" /\ rows' = <<>> /\ Len(<<>>) = 0
          /\ picks' = Picked(Fused(Keywords, v, Limits(request).width))
      BY <1>3, EmptySeq DEF MatchVectors, SearchInv, ListsOK
    <2>2. /\ words = Matching(index.word, Limits(request).keyword)
          /\ request.cjk => grams = Matching(index.gram, Limits(request).keyword)
      BY <2>1 DEF FullOK
    <2>3. /\ Len(picks') = Min({Limit, Cardinality(Found)}) /\ Len(picks') \in Nat
          /\ \A c \in ToSet(picks') : Active(c)
      BY <2>1, <2>2, FullPicked, LenProperties
    <2> HIDE DEF v
    <2> QED BY <1>2, <2>1, <2>3 DEF FullOK, Left
  <1>4. CASE LookUp
    <2>1. /\ step = "lookup" /\ step' = "boundary" /\ picks' = picks /\ rows' = rows
          /\ DOMAIN found' = {d \in ToSet(picks) : Active(d)}
      BY <1>4 DEF LookUp
    <2> QED BY <1>2, <2>1 DEF FullOK, Left
  <1>5. CASE ReadBoundary
    <2>1. /\ step = "boundary" /\ step' = "text" /\ picks' = picks /\ rows' = rows
          /\ found' = found
      BY <1>5 DEF ReadBoundary
    <2> QED BY <1>2, <2>1 DEF FullOK, Left
  <1>6. CASE Finish
    <2>1. /\ step = "text" /\ step' = "done" /\ picks' = picks /\ rows' = rows
          /\ picks = <<>>
      BY <1>6 DEF Finish
    <2> QED BY <1>2, <2>1 DEF FullOK, Left
  <1>7. CASE Fail
    BY <1>7 DEF Fail, FullOK
  <1> QED BY <1>3, <1>4, <1>5, <1>6, <1>7

LEMMA FullRendered ==
  ASSUME SearchInv, SearchInv', FullOK, RenderText \/ RenderTrust
  PROVE  FullOK'
  <1>1. UNCHANGED <<around, request, index, before, found>>
    BY DEF RenderText, RenderTrust
  <1>2. Found' = Found
    BY <1>1, SameFound
  <1> SUFFICES ASSUME before.quiet PROVE FullOK'
    BY <1>1 DEF FullOK
  <1>3. /\ picks \in Seq(Chunk) /\ picks # <<>> /\ rows \in Seq(Row) /\ rows' \in Seq(Row)
        /\ step \in {"text", "trust"}
    BY DEF RenderText, RenderTrust, SearchInv, ListsOK, PageOK
  <1>4. /\ Len(picks) \in Nat /\ Len(rows) \in Nat /\ Len(rows') \in Nat
        /\ DOMAIN rows = 1 .. Len(rows) /\ DOMAIN rows' = 1 .. Len(rows')
    BY <1>3, LenProperties
  <1>5. /\ ToSet(picks) \subseteq DOMAIN found
        /\ Len(rows) + Left = Min({Limit, Cardinality(Found)})
    BY <1>3 DEF FullOK
  <1>6. CASE RenderText
    <2>1. Head(picks) \in DOMAIN found
      <3>1. 1 \in 1 .. Len(picks) /\ picks[1] = Head(picks)
        BY <1>3, <1>4, EmptySeq
      <3> QED BY <1>3, <1>5, <3>1, MembersOfList
    <2>2. PICK row \in Row : rows' = Append(rows, row)
      <3>1. \E row : rows' = Append(rows, row)
        BY <1>6, <2>1 DEF RenderText
      <3>2. PICK row : rows' = Append(rows, row)
        BY <3>1
      <3>3. rows'[Len(rows) + 1] = row /\ Len(rows') = Len(rows) + 1
        BY <1>3, <1>4, <3>2
      <3>4. row \in Row
        BY <1>3, <1>4, <3>3, ElementOfSeq
      <3> QED BY <3>2, <3>4
    <2>3. Len(rows') = Len(rows) + 1
      BY <1>3, <2>2, AppendProperties
    <2>4. step = "text" /\ step' = "trust" /\ picks' = picks
      BY <1>6, <2>1 DEF RenderText
    <2>5. Left' = Left - 1 /\ Left \in Nat
      BY <1>4, <2>4 DEF Left
    <2> QED BY <1>1, <1>2, <1>4, <1>5, <2>3, <2>4, <2>5 DEF FullOK
  <1>7. CASE RenderTrust
    <2>1. /\ step = "trust" /\ step' = "text" /\ picks' = Tail(picks)
          /\ DOMAIN rows' = DOMAIN rows
      BY <1>7 DEF RenderTrust
    <2>2. Len(rows') = Len(rows)
      <3>1. 1 .. Len(rows') = 1 .. Len(rows)
        BY <1>4, <2>1
      <3>2. \A n \in Nat : Cardinality(1 .. n) = n
        BY CountTo
      <3>3. Len(rows') = Cardinality(1 .. Len(rows')) /\ Len(rows) = Cardinality(1 .. Len(rows))
        BY <1>4, <3>2
      <3> QED BY <3>1, <3>3
    <2>3. Len(picks') = Len(picks) - 1 /\ ToSet(picks') \subseteq ToSet(picks)
      BY <1>3, <2>1, TailOfList
    <2>4. Left' = Left
      BY <2>1, <2>3 DEF Left
    <2> QED BY <1>1, <1>2, <1>5, <2>1, <2>2, <2>3, <2>4 DEF FullOK
  <1> QED BY <1>6, <1>7

LEMMA FullStays ==
  ASSUME SearchInv, SearchInv', BeforeOK, FullOK, Ample, [Next]_vars
  PROVE  BeforeOK' /\ FullOK'
  <1>1. BeforeOK' /\ (Meanwhile => ~before'.quiet)
    BY BeforeStays
  <1>2. CASE UNCHANGED vars
    <2>1. UNCHANGED <<around, request, index>> /\ UNCHANGED <<step, words, grams, picks, found>>
          /\ UNCHANGED <<rows, before>>
      BY <1>2 DEF vars, search
    <2>2. /\ Found' = Found /\ \A c : Active(c)' <=> Active(c)
          /\ \A order, n : Matching(order, n)' = Matching(order, n)
      BY <2>1, SameFound
    <2>3. FullOK'
      BY <2>1, <2>2 DEF FullOK, Left
    <2> QED BY <1>1, <2>3
  <1>3. CASE Meanwhile
    BY <1>1, <1>3 DEF FullOK
  <1> QED BY <1>1, <1>2, <1>3, FullAsked, FullRead, FullRendered DEF Next

(* When nothing changes under it, a search shows as many files as it has   *)
(* rows for or every file that matches, for any files, rankings and        *)
(* requests, if each index and the fusion have room for all chunks of a    *)
(* page of files (hybrid.rs 71-90, 297-331).                               *)
THEOREM PageIsWhole ==
  ASSUME Ample
  PROVE  Spec => []PageIsFull
  <1>1. Init => BeforeOK /\ FullOK
    <2> SUFFICES ASSUME Init PROVE BeforeOK /\ FullOK
      OBVIOUS
    <2>1. AroundOK
      BY InvInit DEF SearchInv
    <2> QED BY <2>1 DEF Init, BeforeOK, FullOK, AroundOK
  <1>2. SearchInv /\ SearchInv' /\ BeforeOK /\ FullOK /\ [Next]_vars => BeforeOK' /\ FullOK'
    BY FullStays
  <1>3. SearchInv /\ FullOK => PageIsFull
    <2>1. Len(<<>>) = 0 /\ (SearchInv => Len(rows) \in Nat)
      BY EmptySeq, LenProperties DEF SearchInv, PageOK
    <2> QED BY <2>1 DEF FullOK, Left, PageIsFull
  <1> QED BY <1>1, <1>2, <1>3, SearchInvHolds, PTL DEF Spec
=============================================================================
