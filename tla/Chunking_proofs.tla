--------------------------- MODULE Chunking_proofs ---------------------------
(***************************************************************************)
(* Proofs about Chunking, for files of any length and any limits: nothing  *)
(* is left out without a warning, no phrase is torn, a chunk is embedded   *)
(* as its own text, and stands under its headings.                         *)
(***************************************************************************)
EXTENDS Chunking, SequenceTheorems, FiniteSetTheorems, WellFoundedInduction,
        TLAPS

-----------------------------------------------------------------------------
(* Numbers and loops *)

(* A set of naturals has a least one.                                      *)
LEMMA HasLeast ==
  ASSUME NEW T, T \subseteq Nat, T # {}
  PROVE  \E n \in T : \A k \in T : n <= k
  <1> DEFINE less == {p \in Nat \X Nat : p[1] < p[2]}
  <1>1. IsWellFoundedOn(less, Nat)
    BY NatLessThanWellFounded DEF OpToRel
  <1>2. PICK n \in T : \A k \in T : ~(<<k, n>> \in less)
    <2> HIDE DEF less
    <2> QED BY <1>1, WFMin
  <1>3. \A k, m \in Nat : <<k, m>> \in less <=> k < m
    OBVIOUS
  <1> HIDE DEF less
  <1>4. \A k \in T : k \in Nat /\ ~(k < n)
    BY <1>2, <1>3
  <1> QED BY <1>2, <1>4

(* What holds of 0 and is handed on holds up to n.                         *)
LEMMA UpTo ==
  ASSUME NEW n \in Nat, NEW G, 0 \in G, \A k \in 1 .. n : k - 1 \in G => k \in G
  PROVE  \A k \in 0 .. n : k \in G
  <1> DEFINE T == {k \in 0 .. n : k \notin G}
  <1> SUFFICES ASSUME T # {} PROVE FALSE
    OBVIOUS
  <1>1. PICK k \in T : \A j \in T : k <= j
    <2>1. T \subseteq Nat
      OBVIOUS
    <2> HIDE DEF T
    <2> QED BY <2>1, HasLeast
  <1>2. k \in 1 .. n /\ k - 1 \in 0 .. n /\ k - 1 \notin T
    BY <1>1
  <1> QED BY <1>1, <1>2

(* The same from n down to 0.                                              *)
LEMMA DownTo ==
  ASSUME NEW n \in Nat, NEW G,
         \A k \in 0 .. n : (\A j \in 0 .. n : j > k => j \in G) => k \in G
  PROVE  \A k \in 0 .. n : k \in G
  <1> DEFINE T == {m \in 0 .. n : n - m \notin G}
  <1> SUFFICES ASSUME NEW i \in 0 .. n, i \notin G PROVE FALSE
    OBVIOUS
  <1>0. n - i \in T
    <2>1. n - i \in 0 .. n /\ n - (n - i) = i
      OBVIOUS
    <2> QED BY <2>1
  <1>1. PICK m \in T : \A j \in T : m <= j
    <2>1. T \subseteq Nat
      OBVIOUS
    <2> HIDE DEF T
    <2> QED BY <1>0, <2>1, HasLeast
  <1>2. ASSUME NEW j \in 0 .. n, j > n - m PROVE j \in G
    <2>1. n - j \in 0 .. n /\ n - (n - j) = j /\ n - j < m
      BY <1>1, <1>2
    <2> QED BY <1>1, <2>1
  <1>3. n - m \in 0 .. n
    BY <1>1
  <1> QED BY <1>1, <1>2, <1>3

(* A loop whose step stays in S has a sequence of states.                  *)
Goes(h, start, F, n) ==
  h = [k \in 0 .. n |-> IF k = 0 THEN start ELSE F[k][h[k - 1]]]

Runs(h, S, start, F, n) ==
  /\ h \in [0 .. n -> S] /\ Goes(h, start, F, n)
  /\ h[0] = start /\ \A k \in 1 .. n : h[k] = F[k][h[k - 1]]

LEMMA LoopGoes ==
  ASSUME NEW S, NEW start \in S, NEW n \in Nat, NEW F \in [1 .. n -> [S -> S]]
  PROVE  \E h : Runs(h, S, start, F, n)
  <1> DEFINE Right(h, m) == /\ h \in [0 .. m -> S] /\ h[0] = start
                            /\ \A k \in 1 .. m : h[k] = F[k][h[k - 1]]
             G == {m \in 0 .. n : \E h : Right(h, m)}
  <1>1. 0 \in G
    <2> DEFINE h == [k \in 0 .. 0 |-> start]
    <2>1. h \in [0 .. 0 -> S] /\ h[0] = start /\ \A k \in 1 .. 0 : FALSE
      OBVIOUS
    <2> HIDE DEF h
    <2> QED BY <2>1
  <1>2. ASSUME NEW m \in 1 .. n, m - 1 \in G PROVE m \in G
    <2>1. PICK h : Right(h, m - 1)
      BY <1>2
    <2>2. m - 1 \in 0 .. m - 1 /\ h[m - 1] \in S
      BY <2>1
    <2> DEFINE next == F[m][h[m - 1]]
               g == [k \in 0 .. m |-> IF k = m THEN next ELSE h[k]]
    <2>3. next \in S
      BY <2>2
    <2> HIDE DEF next
    <2>4. g \in [0 .. m -> S] /\ g[m] = next /\ \A k \in 0 .. m - 1 : g[k] = h[k]
      BY <2>1, <2>3
    <2> HIDE DEF g
    <2>5. ASSUME NEW k \in 1 .. m PROVE g[k] = F[k][g[k - 1]]
      <3>1. CASE k = m
        BY <2>2, <2>4, <3>1 DEF next
      <3>2. CASE k # m
        <4>1. k \in 1 .. m - 1 /\ k \in 0 .. m - 1 /\ k - 1 \in 0 .. m - 1
          BY <3>2
        <4> QED BY <2>1, <2>4, <4>1
      <3> QED BY <3>1, <3>2
    <2>6. Right(g, m)
      BY <2>1, <2>4, <2>5
    <2>7. m \in 0 .. n
      OBVIOUS
    <2> QED BY <2>6, <2>7
  <1>3. n \in G
    <2> HIDE DEF G
    <2>1. \A k \in 0 .. n : k \in G
      BY <1>1, <1>2, UpTo
    <2> QED BY <2>1
  <1>4. PICK h : Right(h, n)
    BY <1>3
  <1>5. \A k \in 0 .. n : h[k] = IF k = 0 THEN start ELSE F[k][h[k - 1]]
    BY <1>4
  <1>6. h = [k \in 0 .. n |-> h[k]]
    BY <1>4
  <1> QED BY <1>4, <1>5, <1>6 DEF Goes, Runs

LEMMA SumsIs ==
  ASSUME NEW numbers \in Seq(Nat)
  PROVE  /\ Sums(numbers) \in [0 .. Len(numbers) -> Nat]
         /\ Sums(numbers)[0] = 0
         /\ \A k \in 1 .. Len(numbers) : Sums(numbers)[k] = Sums(numbers)[k - 1] + numbers[k]
         /\ Total(numbers) \in Nat
  <1> DEFINE n == Len(numbers)
             F == [k \in 1 .. n |-> [s \in Nat |-> s + numbers[k]]]
             Is(h) == h = [k \in 0 .. n |-> IF k = 0 THEN 0 ELSE h[k - 1] + numbers[k]]
  <1>1. n \in Nat /\ \A k \in 1 .. n : numbers[k] \in Nat
    BY LenProperties, ElementOfSeq
  <1> HIDE DEF n
  <1>2. F \in [1 .. n -> [Nat -> Nat]]
    BY <1>1
  <1>3. PICK h : Runs(h, Nat, 0, F, n)
    <2> HIDE DEF F
    <2> QED BY <1>1, <1>2, LoopGoes
  <1>4. Is(h)
    <2>1. \A k \in 0 .. n : k # 0 => F[k][h[k - 1]] = h[k - 1] + numbers[k]
      BY <1>1, <1>3 DEF Runs
    <2> QED BY <1>3, <2>1 DEF Goes, Runs
  <1> DEFINE sums == CHOOSE g : Is(g)
  <1>5. Is(sums) /\ Sums(numbers) = sums
    <2>1. Is(sums)
      BY <1>4
    <2>2. Sums(numbers) = sums
      BY DEF Sums, Loop, n
    <2> QED BY <2>1, <2>2
  <1> HIDE DEF sums
  <1>6. sums[0] = 0 /\ \A k \in 1 .. n : sums[k] = sums[k - 1] + numbers[k]
    BY <1>1, <1>5
  <1> DEFINE G == {k \in 0 .. n : sums[k] \in Nat}
  <1>7. \A k \in 0 .. n : k \in G
    <2>1. 0 \in G
      BY <1>1, <1>6
    <2>2. ASSUME NEW k \in 1 .. n, k - 1 \in G PROVE k \in G
      <3>1. sums[k - 1] \in Nat /\ numbers[k] \in Nat /\ k \in 0 .. n
        BY <1>1, <2>2
      <3>2. sums[k] \in Nat
        BY <1>6, <3>1
      <3> QED BY <3>1, <3>2
    <2> HIDE DEF G
    <2> QED BY <1>1, <2>1, <2>2, UpTo
  <1>8. sums \in [0 .. n -> Nat]
    BY <1>5, <1>7
  <1>9. sums[n] \in Nat
    BY <1>1, <1>8
  <1> QED BY <1>5, <1>6, <1>8, <1>9 DEF Total, n

-----------------------------------------------------------------------------
(* Lists *)

(* t stands somewhere in u, all of it.                                     *)
Inside(t, u) ==
  \E off \in Nat : off + Len(t) <= Len(u) /\ \A p \in 1 .. Len(t) : u[off + p] = t[p]

LEMMA InsideConcat ==
  ASSUME NEW S, NEW s \in Seq(S), NEW t \in Seq(S)
  PROVE  Inside(s, s \o t) /\ Inside(t, s \o t)
  <1>1. /\ Len(s) \in Nat /\ Len(t) \in Nat /\ Len(s \o t) = Len(s) + Len(t)
        /\ \A i \in 1 .. Len(s) : (s \o t)[0 + i] = s[i]
        /\ \A i \in 1 .. Len(t) : (s \o t)[Len(s) + i] = t[i]
    <2>1. Len(s) \in Nat /\ Len(t) \in Nat
      BY LenProperties
    <2>2. /\ Len(s \o t) = Len(s) + Len(t)
          /\ \A i \in 1 .. Len(s) + Len(t) :
               (s \o t)[i] = IF i <= Len(s) THEN s[i] ELSE t[i - Len(s)]
      BY ConcatProperties
    <2>3. \A i \in 1 .. Len(s) : (s \o t)[0 + i] = s[i]
      BY <2>1, <2>2
    <2>4. ASSUME NEW i \in 1 .. Len(t) PROVE (s \o t)[Len(s) + i] = t[i]
      <3>1. /\ Len(s) + i \in 1 .. Len(s) + Len(t) /\ ~(Len(s) + i <= Len(s))
            /\ (Len(s) + i) - Len(s) = i
        BY <2>1
      <3> QED BY <2>2, <3>1
    <2> QED BY <2>1, <2>2, <2>3, <2>4
  <1>2. Inside(s, s \o t)
    BY <1>1 DEF Inside
  <1>3. Inside(t, s \o t)
    BY <1>1 DEF Inside
  <1> QED BY <1>2, <1>3

LEMMA InsideTransitive ==
  ASSUME NEW S, NEW r \in Seq(S), NEW s \in Seq(S), NEW t \in Seq(S),
         Inside(r, s), Inside(s, t)
  PROVE  Inside(r, t)
  <1>1. Len(r) \in Nat /\ Len(s) \in Nat /\ Len(t) \in Nat
    BY LenProperties
  <1>2. PICK a \in Nat : a + Len(r) <= Len(s) /\ \A p \in 1 .. Len(r) : s[a + p] = r[p]
    BY DEF Inside
  <1>3. PICK b \in Nat : b + Len(s) <= Len(t) /\ \A p \in 1 .. Len(s) : t[b + p] = s[p]
    BY DEF Inside
  <1>4. ASSUME NEW p \in 1 .. Len(r) PROVE t[b + a + p] = r[p]
    <2>1. a + p \in 1 .. Len(s) /\ b + (a + p) = b + a + p
      BY <1>1, <1>2
    <2> QED BY <1>2, <1>3, <2>1
  <1>5. b + a \in Nat /\ b + a + Len(r) <= Len(t)
    BY <1>1, <1>2, <1>3
  <1> QED BY <1>4, <1>5 DEF Inside

(* The lists of a list one after the other.                                *)
LEMMA FlattenIs ==
  ASSUME NEW S, NEW seqs \in Seq(Seq(S))
  PROVE  /\ FlattenSeq(seqs) \in Seq(S)
         /\ \A k \in 1 .. Len(seqs) : Inside(seqs[k], FlattenSeq(seqs))
         /\ \A p \in 1 .. Len(FlattenSeq(seqs)) :
              \E k \in 1 .. Len(seqs) : \E q \in 1 .. Len(seqs[k]) : FlattenSeq(seqs)[p] = seqs[k][q]
  <1> DEFINE n == Len(seqs)
             F == [k \in 1 .. n |-> [s \in Seq(S) |-> s \o seqs[k]]]
             Is(h) == h = [i \in 1 .. n |-> IF i = 1 THEN seqs[i] ELSE h[i - 1] \o seqs[i]]
             flatten == CHOOSE h : Is(h)
             Right(flat, k) ==
               /\ flat \in Seq(S)
               /\ \A j \in 1 .. k : Inside(seqs[j], flat)
               /\ \A p \in 1 .. Len(flat) :
                    \E j \in 1 .. k : \E q \in 1 .. Len(seqs[j]) : flat[p] = seqs[j][q]
  <1>1. n \in Nat /\ \A k \in 1 .. n : seqs[k] \in Seq(S)
    BY LenProperties, ElementOfSeq
  <1>2. CASE n = 0
    <2>1. FlattenSeq(seqs) = seqs /\ seqs = <<>>
      BY <1>2, EmptySeq DEF FlattenSeq
    <2>2. <<>> \in Seq(S) /\ Len(<<>>) = 0
      BY EmptySeq
    <2> QED BY <2>1, <2>2
  <1>3. CASE n # 0
    <2>1. FlattenSeq(seqs) = flatten[n]
      BY <1>3 DEF FlattenSeq
    <2> HIDE DEF n
    <2>2. F \in [1 .. n -> [Seq(S) -> Seq(S)]]
      BY <1>1, ConcatProperties
    <2>3. PICK h : Runs(h, Seq(S), <<>>, F, n)
      <3>1. n \in Nat /\ <<>> \in Seq(S)
        BY <1>1, EmptySeq
      <3> HIDE DEF F
      <3> QED BY <2>2, <3>1, LoopGoes
    <2>4. h[0] = <<>> /\ \A k \in 1 .. n : h[k] = h[k - 1] \o seqs[k]
      <3>1. ASSUME NEW k \in 1 .. n PROVE F[k][h[k - 1]] = h[k - 1] \o seqs[k]
        <4>1. h[k - 1] \in Seq(S)
          BY <1>1, <2>3 DEF Runs
        <4> QED BY <4>1
      <3> QED BY <2>3, <3>1 DEF Runs
    <2> DEFINE g == [i \in 1 .. n |-> h[i]]
    <2>5. Is(g)
      <3>1. ASSUME NEW i \in 1 .. n
            PROVE  g[i] = IF i = 1 THEN seqs[i] ELSE g[i - 1] \o seqs[i]
        <4>1. CASE i = 1
          <5>1. h[i] = <<>> \o seqs[i]
            <6>1. h[i] = h[i - 1] \o seqs[i]
              BY <2>4
            <6>2. i - 1 = 0
              BY <4>1
            <6> QED BY <2>4, <6>1, <6>2
          <5> QED BY <1>1, <4>1, <5>1, ConcatEmptySeq
        <4>2. CASE i # 1
          <5>1. i - 1 \in 1 .. n
            BY <1>1, <4>2
          <5> QED BY <2>4, <4>2, <5>1
        <4> QED BY <4>1, <4>2
      <3> HIDE DEF g
      <3>2. g = [i \in 1 .. n |-> g[i]]
        BY DEF g
      <3> QED BY <3>1, <3>2
    <2>6. Is(flatten)
      <3> HIDE DEF g
      <3> QED BY <2>5
    <2> HIDE DEF flatten
    <2>7. Right(flatten[1], 1)
      <3>0. 1 \in 1 .. n
        BY <1>1, <1>3
      <3>1. flatten[1] = seqs[1] /\ seqs[1] \in Seq(S)
        BY <1>1, <2>6, <3>0
      <3>2. Inside(seqs[1], seqs[1])
        <4> DEFINE t == seqs[1]
        <4> SUFFICES Inside(t, t)
          OBVIOUS
        <4>1. Len(t) \in Nat
          BY <3>1, LenProperties
        <4> HIDE DEF t
        <4>2. 0 + Len(t) <= Len(t) /\ \A p \in 1 .. Len(t) : t[0 + p] = t[p]
          BY <4>1
        <4> QED BY <4>2 DEF Inside
      <3>3. \A j \in 1 .. 1 : j = 1
        OBVIOUS
      <3> QED BY <3>1, <3>2, <3>3
    <2>8. ASSUME NEW k \in 2 .. n, Right(flatten[k - 1], k - 1)
          PROVE  Right(flatten[k], k)
      <3> DEFINE s == flatten[k - 1]
                 t == seqs[k]
      <3>1. flatten[k] = s \o t /\ s \in Seq(S) /\ t \in Seq(S)
        <4>1. k \in 1 .. n /\ k # 1
          OBVIOUS
        <4>2. flatten[k] = s \o t
          BY <2>6, <4>1
        <4> QED BY <1>1, <2>8, <4>1, <4>2
      <3>2. s \o t \in Seq(S) /\ Inside(s, s \o t) /\ Inside(t, s \o t)
        BY <3>1, ConcatProperties, InsideConcat
      <3>3. ASSUME NEW j \in 1 .. k PROVE Inside(seqs[j], s \o t)
        <4>1. CASE j = k
          BY <3>2, <4>1
        <4>2. CASE j # k
          <5>1. j \in 1 .. k - 1 /\ seqs[j] \in Seq(S)
            BY <1>1, <4>2
          <5>2. Inside(seqs[j], s)
            BY <2>8, <5>1
          <5> HIDE DEF s, t
          <5> QED BY <3>1, <3>2, <5>1, <5>2, InsideTransitive
        <4> QED BY <4>1, <4>2
      <3>4. ASSUME NEW p \in 1 .. Len(s \o t)
            PROVE  \E j \in 1 .. k : \E q \in 1 .. Len(seqs[j]) : (s \o t)[p] = seqs[j][q]
        <4>1. /\ Len(s) \in Nat /\ Len(t) \in Nat /\ Len(s \o t) = Len(s) + Len(t)
              /\ (s \o t)[p] = IF p <= Len(s) THEN s[p] ELSE t[p - Len(s)]
          <5> HIDE DEF s, t
          <5>1. Len(s) \in Nat /\ Len(t) \in Nat /\ Len(s \o t) = Len(s) + Len(t)
            BY <3>1, LenProperties, ConcatProperties
          <5> QED BY <3>1, <5>1, ConcatProperties
        <4>2. CASE p <= Len(s)
          <5>1. p \in 1 .. Len(s)
            BY <4>1, <4>2
          <5>2. PICK j \in 1 .. k - 1 : \E q \in 1 .. Len(seqs[j]) : s[p] = seqs[j][q]
            BY <2>8, <5>1
          <5>3. j \in 1 .. k
            BY <5>2
          <5> QED BY <4>1, <4>2, <5>2, <5>3
        <4>3. CASE ~(p <= Len(s))
          <5> HIDE DEF s, t
          <5>1. p - Len(s) \in 1 .. Len(t) /\ k \in 1 .. k
            BY <4>1, <4>3
          <5>2. (s \o t)[p] = t[p - Len(s)]
            BY <4>1, <4>3
          <5>3. (s \o t)[p] = seqs[k][p - Len(s)] /\ p - Len(s) \in 1 .. Len(seqs[k])
            BY <5>1, <5>2 DEF t
          <5>4. \E q \in 1 .. Len(seqs[k]) : (s \o t)[p] = seqs[k][q]
            BY <5>3
          <5> QED BY <5>1, <5>4
        <4> QED BY <4>2, <4>3
      <3> HIDE DEF s, t
      <3>5. Right(s \o t, k)
        BY <3>2, <3>3, <3>4
      <3> HIDE DEF Right
      <3> QED BY <3>1, <3>5
    <2> DEFINE G == {k \in 0 .. n : k = 0 \/ Right(flatten[k], k)}
    <2> HIDE DEF Right
    <2>9. \A k \in 0 .. n : k \in G
      <3>1. 0 \in G
        BY <1>1
      <3>2. ASSUME NEW k \in 1 .. n, k - 1 \in G PROVE k \in G
        <4>1. CASE k = 1
          BY <2>7, <4>1
        <4>2. CASE k # 1
          <5>1. k \in 2 .. n /\ Right(flatten[k - 1], k - 1)
            BY <3>2, <4>2
          <5> QED BY <2>8, <5>1
        <4> QED BY <4>1, <4>2
      <3> HIDE DEF G
      <3> QED BY <1>1, <3>1, <3>2, UpTo
    <2>10. Right(flatten[n], n)
      BY <1>1, <1>3, <2>9
    <2>11. Right(FlattenSeq(seqs), n)
      BY <2>1, <2>10
    <2>12. /\ FlattenSeq(seqs) \in Seq(S)
           /\ \A k \in 1 .. n : Inside(seqs[k], FlattenSeq(seqs))
           /\ \A p \in 1 .. Len(FlattenSeq(seqs)) :
                \E k \in 1 .. n : \E q \in 1 .. Len(seqs[k]) : FlattenSeq(seqs)[p] = seqs[k][q]
      BY <2>11 DEF Right
    <2> QED BY <2>12 DEF n
  <1> QED BY <1>2, <1>3

-----------------------------------------------------------------------------
(* Texts *)

Char == Nat \X Nat \X Nat
Text == Seq(Char)

LEMMA NewLineIs == NewLine \in Char /\ \A c : c \in Char => c[1] \in Nat /\ c[3] \in Nat
  BY DEF NewLine, Char

LEMMA SeenIs ==
  ASSUME NEW text \in Text
  PROVE  /\ \A c : c \in Seen(text) <=> c # NewLine /\ \E p \in 1 .. Len(text) : text[p] = c
         /\ Len(text) \in Nat /\ DOMAIN text = 1 .. Len(text)
         /\ \A p \in 1 .. Len(text) : text[p] \in Char
  BY LenProperties, ElementOfSeq DEF Seen, ToSet, Text

LEMMA WordIs ==
  ASSUME NEW i \in Nat \ {0}, NEW w \in Nat
  PROVE  /\ Word(i, w) \in Text /\ Len(Word(i, w)) = w
         /\ \A p \in 1 .. w : Word(i, w)[p][1] = i /\ Word(i, w)[p] # NewLine
         /\ \A c \in Seen(Word(i, w)) : c[1] = i
  <1> DEFINE of(p) == <<i, p, IF w \in Wide THEN 3 ELSE 1>>
  <1>1. \A p \in 1 .. w : of(p) \in Char /\ of(p)[1] = i /\ of(p) # NewLine
    BY DEF Char, NewLine
  <1>2. Word(i, w) = [p \in 1 .. w |-> of(p)]
    BY DEF Word
  <1> HIDE DEF of
  <1>3. Word(i, w) \in Seq(Char) /\ Len(Word(i, w)) = w
    <2> DEFINE word == [p \in 1 .. w |-> of(p)]
    <2>1. word \in [1 .. w -> Char]
      BY <1>1
    <2>2. word \in Seq(Char)
      BY <2>1, IsASeq
    <2>3. DOMAIN word = 1 .. w
      OBVIOUS
    <2>4. Len(word) = w
      <3> HIDE DEF word
      <3> QED BY <2>2, <2>3, LenProperties
    <2> QED BY <1>2, <2>2, <2>4
  <1>4. \A p \in 1 .. w : Word(i, w)[p][1] = i /\ Word(i, w)[p] # NewLine
    BY <1>1, <1>2
  <1> QED BY <1>3, <1>4, SeenIs DEF Text

LEMMA OneLetter ==
  ASSUME NEW i \in Nat \ {0}
  PROVE  /\ Word(i, 1) \in Text /\ Len(Word(i, 1)) = 1 /\ Word(i, 1) # <<>>
         /\ Word(i, 1)[1][1] = i /\ \A c \in Seen(Word(i, 1)) : c[1] = i
  <1>1. 1 \in Nat /\ 1 \in 1 .. 1
    OBVIOUS
  <1> DEFINE w == 1
  <1>2. w \in Nat
    BY <1>1
  <1> HIDE DEF w
  <1>3. /\ Word(i, w) \in Text /\ Len(Word(i, w)) = w
        /\ \A p \in 1 .. w : Word(i, w)[p][1] = i /\ Word(i, w)[p] # NewLine
        /\ \A c \in Seen(Word(i, w)) : c[1] = i
    BY <1>2, WordIs
  <1>4. Word(i, 1) \in Text /\ Len(Word(i, 1)) = 1 /\ \A c \in Seen(Word(i, 1)) : c[1] = i
    BY <1>3 DEF w
  <1>5. Word(i, 1)[1][1] = i
    BY <1>1, <1>3 DEF w
  <1>6. Word(i, 1) # <<>>
    BY <1>4, EmptySeq
  <1> QED BY <1>4, <1>5, <1>6

(* What stands inside a text is seen in it.                                *)
LEMMA InsideIsSeen ==
  ASSUME NEW t \in Text, NEW u \in Text, Inside(t, u)
  PROVE  Seen(t) \subseteq Seen(u)
  <1>1. PICK off \in Nat : off + Len(t) <= Len(u) /\ \A p \in 1 .. Len(t) : u[off + p] = t[p]
    BY DEF Inside
  <1>2. \A p \in 1 .. Len(t) : off + p \in 1 .. Len(u)
    BY <1>1, SeenIs
  <1> QED BY <1>1, <1>2, SeenIs

LEMMA SubTextIs ==
  ASSUME NEW text \in Text, NEW a \in 1 .. Len(text) + 1, NEW b \in 0 .. Len(text), a <= b + 1
  PROVE  /\ SubSeq(text, a, b) \in Text /\ Len(SubSeq(text, a, b)) = b - a + 1
         /\ \A p \in 1 .. b - a + 1 : SubSeq(text, a, b)[p] = text[a + p - 1]
         /\ \A c : c \in ToSet(SubSeq(text, a, b)) <=> \E p \in a .. b : text[p] = c
  <1>1. Len(text) \in Nat /\ \A i \in a .. b : text[i] \in Char
    BY SeenIs
  <1> DEFINE sub == SubSeq(text, a, b)
  <1>2. /\ sub \in Seq(Char) /\ Len(sub) = b - a + 1
        /\ \A p \in 1 .. b - a + 1 : sub[p] = text[a + p - 1]
    <2>1. /\ sub \in Seq(Char)
          /\ Len(sub) = IF a <= b THEN b - a + 1 ELSE 0
          /\ \A p \in 1 .. b - a + 1 : sub[p] = text[a + p - 1]
      BY <1>1, SubSeqProperties
    <2> QED BY <2>1
  <1> HIDE DEF sub
  <1>3. ASSUME NEW c, NEW p \in a .. b, text[p] = c PROVE c \in ToSet(sub)
    <2>1. p - a + 1 \in 1 .. Len(sub) /\ a + (p - a + 1) - 1 = p
      BY <1>1, <1>2
    <2>2. sub[p - a + 1] = c
      BY <1>2, <1>3, <2>1
    <2> QED BY <1>2, <2>1, <2>2, LenProperties DEF ToSet
  <1>4. ASSUME NEW c \in ToSet(sub) PROVE \E p \in a .. b : text[p] = c
    <2>1. PICK q \in 1 .. Len(sub) : sub[q] = c
      BY <1>2, <1>4, LenProperties DEF ToSet
    <2>2. a + q - 1 \in a .. b
      BY <1>1, <1>2, <2>1
    <2> QED BY <1>2, <2>1, <2>2
  <1> QED BY <1>2, <1>3, <1>4 DEF Text, sub

(* The texts of a list stand in their join, and nothing else is seen.      *)
LEMMA JoinIs ==
  ASSUME NEW texts \in Seq(Text)
  PROVE  /\ Join(texts) \in Text
         /\ \A k \in 1 .. Len(texts) : Inside(texts[k], Join(texts))
         /\ Seen(Join(texts)) = UNION {Seen(texts[k]) : k \in 1 .. Len(texts)}
  <1> DEFINE n == Len(texts)
             lines == [k \in DOMAIN texts |-> <<NewLine>> \o texts[k]]
             flat == FlattenSeq(lines)
             joined == SubSeq(flat, 2, Len(flat))
  <1>1. n \in Nat /\ DOMAIN texts = 1 .. n /\ \A k \in 1 .. n : texts[k] \in Text
    BY LenProperties, ElementOfSeq
  <1>2. Join(texts) = joined
    BY DEF Join
  <1> HIDE DEF n
  <1>3. \A k \in 1 .. n : /\ lines[k] = <<NewLine>> \o texts[k] /\ lines[k] \in Text
                          /\ Len(lines[k]) = Len(texts[k]) + 1 /\ Len(texts[k]) \in Nat
                          /\ \A p \in 1 .. Len(texts[k]) : lines[k][p + 1] = texts[k][p]
                          /\ lines[k][1] = NewLine
    <2> SUFFICES ASSUME NEW k \in 1 .. n
                 PROVE  /\ lines[k] = <<NewLine>> \o texts[k] /\ lines[k] \in Text
                        /\ Len(lines[k]) = Len(texts[k]) + 1 /\ Len(texts[k]) \in Nat
                        /\ \A p \in 1 .. Len(texts[k]) : lines[k][p + 1] = texts[k][p]
                        /\ lines[k][1] = NewLine
      OBVIOUS
    <2>1. lines[k] = <<NewLine>> \o texts[k]
      BY <1>1
    <2> DEFINE t == texts[k]
    <2>2. t \in Seq(Char) /\ <<NewLine>> \in Seq(Char) /\ Len(<<NewLine>>) = 1
      BY <1>1, NewLineIs DEF Text
    <2>3. Len(t) \in Nat /\ <<NewLine>>[1] = NewLine
      BY <2>2, LenProperties
    <2> HIDE DEF t
    <2>4. /\ <<NewLine>> \o t \in Seq(Char) /\ Len(<<NewLine>> \o t) = 1 + Len(t)
          /\ \A p \in 1 .. 1 + Len(t) :
               (<<NewLine>> \o t)[p] = IF p <= 1 THEN <<NewLine>>[p] ELSE t[p - 1]
      BY <2>2, ConcatProperties
    <2>5. ASSUME NEW p \in 1 .. Len(t) PROVE (<<NewLine>> \o t)[p + 1] = t[p]
      <3>1. p + 1 \in 1 .. 1 + Len(t) /\ ~(p + 1 <= 1) /\ (p + 1) - 1 = p
        BY <2>3
      <3> QED BY <2>4, <3>1
    <2>6. (<<NewLine>> \o t)[1] = NewLine
      <3>1. 1 \in 1 .. 1 + Len(t)
        BY <2>3
      <3> QED BY <2>3, <2>4, <3>1
    <2>7. <<NewLine>> \o t \in Text /\ Len(<<NewLine>> \o t) = Len(t) + 1
      BY <2>3, <2>4 DEF Text
    <2> QED BY <2>1, <2>3, <2>5, <2>6, <2>7 DEF t
  <1>4. lines \in Seq(Text) /\ Len(lines) = n
    <2>1. lines \in [1 .. n -> Text]
      BY <1>1, <1>3
    <2> HIDE DEF lines
    <2>2. lines \in Seq(Text) /\ DOMAIN lines = 1 .. n
      BY <1>1, <2>1, IsASeq
    <2> QED BY <1>1, <2>2, LenProperties
  <1> HIDE DEF lines
  <1>5. /\ flat \in Text /\ Len(flat) \in Nat
        /\ \A k \in 1 .. n : Inside(lines[k], flat)
        /\ \A p \in 1 .. Len(flat) :
             \E k \in 1 .. n : \E q \in 1 .. Len(lines[k]) : flat[p] = lines[k][q]
    BY <1>4, FlattenIs, LenProperties DEF Text
  <1> HIDE DEF flat
  <1>6. CASE n = 0
    <2>1. Len(flat) = 0
      <3> SUFFICES ASSUME Len(flat) # 0 PROVE FALSE
        OBVIOUS
      <3>1. 1 \in 1 .. Len(flat)
        BY <1>5
      <3> QED BY <1>5, <1>6, <3>1
    <2>2. joined = <<>>
      BY <1>5, <2>1, SubSeqEmpty, 2 > 0 DEF Text
    <2>3. <<>> \in Text /\ Seen(<<>>) = {}
      BY EmptySeq DEF Text, Seen, ToSet
    <2>4. \A k \in 1 .. Len(texts) : FALSE
      BY <1>6 DEF n
    <2> HIDE DEF joined
    <2> QED BY <1>2, <2>2, <2>3, <2>4
  <1>7. CASE n # 0
    <2>1. Len(flat) >= 1
      <3>1. 1 \in 1 .. n
        BY <1>1, <1>7
      <3>2. Inside(lines[1], flat) /\ Len(lines[1]) = Len(texts[1]) + 1 /\ Len(texts[1]) \in Nat
        BY <1>3, <1>5, <3>1
      <3> QED BY <1>5, <3>2 DEF Inside
    <2>2. /\ joined \in Text /\ Len(joined) = Len(flat) - 1
          /\ \A p \in 1 .. Len(flat) - 1 : joined[p] = flat[p + 1]
      <3>1. 2 \in 1 .. Len(flat) + 1 /\ Len(flat) \in 0 .. Len(flat) /\ 2 <= Len(flat) + 1
        BY <1>5, <2>1
      <3>2. /\ joined \in Text /\ Len(joined) = Len(flat) - 2 + 1
            /\ \A p \in 1 .. Len(flat) - 2 + 1 : joined[p] = flat[2 + p - 1]
        <4>1. flat \in Text
          BY <1>5
        <4> HIDE DEF flat
        <4> QED BY <3>1, <4>1, SubTextIs
      <3> HIDE DEF joined
      <3>3. Len(flat) - 2 + 1 = Len(flat) - 1 /\ \A p \in 1 .. Len(flat) - 1 : 2 + p - 1 = p + 1
        BY <1>5
      <3> QED BY <3>2, <3>3
    <2> HIDE DEF joined
    <2>3. ASSUME NEW k \in 1 .. n PROVE Inside(texts[k], joined)
      <3>1. PICK off \in Nat : /\ off + Len(lines[k]) <= Len(flat)
                               /\ \A p \in 1 .. Len(lines[k]) : flat[off + p] = lines[k][p]
        BY <1>5 DEF Inside
      <3>2. /\ Len(lines[k]) = Len(texts[k]) + 1 /\ Len(texts[k]) \in Nat
            /\ \A p \in 1 .. Len(texts[k]) : lines[k][p + 1] = texts[k][p]
        BY <1>3
      <3>3. off + Len(texts[k]) <= Len(joined)
        BY <1>5, <2>2, <3>1, <3>2
      <3>4. ASSUME NEW p \in 1 .. Len(texts[k]) PROVE joined[off + p] = texts[k][p]
        <4>1. p + 1 \in 1 .. Len(lines[k]) /\ off + p \in 1 .. Len(flat) - 1
              /\ (off + p) + 1 = off + (p + 1)
          BY <1>5, <3>1, <3>2
        <4>2. joined[off + p] = flat[off + (p + 1)]
          BY <2>2, <4>1
        <4>3. flat[off + (p + 1)] = lines[k][p + 1]
          BY <3>1, <4>1
        <4> QED BY <3>2, <4>2, <4>3
      <3> QED BY <3>3, <3>4 DEF Inside
    <2>4. ASSUME NEW c \in Seen(joined) PROVE \E k \in 1 .. n : c \in Seen(texts[k])
      <3>1. PICK p \in 1 .. Len(joined) : joined[p] = c /\ c # NewLine
        BY <2>2, <2>4, SeenIs
      <3>2. p + 1 \in 1 .. Len(flat) /\ flat[p + 1] = c
        BY <1>5, <2>2, <3>1
      <3>3. PICK k \in 1 .. n : \E q \in 1 .. Len(lines[k]) : c = lines[k][q]
        BY <1>5, <3>2
      <3>4. PICK q \in 1 .. Len(lines[k]) : c = lines[k][q]
        BY <3>3
      <3>5. q # 1
        BY <1>3, <3>1, <3>4
      <3>6. q - 1 \in 1 .. Len(texts[k]) /\ (q - 1) + 1 = q
        BY <1>3, <3>4, <3>5
      <3>7. texts[k][q - 1] = c
        BY <1>3, <3>4, <3>6
      <3> QED BY <1>1, <3>1, <3>6, <3>7, SeenIs
    <2>5. \A k \in 1 .. n : Seen(texts[k]) \subseteq Seen(joined)
      BY <1>1, <2>2, <2>3, InsideIsSeen
    <2> QED BY <1>2, <2>2, <2>3, <2>4, <2>5 DEF n
  <1> QED BY <1>6, <1>7


-----------------------------------------------------------------------------
(* Ends *)

LEMMA MinIsLeast ==
  ASSUME NEW T, T \subseteq Nat, T # {}
  PROVE  Min(T) \in T /\ \A k \in T : Min(T) <= k
  BY HasLeast DEF Min

LEMMA MaxIsMost ==
  ASSUME NEW m \in Nat, NEW T, T \subseteq 0 .. m, T # {}
  PROVE  Max(T) \in T /\ \A k \in T : k <= Max(T)
  <1> DEFINE U == {j \in 0 .. m : m - j \in T}
  <1>1. U \subseteq Nat
    OBVIOUS
  <1>2. U # {}
    <2>1. PICK k \in T : k \in 0 .. m
      OBVIOUS
    <2>2. m - k \in 0 .. m /\ m - (m - k) = k
      BY <2>1
    <2> QED BY <2>1, <2>2
  <1>3. PICK j \in U : \A i \in U : j <= i
    <2> HIDE DEF U
    <2> QED BY <1>1, <1>2, HasLeast
  <1>4. ASSUME NEW k \in T PROVE m - j >= k
    <2>1. k \in 0 .. m /\ m - k \in 0 .. m /\ m - (m - k) = k
      OBVIOUS
    <2>2. j <= m - k
      BY <1>3, <2>1
    <2> QED BY <1>3, <2>1, <2>2
  <1>5. m - j \in T
    BY <1>3
  <1>6. Max(T) \in T /\ \A k \in T : Max(T) >= k
    BY <1>4, <1>5 DEF Max
  <1> QED BY <1>6

LEMMA AppendIs ==
  ASSUME NEW S, NEW seq \in Seq(S), NEW e \in S
  PROVE  /\ Append(seq, e) \in Seq(S) /\ Len(Append(seq, e)) = Len(seq) + 1
         /\ Len(seq) \in Nat /\ Append(seq, e) # <<>>
         /\ \A k \in 1 .. Len(seq) : Append(seq, e)[k] = seq[k]
         /\ Append(seq, e)[Len(seq) + 1] = e
  BY AppendProperties, LenProperties

LEMMA BytesIs ==
  ASSUME NEW text \in Text
  PROVE  Bytes(text) \in Nat
  <1> DEFINE sizes == [k \in DOMAIN text |-> text[k][3]]
  <1>1. \A k \in 1 .. Len(text) : text[k][3] \in Nat
    BY SeenIs, NewLineIs
  <1>2. sizes \in [1 .. Len(text) -> Nat] /\ Len(text) \in Nat
    BY <1>1, SeenIs
  <1>3. Bytes(text) = Total(sizes)
    BY DEF Bytes
  <1> HIDE DEF sizes
  <1>4. sizes \in Seq(Nat)
    BY <1>2, IsASeq
  <1> QED BY <1>3, <1>4, SumsIs

(* Trim takes the line ends off a text's ends, and nothing else.           *)
LEMMA TrimIs ==
  ASSUME NEW text \in Text
  PROVE  \/ Trim(text) = <<>> /\ \A p \in 1 .. Len(text) : text[p] = NewLine
         \/ \E lo, hi \in 1 .. Len(text) :
              /\ lo <= hi /\ Trim(text) = SubSeq(text, lo, hi)
              /\ text[lo] # NewLine
              /\ \A p \in 1 .. Len(text) : text[p] # NewLine => p \in lo .. hi
  <1> DEFINE ink == {k \in DOMAIN text : text[k] # NewLine}
  <1>1. Len(text) \in Nat /\ DOMAIN text = 1 .. Len(text)
    BY SeenIs
  <1>2. Trim(text) = IF ink = {} THEN <<>> ELSE SubSeq(text, Min(ink), Max(ink))
    BY DEF Trim
  <1>3. ink \subseteq 0 .. Len(text) /\ ink \subseteq Nat /\ ink \subseteq 1 .. Len(text)
    BY <1>1
  <1>4. \A p \in 1 .. Len(text) : text[p] # NewLine <=> p \in ink
    BY <1>1
  <1> HIDE DEF ink
  <1>5. CASE ink = {}
    BY <1>2, <1>4, <1>5
  <1>6. CASE ink # {}
    <2>1. Min(ink) \in ink /\ \A k \in ink : Min(ink) <= k
      BY <1>3, <1>6, MinIsLeast
    <2>2. Max(ink) \in ink /\ \A k \in ink : k <= Max(ink)
      BY <1>1, <1>3, <1>6, MaxIsMost
    <2>3. /\ Min(ink) \in 1 .. Len(text) /\ Max(ink) \in 1 .. Len(text)
          /\ Min(ink) <= Max(ink) /\ Trim(text) = SubSeq(text, Min(ink), Max(ink))
      BY <1>2, <1>3, <1>6, <2>1, <2>2
    <2>4. text[Min(ink)] # NewLine
      BY <1>4, <2>1, <2>3
    <2>5. ASSUME NEW p \in 1 .. Len(text), text[p] # NewLine PROVE p \in Min(ink) .. Max(ink)
      BY <1>3, <1>4, <2>1, <2>2, <2>3, <2>5
    <2> QED BY <2>3, <2>4, <2>5
  <1> QED BY <1>5, <1>6

LEMMA TrimIsText ==
  ASSUME NEW text \in Text
  PROVE  /\ Trim(text) \in Text /\ Seen(Trim(text)) = Seen(text)
         /\ Trim(text) = <<>> <=> Seen(text) = {}
         /\ Trim(text) # <<>> => Trim(text)[1] # NewLine /\ Head(Trim(text)) = Trim(text)[1]
  <1>1. CASE Trim(text) = <<>> /\ \A p \in 1 .. Len(text) : text[p] = NewLine
    <2>1. Seen(text) = {}
      BY <1>1, SeenIs
    <2>2. <<>> \in Text /\ Seen(<<>>) = {}
      BY EmptySeq DEF Text, Seen, ToSet
    <2> QED BY <1>1, <2>1, <2>2
  <1>2. ASSUME NEW lo \in 1 .. Len(text), NEW hi \in 1 .. Len(text),
               lo <= hi, Trim(text) = SubSeq(text, lo, hi), text[lo] # NewLine,
               \A p \in 1 .. Len(text) : text[p] # NewLine => p \in lo .. hi
        PROVE  /\ Trim(text) \in Text /\ Seen(Trim(text)) = Seen(text)
               /\ Trim(text) = <<>> <=> Seen(text) = {}
               /\ Trim(text) # <<>> => Trim(text)[1] # NewLine /\ Head(Trim(text)) = Trim(text)[1]
    <2> DEFINE sub == SubSeq(text, lo, hi)
    <2>1. /\ sub \in Text /\ Len(sub) = hi - lo + 1 /\ Len(text) \in Nat
          /\ \A p \in 1 .. hi - lo + 1 : sub[p] = text[lo + p - 1]
          /\ \A c : c \in ToSet(sub) <=> \E p \in lo .. hi : text[p] = c
      <3>1. /\ Len(text) \in Nat /\ lo \in 1 .. Len(text) + 1 /\ hi \in 0 .. Len(text)
            /\ lo <= hi + 1
        BY <1>2, SeenIs
      <3> QED BY <3>1, SubTextIs
    <2> HIDE DEF sub
    <2>2. Seen(sub) = Seen(text)
      <3>1. ASSUME NEW c \in Seen(sub) PROVE c \in Seen(text)
        <4>1. c # NewLine /\ \E p \in lo .. hi : text[p] = c
          BY <2>1, <3>1 DEF Seen
        <4>2. PICK p \in lo .. hi : text[p] = c
          BY <4>1
        <4>3. p \in 1 .. Len(text)
          BY <2>1, <4>2
        <4> QED BY <4>1, <4>2, <4>3, SeenIs
      <3>2. ASSUME NEW c \in Seen(text) PROVE c \in Seen(sub)
        <4>1. PICK p \in 1 .. Len(text) : text[p] = c /\ c # NewLine
          BY <3>2, SeenIs
        <4>2. p \in lo .. hi
          BY <1>2, <4>1
        <4>3. c \in ToSet(sub)
          BY <2>1, <4>1, <4>2
        <4> QED BY <4>1, <4>3 DEF Seen
      <3> QED BY <3>1, <3>2
    <2>3. 1 \in 1 .. hi - lo + 1 /\ lo + 1 - 1 = lo
      BY <1>2, <2>1
    <2>4. sub[1] = text[lo]
      BY <2>1, <2>3
    <2>5. sub # <<>>
      <3>1. Len(sub) # 0
        BY <2>1, <2>3
      <3> QED BY <3>1, EmptySeq
    <2>6. text[lo] \in Seen(text)
      BY <1>2, SeenIs
    <2>7. Head(sub) = sub[1]
      BY <2>1, <2>5, HeadTailProperties DEF Text
    <2>8. Trim(text) = sub
      BY <1>2 DEF sub
    <2> QED BY <1>2, <2>1, <2>2, <2>4, <2>5, <2>6, <2>7, <2>8
  <1> QED BY <1>1, <1>2, TrimIs

(* A beginning within a limit.                                             *)
LEMMA BeginningIs ==
  ASSUME NEW S, NEW parts \in Seq(S), NEW sizes \in Seq(Nat), Len(sizes) = Len(parts),
         NEW limit \in Nat
  PROVE  /\ Beginning(parts, sizes, limit) \in Seq(S)
         /\ Len(Beginning(parts, sizes, limit)) \in 0 .. Len(parts)
         /\ \A k \in 1 .. Len(Beginning(parts, sizes, limit)) :
              Beginning(parts, sizes, limit)[k] = parts[k]
  <1> DEFINE within == {k \in 0 .. Len(parts) : Sums(sizes)[k] <= limit}
             m == Max(within)
             b == SubSeq(parts, 1, m)
  <1>1. Len(parts) \in Nat /\ \A k \in 1 .. Len(parts) : parts[k] \in S
    BY LenProperties, ElementOfSeq
  <1>2. 0 \in within
    BY <1>1, SumsIs
  <1>3. m \in 0 .. Len(parts)
    <2>1. within \subseteq 0 .. Len(parts)
      OBVIOUS
    <2> HIDE DEF within
    <2> QED BY <1>1, <1>2, <2>1, MaxIsMost
  <1>4. Beginning(parts, sizes, limit) = b
    BY DEF Beginning
  <1> HIDE DEF m
  <1>5. /\ b \in Seq(S) /\ Len(b) = m /\ \A i \in 1 .. m : b[i] = parts[i]
    <2>1. \A i \in 1 .. m : parts[i] \in S
      BY <1>1, <1>3
    <2>2. /\ b \in Seq(S) /\ Len(b) = (IF 1 <= m THEN m - 1 + 1 ELSE 0)
          /\ \A i \in 1 .. m - 1 + 1 : b[i] = parts[1 + i - 1]
      BY <1>3, <2>1, SubSeqProperties
    <2>3. \A i \in 1 .. m : i \in 1 .. m - 1 + 1 /\ 1 + i - 1 = i
      BY <1>3
    <2> HIDE DEF b
    <2> QED BY <1>1, <1>3, <2>2, <2>3
  <1> QED BY <1>3, <1>4, <1>5

-----------------------------------------------------------------------------
(* Line by line: types *)

Titles == [unit : Nat, marks : Nat]
Paths  == Seq(Titles)
Heads  == [level : Nat, title : Titles]
Kinds  == {"paragraph", "heading", "code", "other"}
Bodies == {"paragraph", "code"}
Segs   == {s \in [kind : Kinds, text : Text, first : Nat, last : Nat, path : Paths] :
             s.kind = "heading" => s.text # <<>>}
Lines  == Texts \cup {Plain("blank")} \cup Headings \cup Fences

LineState == [segments : Seq(Segs), lines : Seq(Text), first : Nat, headings : Seq(Heads),
              fence : {"none", "backtick", "tilde"}]

LEMMA SegmentIs ==
  ASSUME NEW kind \in Kinds, NEW text \in Text, NEW first \in Nat, NEW last \in Nat,
         NEW path \in Paths, kind = "heading" => text # <<>>
  PROVE  /\ Segment(kind, text, first, last, path) \in Segs
         /\ Segment(kind, text, first, last, path).kind = kind
         /\ Segment(kind, text, first, last, path).text = text
         /\ Segment(kind, text, first, last, path).first = first
         /\ Segment(kind, text, first, last, path).last = last
         /\ Segment(kind, text, first, last, path).path = path
  BY DEF Segment, Segs

LEMMA WidthIs == \A w \in Widths : w \in Nat
  BY ChunkingAssumption

LEMMA LineIs ==
  ASSUME NEW line \in Lines
  PROVE  /\ line.kind \in {"text", "blank", "heading", "fence"}
         /\ line.kind = "text" => line.width \in Nat
         /\ line.kind = "heading" => line.level \in 1 .. 6 /\ line.marks \in Nat
         /\ line.kind = "fence" => line.mark \in {"backtick", "tilde"}
  BY WidthIs, ChunkingAssumption DEF Lines, Texts, Plain, Headings, Fences

LEMMA LineTextIs ==
  ASSUME NEW line \in Lines, NEW i \in Nat \ {0}
  PROVE  /\ LineText(i, line) \in Text
         /\ \A c \in Seen(LineText(i, line)) : c[1] = i
         /\ line.kind = "heading" => LineText(i, line) = Word(i, 1)
         /\ line.kind = "text" => LineText(i, line) = Word(i, line.width)
  <1>1. CASE line.kind = "blank"
    <2>1. LineText(i, line) = <<>>
      BY <1>1 DEF LineText
    <2>2. <<>> \in Text /\ Seen(<<>>) = {}
      BY EmptySeq DEF Text, Seen, ToSet
    <2> QED BY <1>1, <2>1, <2>2
  <1>2. CASE line.kind = "text"
    <2>1. LineText(i, line) = Word(i, line.width) /\ line.width \in Nat
      BY <1>2, LineIs DEF LineText
    <2> QED BY <1>2, <2>1, WordIs
  <1>3. CASE line.kind \in {"heading", "fence"}
    <2>1. LineText(i, line) = Word(i, 1)
      BY <1>3 DEF LineText
    <2> QED BY <1>3, <2>1, WordIs
  <1> QED BY <1>1, <1>2, <1>3, LineIs

LEMMA HeadingPathIs ==
  ASSUME NEW headings \in Seq(Heads)
  PROVE  /\ HeadingPath(headings) \in Paths /\ Len(HeadingPath(headings)) = Len(headings)
         /\ \A k \in 1 .. Len(headings) : HeadingPath(headings)[k] = headings[k].title
  <1> DEFINE of(k) == headings[k].title
             path == [k \in 1 .. Len(headings) |-> of(k)]
  <1>1. /\ Len(headings) \in Nat /\ DOMAIN headings = 1 .. Len(headings)
        /\ \A k \in 1 .. Len(headings) : of(k) \in Titles
    <2>1. \A k \in 1 .. Len(headings) : headings[k] \in Heads
      BY ElementOfSeq
    <2>2. \A k \in 1 .. Len(headings) : headings[k].title \in Titles
      BY <2>1 DEF Heads
    <2> QED BY <2>2, LenProperties
  <1>2. HeadingPath(headings) = path
    BY <1>1 DEF HeadingPath
  <1> HIDE DEF of
  <1>3. path \in Seq(Titles) /\ DOMAIN path = 1 .. Len(headings)
    BY <1>1, IsASeq
  <1>4. \A k \in 1 .. Len(headings) : path[k] = of(k)
    OBVIOUS
  <1> HIDE DEF path
  <1>5. Len(path) = Len(headings)
    BY <1>1, <1>3, LenProperties
  <1> QED BY <1>2, <1>3, <1>4, <1>5 DEF Paths, of

(* What a list has at some places.                                         *)
LEMMA KeptGoes ==
  ASSUME NEW S, NEW list \in Seq(S), NEW places
  PROVE  LET kept == KeptSoFar(list, places)
         IN  /\ kept \in [0 .. Len(list) -> Seq(S)]
             /\ kept[0] = <<>>
             /\ \A k \in 1 .. Len(list) :
                  kept[k] = IF k \in places THEN Append(kept[k - 1], list[k]) ELSE kept[k - 1]
             /\ Kept(list, places) = kept[Len(list)]
             /\ Kept(list, places) \in Seq(S)
  <1> DEFINE n == Len(list)
             step(s, k) == IF k \in places THEN Append(s, list[k]) ELSE s
             F == [k \in 1 .. n |-> [s \in Seq(S) |-> step(s, k)]]
             Is(h) == h = [k \in 0 .. n |-> IF k = 0 THEN <<>> ELSE step(h[k - 1], k)]
             kept == CHOOSE h : Is(h)
  <1>1. n \in Nat /\ \A k \in 1 .. n : list[k] \in S
    BY LenProperties, ElementOfSeq
  <1>2. KeptSoFar(list, places) = kept
    BY DEF KeptSoFar, Loop
  <1>3. Kept(list, places) = kept[n]
    BY DEF Kept, KeptSoFar, Loop
  <1> HIDE DEF n
  <1>4. F \in [1 .. n -> [Seq(S) -> Seq(S)]]
    <2>1. \A k \in 1 .. n : \A s \in Seq(S) : step(s, k) \in Seq(S)
      BY <1>1, AppendProperties
    <2> HIDE DEF step
    <2> QED BY <2>1
  <1>5. PICK h : Runs(h, Seq(S), <<>>, F, n)
    <2>1. <<>> \in Seq(S)
      BY EmptySeq
    <2> HIDE DEF F
    <2> QED BY <1>1, <1>4, <2>1, LoopGoes
  <1> HIDE DEF step
  <1>6. Is(h)
    <2>1. \A k \in 0 .. n : k # 0 => F[k][h[k - 1]] = step(h[k - 1], k)
      BY <1>1, <1>5 DEF Runs
    <2> QED BY <1>5, <2>1 DEF Goes, Runs
  <1>7. Is(kept)
    BY <1>6
  <1> HIDE DEF kept
  <1>8. kept[0] = <<>> /\ \A k \in 1 .. n : kept[k] = step(kept[k - 1], k)
    BY <1>1, <1>7
  <1> DEFINE G == {k \in 0 .. n : kept[k] \in Seq(S)}
  <1>9. \A k \in 0 .. n : k \in G
    <2>0. <<>> \in Seq(S) /\ 0 \in 0 .. n
      BY <1>1, EmptySeq
    <2>1. 0 \in G
      BY <1>8, <2>0
    <2>2. ASSUME NEW k \in 1 .. n, k - 1 \in G PROVE k \in G
      <3>1. kept[k - 1] \in Seq(S) /\ kept[k] = step(kept[k - 1], k) /\ k \in 0 .. n
        BY <1>1, <1>8, <2>2
      <3>2. step(kept[k - 1], k) \in Seq(S)
        BY <1>1, <3>1, AppendProperties DEF step
      <3> QED BY <3>1, <3>2
    <2> HIDE DEF G
    <2> QED BY <1>1, <2>1, <2>2, UpTo
  <1>10. kept \in [0 .. n -> Seq(S)] /\ kept[n] \in Seq(S)
    <2>1. n \in 0 .. n
      BY <1>1
    <2> QED BY <1>7, <1>9, <2>1
  <1> QED BY <1>2, <1>3, <1>8, <1>10 DEF n, step

LEMMA StackedIs ==
  ASSUME NEW headings \in Seq(Heads), NEW h \in Heads
  PROVE  Stacked(headings, h) \in Seq(Heads)
  BY KeptGoes, AppendProperties DEF Stacked

(* What a state becomes, field by field.                                   *)
LEMMA CloseIs ==
  ASSUME NEW s \in LineState, NEW kind \in Bodies, NEW last \in Nat
  PROVE  LET t == Close(s, kind, last)
             segment == Segment(kind, Join(s.lines), s.first, last, HeadingPath(s.headings))
         IN  /\ t \in LineState /\ segment \in Segs
             /\ t.segments = Append(s.segments, segment)
             /\ t.lines = <<>> /\ t.fence = "none"
             /\ t.first = s.first /\ t.headings = s.headings
  <1> DEFINE segment == Segment(kind, Join(s.lines), s.first, last, HeadingPath(s.headings))
  <1>1. /\ s.segments \in Seq(Segs) /\ s.lines \in Seq(Text) /\ s.first \in Nat
        /\ s.headings \in Seq(Heads)
    BY DEF LineState
  <1>2. segment \in Segs
    <2>1. kind \in Kinds /\ kind # "heading"
      BY DEF Kinds, Bodies
    <2> QED BY <1>1, <2>1, JoinIs, HeadingPathIs, SegmentIs
  <1>3. Close(s, kind, last) = [s EXCEPT !.segments = Append(@, segment), !.lines = <<>>,
                                         !.fence = "none"]
    BY DEF Close
  <1> HIDE DEF segment
  <1>4. Append(s.segments, segment) \in Seq(Segs) /\ <<>> \in Seq(Text)
    BY <1>1, <1>2, AppendProperties, EmptySeq
  <1> QED BY <1>1, <1>2, <1>3, <1>4 DEF LineState, segment

LEMMA FlushIs ==
  ASSUME NEW s \in LineState, NEW last \in Nat
  PROVE  /\ s.lines = <<>> => FlushParagraph(s, last) = s
         /\ s.lines # <<>> => FlushParagraph(s, last) = Close(s, "paragraph", last)
         /\ FlushParagraph(s, last) \in LineState
         /\ FlushParagraph(s, last).lines = <<>>
         /\ FlushParagraph(s, last).headings = s.headings
         /\ s.fence = "none" => FlushParagraph(s, last).fence = "none"
  <1>1. CASE s.lines = <<>>
    BY <1>1 DEF FlushParagraph
  <1>2. CASE s.lines # <<>>
    <2>1. FlushParagraph(s, last) = Close(s, "paragraph", last) /\ "paragraph" \in Bodies
      BY <1>2 DEF FlushParagraph, Bodies
    <2> QED BY <1>2, <2>1, CloseIs
  <1> QED BY <1>1, <1>2

LEMMA AddLineIs ==
  ASSUME NEW s \in LineState, NEW i \in Nat \ {0}, NEW line \in Lines
  PROVE  LET t == AddLine(s, i, line)
         IN  /\ t \in LineState /\ t.segments = s.segments /\ t.headings = s.headings
             /\ t.fence = s.fence /\ t.lines = Append(s.lines, LineText(i, line))
             /\ t.first = IF s.lines = <<>> THEN i ELSE s.first
  <1>1. s.lines \in Seq(Text) /\ LineText(i, line) \in Text
    BY LineTextIs DEF LineState
  <1>2. Append(s.lines, LineText(i, line)) \in Seq(Text)
    BY <1>1, AppendProperties
  <1> QED BY <1>2 DEF AddLine, LineState

LEMMA AddHeadingIs ==
  ASSUME NEW s \in LineState, NEW i \in Nat \ {0}, NEW line \in Lines, line.kind = "heading"
  PROVE  LET t == AddHeading(s, i, line)
             f == FlushParagraph(s, i - 1)
             title == [unit |-> i, marks |-> line.marks]
             under == Stacked(s.headings, [level |-> line.level, title |-> title])
             segment == Segment("heading", Word(i, 1), i, i, HeadingPath(under))
         IN  /\ t \in LineState /\ segment \in Segs
             /\ under \in Seq(Heads)
             /\ t.segments = Append(f.segments, segment)
             /\ t.headings = under /\ t.fence = f.fence /\ t.lines = f.lines
             /\ t.first = f.first
  <1> DEFINE f == FlushParagraph(s, i - 1)
             h == [level |-> line.level, title |-> [unit |-> i, marks |-> line.marks]]
             under == Stacked(s.headings, h)
             segment == Segment("heading", LineText(i, line), i, i, HeadingPath(under))
  <1>1. f \in LineState
    BY FlushIs
  <1>2. h \in Heads
    BY LineIs DEF Heads, Titles
  <1>3. under \in Seq(Heads)
    <2>1. s.headings \in Seq(Heads)
      BY DEF LineState
    <2> HIDE DEF h
    <2> QED BY <1>2, <2>1, StackedIs
  <1>4. segment \in Segs /\ LineText(i, line) = Word(i, 1)
    <2> HIDE DEF under
    <2>1. HeadingPath(under) \in Paths /\ LineText(i, line) \in Text /\ "heading" \in Kinds
      BY <1>3, HeadingPathIs, LineTextIs DEF Kinds
    <2>2. LineText(i, line) = Word(i, 1) /\ Word(i, 1) # <<>>
      BY LineTextIs, OneLetter
    <2> QED BY <2>1, <2>2, SegmentIs
  <1>5. AddHeading(s, i, line) = [f EXCEPT !.headings = under, !.segments = Append(@, segment)]
    BY DEF AddHeading
  <1>6. Append(f.segments, segment) \in Seq(Segs)
    <2>1. f.segments \in Seq(Segs)
      BY <1>1 DEF LineState
    <2> HIDE DEF f, segment
    <2> QED BY <1>4, <2>1, AppendProperties
  <1> DEFINE t == AddHeading(s, i, line)
  <1>7. /\ t \in LineState /\ t.segments = Append(f.segments, segment)
        /\ t.headings = under /\ t.fence = f.fence /\ t.lines = f.lines /\ t.first = f.first
    <2> HIDE DEF f, segment, under
    <2> QED BY <1>1, <1>3, <1>4, <1>5, <1>6 DEF LineState
  <1> QED BY <1>3, <1>4, <1>7

LEMMA OpenFenceIs ==
  ASSUME NEW s \in LineState, NEW i \in Nat \ {0}, NEW line \in Lines, line.kind = "fence"
  PROVE  LET t == OpenFence(s, i, line)
             f == FlushParagraph(s, i - 1)
         IN  /\ t \in LineState /\ t.segments = f.segments /\ t.headings = s.headings
             /\ t.fence = line.mark /\ t.fence # "none" /\ t.lines = <<>> /\ t.first = i
  <1> DEFINE f == FlushParagraph(s, i - 1)
  <1>1. f \in LineState /\ f.headings = s.headings
    BY FlushIs
  <1>2. OpenFence(s, i, line) = [f EXCEPT !.fence = line.mark, !.first = i, !.lines = <<>>]
    BY DEF OpenFence
  <1>3. line.mark \in {"backtick", "tilde"} /\ <<>> \in Seq(Text)
    BY LineIs, EmptySeq
  <1> HIDE DEF f
  <1> QED BY <1>1, <1>2, <1>3 DEF LineState, f

LEMMA InFenceIs ==
  ASSUME NEW s \in LineState, NEW i \in Nat \ {0}, NEW line \in Lines
  PROVE  LET t == [s EXCEPT !.lines = Append(@, LineText(i, line))]
         IN  /\ t \in LineState /\ t.segments = s.segments /\ t.headings = s.headings
             /\ t.fence = s.fence /\ t.lines = Append(s.lines, LineText(i, line))
             /\ t.first = s.first
  <1>1. s.lines \in Seq(Text) /\ LineText(i, line) \in Text
    BY LineTextIs DEF LineState
  <1>2. Append(s.lines, LineText(i, line)) \in Seq(Text)
    BY <1>1, AppendProperties
  <1> QED BY <1>2 DEF LineState

LEMMA ReadLineIs ==
  ASSUME NEW s \in LineState, NEW i \in Nat \ {0}, NEW line \in Lines
  PROVE  LET t == ReadLine(s, i, line)
         IN  /\ t \in LineState
             /\ \/ s.fence # "none" /\ line.kind = "fence" /\ t = Close(s, "code", i)
                \/ s.fence # "none" /\ t = [s EXCEPT !.lines = Append(@, LineText(i, line))]
                \/ s.fence = "none" /\ line.kind = "heading" /\ t = AddHeading(s, i, line)
                \/ s.fence = "none" /\ line.kind = "fence" /\ t = OpenFence(s, i, line)
                \/ s.fence = "none" /\ line.kind = "blank" /\ t = FlushParagraph(s, i - 1)
                \/ s.fence = "none" /\ line.kind = "text" /\ t = AddLine(s, i, line)
  <1>1. CASE s.fence # "none"
    <2>1. CASE line.kind = "fence" /\ line.mark = s.fence
      <3>1. ReadLine(s, i, line) = Close(s, "code", i) /\ "code" \in Bodies
        BY <1>1, <2>1 DEF ReadLine, CloseFence, Bodies
      <3> QED BY <1>1, <2>1, <3>1, CloseIs
    <2>2. CASE ~(line.kind = "fence" /\ line.mark = s.fence)
      <3>1. ReadLine(s, i, line) = [s EXCEPT !.lines = Append(@, LineText(i, line))]
        BY <1>1, <2>2 DEF ReadLine
      <3> QED BY <1>1, <3>1, InFenceIs
    <2> QED BY <2>1, <2>2
  <1>2. CASE s.fence = "none" /\ line.kind = "heading"
    <2>1. ReadLine(s, i, line) = AddHeading(s, i, line)
      BY <1>2 DEF ReadLine
    <2> QED BY <1>2, <2>1, AddHeadingIs
  <1>3. CASE s.fence = "none" /\ line.kind = "fence"
    <2>1. ReadLine(s, i, line) = OpenFence(s, i, line)
      BY <1>3 DEF ReadLine
    <2> QED BY <1>3, <2>1, OpenFenceIs
  <1>4. CASE s.fence = "none" /\ line.kind = "blank"
    <2>1. ReadLine(s, i, line) = FlushParagraph(s, i - 1)
      BY <1>4 DEF ReadLine
    <2> QED BY <1>4, <2>1, FlushIs
  <1>5. CASE s.fence = "none" /\ line.kind = "text"
    <2>1. ReadLine(s, i, line) = AddLine(s, i, line)
      BY <1>5 DEF ReadLine
    <2> QED BY <1>5, <2>1, AddLineIs
  <1> QED BY <1>1, <1>2, <1>3, <1>4, <1>5, LineIs

-----------------------------------------------------------------------------
(* Line by line: what is held, and where                                   *)

Shown(parts)  == UNION {Seen(parts[k].text) : k \in DOMAIN parts}
Pending(list) == UNION {Seen(list[k]) : k \in DOMAIN list}

(* Segments one after the other, the last of them not after m.             *)
Parted(segments, m) ==
  \A j \in 1 .. Len(segments) :
    /\ 1 <= segments[j].first /\ segments[j].first <= segments[j].last
    /\ segments[j].last <= m
    /\ \A l \in 1 .. Len(segments) : l < j => segments[l].last < segments[j].first

LEMMA ShownAppend ==
  ASSUME NEW S, NEW parts \in Seq(S), NEW e \in S
  PROVE  Shown(Append(parts, e)) = Shown(parts) \cup Seen(e.text)
  <1> DEFINE new == Append(parts, e)
             n == Len(parts)
  <1>1. /\ n \in Nat /\ DOMAIN parts = 1 .. n /\ DOMAIN new = 1 .. n + 1
        /\ \A k \in 1 .. n : new[k] = parts[k]
        /\ new[n + 1] = e
    <2>1. new \in Seq(S) /\ Len(new) = n + 1 /\ new[n + 1] = e /\ \A k \in 1 .. n : new[k] = parts[k]
      BY AppendIs
    <2>2. n \in Nat /\ DOMAIN parts = 1 .. n
      BY LenProperties
    <2> HIDE DEF new, n
    <2>3. DOMAIN new = 1 .. n + 1
      BY <2>1, LenProperties
    <2> QED BY <2>1, <2>2, <2>3
  <1> HIDE DEF new, n
  <1>2. \A k \in 1 .. n + 1 : k \in 1 .. n \/ k = n + 1
    BY <1>1
  <1>3. \A k \in 1 .. n : k \in 1 .. n + 1
    BY <1>1
  <1>4. n + 1 \in 1 .. n + 1
    BY <1>1
  <1>5. ASSUME NEW c \in Shown(new) PROVE c \in Shown(parts) \cup Seen(e.text)
    <2>1. PICK k \in 1 .. n + 1 : c \in Seen(new[k].text)
      BY <1>1, <1>5 DEF Shown
    <2> QED BY <1>1, <1>2, <2>1 DEF Shown
  <1>6. ASSUME NEW c \in Shown(parts) PROVE c \in Shown(new)
    <2>1. PICK k \in 1 .. n : c \in Seen(parts[k].text)
      BY <1>1, <1>6 DEF Shown
    <2> QED BY <1>1, <1>3, <2>1 DEF Shown
  <1>7. ASSUME NEW c \in Seen(e.text) PROVE c \in Shown(new)
    BY <1>1, <1>4, <1>7 DEF Shown
  <1> QED BY <1>5, <1>6, <1>7 DEF new

LEMMA PendingAppend ==
  ASSUME NEW list \in Seq(Text), NEW t \in Text
  PROVE  Pending(list) \subseteq Pending(Append(list, t)) /\ Seen(t) \subseteq Pending(Append(list, t))
  <1> DEFINE new == Append(list, t)
             n == Len(list)
  <1>1. new \in Seq(Text) /\ Len(new) = n + 1 /\ new[n + 1] = t /\ \A k \in 1 .. n : new[k] = list[k]
    BY AppendIs
  <1>2. n \in Nat /\ DOMAIN list = 1 .. n
    BY LenProperties
  <1> HIDE DEF new, n
  <1>3. DOMAIN new = 1 .. n + 1
    BY <1>1, LenProperties
  <1>4. \A k \in 1 .. n : k \in 1 .. n + 1
    BY <1>2
  <1>5. n + 1 \in 1 .. n + 1
    BY <1>2
  <1>6. ASSUME NEW c \in Pending(list) PROVE c \in Pending(new)
    <2>1. PICK k \in 1 .. n : c \in Seen(list[k])
      BY <1>2, <1>6 DEF Pending
    <2> QED BY <1>1, <1>3, <1>4, <2>1 DEF Pending
  <1>7. ASSUME NEW c \in Seen(t) PROVE c \in Pending(new)
    BY <1>1, <1>3, <1>5, <1>7 DEF Pending
  <1> QED BY <1>6, <1>7 DEF new

LEMMA PartedAppend ==
  ASSUME NEW segments \in Seq(Segs), NEW e \in Segs, NEW m \in Nat, Parted(segments, m),
         m < e.first, e.first <= e.last
  PROVE  Parted(Append(segments, e), e.last)
  <1> DEFINE new == Append(segments, e)
             n == Len(segments)
  <1>1. new \in Seq(Segs) /\ Len(new) = n + 1 /\ new[n + 1] = e
        /\ \A k \in 1 .. n : new[k] = segments[k]
    BY AppendIs
  <1>2. n \in Nat /\ \A k \in 1 .. n : segments[k] \in Segs
    BY LenProperties, ElementOfSeq
  <1>3. \A k \in 1 .. n : segments[k].first \in Nat /\ segments[k].last \in Nat
    BY <1>2 DEF Segs
  <1>4. e.first \in Nat /\ e.last \in Nat
    BY DEF Segs
  <1> HIDE DEF new
  <1>5. ASSUME NEW j \in 1 .. n + 1
        PROVE  /\ 1 <= new[j].first /\ new[j].first <= new[j].last /\ new[j].last <= e.last
               /\ \A l \in 1 .. n + 1 : l < j => new[l].last < new[j].first
    <2>1. CASE j = n + 1
      <3>1. new[j] = e
        BY <1>1, <2>1
      <3>2. ASSUME NEW l \in 1 .. n + 1, l < j PROVE new[l].last < e.first
        <4>1. l \in 1 .. n
          BY <1>2, <2>1, <3>2
        <4>2. segments[l].last <= m /\ new[l] = segments[l] /\ segments[l].last \in Nat
          BY <1>1, <1>3, <4>1 DEF Parted
        <4> QED BY <1>4, <4>2
      <3> QED BY <1>4, <3>1, <3>2
    <2>2. CASE j # n + 1
      <3>1. j \in 1 .. n
        BY <1>2, <2>2
      <3>2. new[j] = segments[j]
        BY <1>1, <3>1
      <3>3. /\ 1 <= segments[j].first /\ segments[j].first <= segments[j].last
            /\ segments[j].last <= m
        BY <3>1 DEF Parted
      <3>4. ASSUME NEW l \in 1 .. n + 1, l < j PROVE new[l].last < segments[j].first
        <4>1. l \in 1 .. n
          BY <1>2, <3>1, <3>4
        <4>2. segments[l].last < segments[j].first /\ new[l] = segments[l]
          BY <1>1, <3>1, <3>4, <4>1 DEF Parted
        <4> QED BY <4>2
      <3>5. segments[j].last <= e.last
        <4>1. segments[j].last \in Nat
          BY <1>3, <3>1
        <4> QED BY <1>4, <3>3, <4>1
      <3> QED BY <3>2, <3>3, <3>4, <3>5
    <2> QED BY <2>1, <2>2
  <1> QED BY <1>1, <1>5 DEF Parted, new

LEMMA PartedMore ==
  ASSUME NEW segments \in Seq(Segs), NEW m \in Nat, NEW k \in Nat, m <= k, Parted(segments, m)
  PROVE  Parted(segments, k)
  <1>1. \A j \in 1 .. Len(segments) : segments[j].last \in Nat
    <2>1. \A j \in 1 .. Len(segments) : segments[j] \in Segs
      BY ElementOfSeq
    <2> QED BY <2>1 DEF Segs
  <1>2. \A j \in 1 .. Len(segments) : segments[j].last <= m
    BY DEF Parted
  <1>3. \A j \in 1 .. Len(segments) : segments[j].last <= k
    BY <1>1, <1>2
  <1> QED BY <1>3 DEF Parted

(* The lines of a file are read one after the other.                       *)
LineStart == [segments |-> <<>>, lines |-> <<>>, first |-> 0, headings |-> <<>>, fence |-> "none"]

LEMMA LinesGo ==
  ASSUME NEW lines \in Seq(Lines)
  PROVE  /\ LinesRead(lines) \in [0 .. Len(lines) -> LineState]
         /\ LinesRead(lines)[0] = LineStart
         /\ \A k \in 1 .. Len(lines) :
              LinesRead(lines)[k] = ReadLine(LinesRead(lines)[k - 1], k, lines[k])
  <1> DEFINE n == Len(lines)
             step(s, k) == ReadLine(s, k, lines[k])
             F == [k \in 1 .. n |-> [s \in LineState |-> step(s, k)]]
             Is(h) == h = [k \in 0 .. n |-> IF k = 0 THEN LineStart ELSE step(h[k - 1], k)]
             read == CHOOSE h : Is(h)
  <1>1. n \in Nat /\ \A k \in 1 .. n : lines[k] \in Lines
    BY LenProperties, ElementOfSeq
  <1>2. LinesRead(lines) = read
    BY DEF LinesRead, Loop, LineStart
  <1> HIDE DEF n
  <1>3. LineStart \in LineState
    BY EmptySeq DEF LineStart, LineState
  <1>4. \A k \in 1 .. n : \A s \in LineState : step(s, k) \in LineState
    BY <1>1, ReadLineIs
  <1> HIDE DEF step
  <1>5. F \in [1 .. n -> [LineState -> LineState]]
    BY <1>4
  <1>6. PICK h : Runs(h, LineState, LineStart, F, n)
    <2> HIDE DEF F
    <2> QED BY <1>1, <1>3, <1>5, LoopGoes
  <1>7. Is(h)
    <2>1. \A k \in 0 .. n : k # 0 => F[k][h[k - 1]] = step(h[k - 1], k)
      BY <1>1, <1>6 DEF Runs
    <2> QED BY <1>6, <2>1 DEF Goes, Runs
  <1>8. Is(read)
    BY <1>7
  <1> HIDE DEF read
  <1>9. read[0] = LineStart /\ \A k \in 1 .. n : read[k] = step(read[k - 1], k)
    BY <1>1, <1>8
  <1> DEFINE G == {k \in 0 .. n : read[k] \in LineState}
  <1>10. \A k \in 0 .. n : k \in G
    <2>1. 0 \in G
      BY <1>1, <1>3, <1>9
    <2>2. ASSUME NEW k \in 1 .. n, k - 1 \in G PROVE k \in G
      BY <1>1, <1>4, <1>9, <2>2
    <2> HIDE DEF G
    <2> QED BY <1>1, <2>1, <2>2, UpTo
  <1>11. read \in [0 .. n -> LineState]
    BY <1>8, <1>10
  <1> QED BY <1>2, <1>9, <1>11 DEF n, step

(* A line is a letter's; the other ones only tell where the letters go.    *)
Lettered(line) == line.kind \in {"text", "heading"}

Opened(s) == s.lines # <<>> \/ s.fence # "none"

LineHeld(s, k, lines) ==
  /\ s \in LineState
  /\ Opened(s) => s.first \in 1 .. k
  /\ Parted(s.segments, IF Opened(s) THEN s.first - 1 ELSE k)
  /\ \A i \in 1 .. k : Lettered(lines[i]) =>
       Seen(LineText(i, lines[i])) \subseteq Shown(s.segments) \cup Pending(s.lines)

Settled(segments, k, last, lines) ==
  /\ segments \in Seq(Segs) /\ Parted(segments, last)
  /\ \A i \in 1 .. k : Lettered(lines[i]) => Seen(LineText(i, lines[i])) \subseteq Shown(segments)

LEMMA CloseSettles ==
  ASSUME NEW s, NEW k \in Nat, NEW lines, LineHeld(s, k, lines), Opened(s),
         NEW kind \in Bodies, NEW last \in Nat, k <= last
  PROVE  Settled(Close(s, kind, last).segments, k, last, lines)
  <1> DEFINE e == Segment(kind, Join(s.lines), s.first, last, HeadingPath(s.headings))
             t == Close(s, kind, last)
  <1>1. /\ s \in LineState /\ s.segments \in Seq(Segs) /\ s.lines \in Seq(Text)
        /\ s.headings \in Seq(Heads) /\ s.first \in 1 .. k
    BY DEF LineHeld, LineState
  <1>2. t \in LineState /\ e \in Segs /\ t.segments = Append(s.segments, e)
    BY <1>1, CloseIs
  <1>3. e.text = Join(s.lines) /\ e.first = s.first /\ e.last = last
    BY DEF Segment
  <1> HIDE DEF e, t
  <1>4. Pending(s.lines) = Seen(e.text)
    <2>1. DOMAIN s.lines = 1 .. Len(s.lines)
      BY <1>1, LenProperties
    <2> QED BY <1>1, <1>3, <2>1, JoinIs DEF Pending
  <1>5. Shown(t.segments) = Shown(s.segments) \cup Pending(s.lines)
    BY <1>1, <1>2, <1>4, ShownAppend
  <1>6. Parted(t.segments, last)
    <2>1. Parted(s.segments, s.first - 1) /\ s.first - 1 \in Nat /\ s.first - 1 < e.first
      BY <1>1, <1>3 DEF LineHeld
    <2>2. e.first <= e.last
      BY <1>1, <1>3
    <2> QED BY <1>1, <1>2, <1>3, <2>1, <2>2, PartedAppend
  <1>7. t.segments \in Seq(Segs)
    BY <1>2 DEF LineState
  <1>8. \A i \in 1 .. k : Lettered(lines[i]) => Seen(LineText(i, lines[i])) \subseteq Shown(t.segments)
    BY <1>5 DEF LineHeld
  <1> QED BY <1>6, <1>7, <1>8 DEF Settled, t

LEMMA FlushSettles ==
  ASSUME NEW s, NEW k \in Nat, NEW lines, LineHeld(s, k, lines), s.fence = "none"
  PROVE  Settled(FlushParagraph(s, k).segments, k, k, lines)
  <1>1. s \in LineState
    BY DEF LineHeld
  <1>2. CASE s.lines = <<>>
    <2>1. FlushParagraph(s, k) = s
      BY <1>1, <1>2, FlushIs
    <2>2. Pending(s.lines) = {}
      BY <1>2 DEF Pending
    <2>3. s.segments \in Seq(Segs) /\ ~Opened(s)
      BY <1>1, <1>2 DEF LineState, Opened
    <2> QED BY <2>1, <2>2, <2>3 DEF Settled, LineHeld
  <1>3. CASE s.lines # <<>>
    <2>1. FlushParagraph(s, k) = Close(s, "paragraph", k)
      BY <1>1, <1>3, FlushIs
    <2>2. Opened(s) /\ "paragraph" \in Bodies
      BY <1>3 DEF Opened, Bodies
    <2> QED BY <2>1, <2>2, CloseSettles
  <1> QED BY <1>2, <1>3

LEMMA ReadLineHolds ==
  ASSUME NEW lines \in Seq(Lines), NEW k \in 1 .. Len(lines), NEW s, LineHeld(s, k - 1, lines)
  PROVE  LineHeld(ReadLine(s, k, lines[k]), k, lines)
  <1> DEFINE line == lines[k]
             t == ReadLine(s, k, line)
             f == FlushParagraph(s, k - 1)
             own == Seen(LineText(k, line))
  <1>1. /\ k \in Nat \ {0} /\ k - 1 \in Nat /\ line \in Lines /\ s \in LineState
        /\ LineText(k, line) \in Text /\ "paragraph" \in Bodies /\ "code" \in Bodies
    BY LenProperties, ElementOfSeq, LineTextIs DEF LineHeld, Bodies
  <1>2. t \in LineState
    BY <1>1, ReadLineIs
  <1>3. \A i \in 1 .. k : i \in 1 .. k - 1 \/ i = k
    BY <1>1
  <1>4. s.segments \in Seq(Segs) /\ s.lines \in Seq(Text) /\ s.first \in Nat
    BY <1>1 DEF LineState
  <1>5. SUFFICES /\ Opened(t) => t.first \in 1 .. k
                 /\ Parted(t.segments, IF Opened(t) THEN t.first - 1 ELSE k)
                 /\ \A i \in 1 .. k : Lettered(lines[i]) =>
                      Seen(LineText(i, lines[i])) \subseteq Shown(t.segments) \cup Pending(t.lines)
    BY <1>2 DEF LineHeld
  <1> HIDE DEF t
  <1>6. CASE s.fence # "none" /\ line.kind = "fence" /\ t = Close(s, "code", k)
    <2>1. Settled(t.segments, k - 1, k, lines)
      <3>1. Opened(s) /\ k - 1 <= k
        BY <1>1, <1>6 DEF Opened
      <3> QED BY <1>1, <1>6, <3>1, CloseSettles
    <2>2. ~Opened(t)
      BY <1>1, <1>6, CloseIs DEF Opened
    <2>3. ~Lettered(line)
      BY <1>6 DEF Lettered
    <2> QED BY <1>3, <2>1, <2>2, <2>3 DEF Settled
  <1>7. CASE s.fence # "none" /\ t = [s EXCEPT !.lines = Append(@, LineText(k, line))]
    <2>1. /\ t.segments = s.segments /\ t.fence = s.fence /\ t.first = s.first
          /\ t.lines = Append(s.lines, LineText(k, line))
      <3> HIDE DEF line
      <3> QED BY <1>1, <1>7, InFenceIs
    <2>2. Opened(s) /\ Opened(t)
      BY <1>7, <2>1 DEF Opened
    <2>3. s.first \in 1 .. k - 1 /\ Parted(s.segments, s.first - 1)
      BY <2>2 DEF LineHeld
    <2>4. Pending(s.lines) \subseteq Pending(t.lines) /\ own \subseteq Pending(t.lines)
      BY <1>1, <1>4, <2>1, PendingAppend
    <2>5. ASSUME NEW i \in 1 .. k, Lettered(lines[i])
          PROVE  Seen(LineText(i, lines[i])) \subseteq Shown(t.segments) \cup Pending(t.lines)
      BY <1>3, <2>1, <2>4, <2>5 DEF LineHeld
    <2>6. s.first \in 1 .. k
      BY <1>1, <2>3
    <2> QED BY <2>1, <2>2, <2>3, <2>5, <2>6
  <1>8. CASE s.fence = "none" /\ line.kind = "heading" /\ t = AddHeading(s, k, line)
    <2>1. PICK e \in Segs : /\ t.segments = Append(f.segments, e) /\ e.first = k /\ e.last = k
                            /\ e.text = LineText(k, line) /\ t.lines = <<>> /\ t.fence = "none"
      <3> DEFINE title == [unit |-> k, marks |-> line.marks]
                 under == Stacked(s.headings, [level |-> line.level, title |-> title])
                 e == Segment("heading", Word(k, 1), k, k, HeadingPath(under))
      <3>1. e \in Segs /\ t.segments = Append(f.segments, e) /\ t.lines = f.lines /\ t.fence = f.fence
        BY <1>1, <1>8, AddHeadingIs
      <3>2. e.first = k /\ e.last = k /\ e.text = Word(k, 1)
        BY DEF Segment
      <3>3. f.lines = <<>> /\ f.fence = "none"
        BY <1>1, <1>8, FlushIs
      <3>4. LineText(k, line) = Word(k, 1)
        BY <1>1, <1>8, LineTextIs
      <3> HIDE DEF e, f
      <3> QED BY <3>1, <3>2, <3>3, <3>4
    <2>2. Settled(f.segments, k - 1, k - 1, lines)
      BY <1>1, <1>8, FlushSettles
    <2> HIDE DEF f
    <2>3. f.segments \in Seq(Segs) /\ Parted(f.segments, k - 1)
      BY <2>2 DEF Settled
    <2>4. Parted(t.segments, k)
      <3>1. k - 1 < e.first /\ e.first <= e.last
        BY <1>1, <2>1
      <3> QED BY <1>1, <2>1, <2>3, <3>1, PartedAppend
    <2>5. Shown(t.segments) = Shown(f.segments) \cup own
      BY <2>1, <2>3, ShownAppend
    <2>6. ~Opened(t)
      BY <2>1 DEF Opened
    <2>7. ASSUME NEW i \in 1 .. k, Lettered(lines[i])
          PROVE  Seen(LineText(i, lines[i])) \subseteq Shown(t.segments) \cup Pending(t.lines)
      BY <1>3, <2>2, <2>5, <2>7 DEF Settled
    <2> QED BY <2>4, <2>6, <2>7
  <1>9. CASE s.fence = "none" /\ line.kind = "fence" /\ t = OpenFence(s, k, line)
    <2>1. t.segments = f.segments /\ t.fence # "none" /\ t.first = k
      BY <1>1, <1>9, OpenFenceIs
    <2>2. Settled(f.segments, k - 1, k - 1, lines)
      BY <1>1, <1>9, FlushSettles
    <2>3. Opened(t) /\ ~Lettered(line)
      BY <1>9, <2>1 DEF Opened, Lettered
    <2> HIDE DEF f
    <2>4. k \in 1 .. k
      BY <1>1
    <2>5. ASSUME NEW i \in 1 .. k, Lettered(lines[i])
          PROVE  Seen(LineText(i, lines[i])) \subseteq Shown(t.segments) \cup Pending(t.lines)
      BY <1>3, <2>1, <2>2, <2>3, <2>5 DEF Settled
    <2> QED BY <2>1, <2>2, <2>3, <2>4, <2>5 DEF Settled
  <1>10. CASE s.fence = "none" /\ line.kind = "blank" /\ t = FlushParagraph(s, k - 1)
    <2>1. Settled(t.segments, k - 1, k - 1, lines)
      BY <1>1, <1>10, FlushSettles
    <2>2. ~Opened(t) /\ ~Lettered(line)
      BY <1>1, <1>10, FlushIs DEF Opened, Lettered
    <2>3. Parted(t.segments, k)
      <3>1. t.segments \in Seq(Segs) /\ Parted(t.segments, k - 1) /\ k - 1 <= k
        BY <1>1, <2>1 DEF Settled
      <3> QED BY <1>1, <3>1, PartedMore
    <2>4. ASSUME NEW i \in 1 .. k, Lettered(lines[i])
          PROVE  Seen(LineText(i, lines[i])) \subseteq Shown(t.segments) \cup Pending(t.lines)
      BY <1>3, <2>1, <2>2, <2>4 DEF Settled
    <2> QED BY <2>2, <2>3, <2>4
  <1>11. CASE s.fence = "none" /\ line.kind = "text" /\ t = AddLine(s, k, line)
    <2>1. /\ t.segments = s.segments /\ t.fence = s.fence
          /\ t.lines = Append(s.lines, LineText(k, line))
          /\ t.first = IF s.lines = <<>> THEN k ELSE s.first
      <3> HIDE DEF line
      <3> QED BY <1>1, <1>11, AddLineIs
    <2>2. Opened(t)
      BY <1>1, <1>4, <2>1, AppendIs DEF Opened
    <2>3. t.first \in 1 .. k /\ Parted(t.segments, t.first - 1)
      <3>1. CASE s.lines = <<>>
        <4>1. ~Opened(s) /\ t.first = k
          BY <1>11, <2>1, <3>1 DEF Opened
        <4> QED BY <1>1, <2>1, <4>1 DEF LineHeld
      <3>2. CASE s.lines # <<>>
        <4>1. Opened(s) /\ t.first = s.first
          BY <2>1, <3>2 DEF Opened
        <4>2. s.first \in 1 .. k - 1 /\ Parted(s.segments, s.first - 1)
          BY <4>1 DEF LineHeld
        <4> QED BY <1>1, <2>1, <4>1, <4>2
      <3> QED BY <3>1, <3>2
    <2>4. Pending(s.lines) \subseteq Pending(t.lines) /\ own \subseteq Pending(t.lines)
      BY <1>1, <1>4, <2>1, PendingAppend
    <2>5. ASSUME NEW i \in 1 .. k, Lettered(lines[i])
          PROVE  Seen(LineText(i, lines[i])) \subseteq Shown(t.segments) \cup Pending(t.lines)
      BY <1>3, <2>1, <2>4, <2>5 DEF LineHeld
    <2> QED BY <2>2, <2>3, <2>5
  <1> QED BY <1>1, <1>6, <1>7, <1>8, <1>9, <1>10, <1>11, ReadLineIs DEF t

(* All the letters of a text or a Markdown file are in its segments, which *)
(* stand in its order.                                                     *)
LEMMA LineSegmentsAre ==
  ASSUME NEW lines \in Seq(Lines)
  PROVE  Settled(LineSegments(lines), Len(lines), Len(lines), lines)
  <1> DEFINE n == Len(lines)
             read == LinesRead(lines)
             G == {k \in 0 .. n : LineHeld(read[k], k, lines)}
             end == read[n]
  <1>1. n \in Nat
    BY LenProperties
  <1>2. 0 \in G
    <2>1. read[0] = LineStart /\ LineStart \in LineState
      BY LinesGo, EmptySeq DEF LineStart, LineState
    <2>2. Parted(<<>>, 0) /\ ~Opened(LineStart) /\ LineStart.segments = <<>>
      BY EmptySeq DEF Parted, Opened, LineStart
    <2>3. 0 \in 0 .. n /\ \A i \in 1 .. 0 : FALSE
      BY <1>1
    <2>4. LineHeld(LineStart, 0, lines)
      BY <2>1, <2>2, <2>3 DEF LineHeld
    <2> QED BY <2>1, <2>3, <2>4
  <1>3. ASSUME NEW k \in 1 .. n, k - 1 \in G PROVE k \in G
    <2>1. k \in 0 .. n /\ read[k] = ReadLine(read[k - 1], k, lines[k])
      BY <1>1, LinesGo
    <2>2. LineHeld(read[k - 1], k - 1, lines)
      BY <1>3
    <2>3. LineHeld(read[k], k, lines)
      BY <2>1, <2>2, ReadLineHolds
    <2> QED BY <2>1, <2>3
  <1>4. \A k \in 0 .. n : k \in G
    <2> HIDE DEF G
    <2> QED BY <1>1, <1>2, <1>3, UpTo
  <1>5. LineHeld(end, n, lines)
    BY <1>1, <1>4
  <1> HIDE DEF n, read
  <1>6. LineSegments(lines) = IF end.fence = "none" THEN FlushParagraph(end, n).segments
                                                    ELSE Close(end, "code", n).segments
    BY DEF LineSegments, CloseFence, n, read
  <1> HIDE DEF end
  <1>7. CASE end.fence = "none"
    BY <1>1, <1>5, <1>6, <1>7, FlushSettles DEF n
  <1>8. CASE end.fence # "none"
    <2>1. Opened(end) /\ "code" \in Bodies /\ n <= n
      BY <1>1, <1>8 DEF Opened, Bodies
    <2> QED BY <1>1, <1>5, <1>6, <1>8, <2>1, CloseSettles DEF n
  <1> QED BY <1>7, <1>8

-----------------------------------------------------------------------------
(* Limits *)

LEMMA LeastIs ==
  ASSUME NEW a \in Nat, NEW b \in Nat
  PROVE  /\ Least(a, b) \in Nat /\ Least(a, b) <= a /\ Least(a, b) <= b
         /\ Least(a, b) \in {a, b} /\ Greatest(a, b) \in Nat
         /\ Greatest(a, b) >= a /\ Greatest(a, b) >= b /\ Greatest(a, b) \in {a, b}
  BY DEF Least, Greatest

LEMMA LimitsAre ==
  /\ MaxExtracted \in Nat /\ MaxPages \in Nat /\ MaxXml \in Nat /\ MaxSegments \in Nat
  /\ MaxItems \in Nat /\ MaxChars \in Nat /\ OverlapChars \in Nat /\ OverlapChars < MaxChars
  /\ MaxSegments > 0
  BY ChunkingAssumption

(* b is how a list starts.                                                 *)
Begins(b, list) ==
  /\ Len(b) \in 0 .. Len(list) /\ \A k \in 1 .. Len(b) : b[k] = list[k]

LEMMA FirstIs ==
  ASSUME NEW S, NEW list \in Seq(S), NEW m \in Nat
  PROVE  LET b == SubSeq(list, 1, Least(Len(list), m))
         IN  /\ b \in Seq(S) /\ Begins(b, list) /\ Len(b) = Least(Len(list), m)
             /\ Len(b) >= Len(list) => b = list
  <1> DEFINE n == Least(Len(list), m)
             b == SubSeq(list, 1, n)
  <1>1. Len(list) \in Nat /\ n \in 0 .. Len(list) /\ \A k \in 1 .. Len(list) : list[k] \in S
    <2>1. Len(list) \in Nat /\ \A k \in 1 .. Len(list) : list[k] \in S
      BY LenProperties, ElementOfSeq
    <2>2. n \in 0 .. Len(list)
      BY <2>1 DEF Least
    <2> QED BY <2>1, <2>2
  <1> HIDE DEF n
  <1>2. b \in Seq(S) /\ Len(b) = n /\ \A k \in 1 .. n : b[k] = list[k]
    <2>1. /\ b \in Seq(S) /\ Len(b) = (IF 1 <= n THEN n - 1 + 1 ELSE 0)
          /\ \A k \in 1 .. n - 1 + 1 : b[k] = list[1 + k - 1]
      BY <1>1, SubSeqProperties
    <2>2. \A k \in 1 .. n : k \in 1 .. n - 1 + 1 /\ 1 + k - 1 = k
      BY <1>1
    <2> HIDE DEF b
    <2> QED BY <1>1, <2>1, <2>2
  <1> HIDE DEF b
  <1>3. Begins(b, list)
    BY <1>1, <1>2 DEF Begins
  <1>4. n >= Len(list) => b = list
    <2> SUFFICES ASSUME n >= Len(list) PROVE b = list
      OBVIOUS
    <2>1. Len(b) = Len(list) /\ \A k \in 1 .. Len(b) : b[k] = list[k]
      BY <1>1, <1>2
    <2> QED BY <1>2, <2>1, SeqEqual
  <1> QED BY <1>2, <1>3, <1>4 DEF n, b

LEMMA BeginsAgain ==
  ASSUME NEW a, NEW b, NEW list, Len(list) \in Nat, Begins(b, list), Begins(a, b)
  PROVE  Begins(a, list)
  BY DEF Begins

LEMMA BeginsParted ==
  ASSUME NEW segments \in Seq(Segs), NEW b, Begins(b, segments), NEW m, Parted(segments, m)
  PROVE  Parted(b, m)
  <1>1. Len(segments) \in Nat
    BY LenProperties
  <1>2. \A j \in 1 .. Len(b) : j \in 1 .. Len(segments) /\ b[j] = segments[j]
    BY <1>1 DEF Begins
  <1> QED BY <1>2 DEF Parted

(* The sizes of parts that have a text.                                    *)
LEMMA CharsAre ==
  ASSUME NEW S, \A e \in S : e.text \in Text, NEW parts \in Seq(S)
  PROVE  /\ Chars(parts) \in Seq(Nat) /\ Len(Chars(parts)) = Len(parts)
         /\ Weights(parts) \in Seq(Nat) /\ Len(Weights(parts)) = Len(parts)
  <1> DEFINE n == Len(parts)
             chars(k) == Len(parts[k].text)
             weight(k) == Bytes(parts[k].text)
  <1>1. n \in Nat /\ DOMAIN parts = 1 .. n /\ \A k \in 1 .. n : parts[k] \in S
    BY LenProperties, ElementOfSeq
  <1>2. \A k \in 1 .. n : chars(k) \in Nat /\ weight(k) \in Nat
    BY <1>1, SeenIs, BytesIs
  <1>3. Chars(parts) = [k \in 1 .. n |-> chars(k)] /\ Weights(parts) = [k \in 1 .. n |-> weight(k)]
    BY <1>1 DEF Chars, Weights
  <1> HIDE DEF n, chars, weight
  <1>4. Chars(parts) \in Seq(Nat) /\ DOMAIN Chars(parts) = 1 .. n
    BY <1>1, <1>2, <1>3, IsASeq
  <1>5. Weights(parts) \in Seq(Nat) /\ DOMAIN Weights(parts) = 1 .. n
    BY <1>1, <1>2, <1>3, IsASeq
  <1>6. Len(Chars(parts)) = n /\ Len(Weights(parts)) = n
    BY <1>1, <1>4, <1>5, LenProperties
  <1> QED BY <1>4, <1>5, <1>6 DEF n

LEMMA SegsHaveText == \A e \in Segs : e.text \in Text
  BY DEF Segs

LEMMA WithinIs ==
  ASSUME NEW S, \A e \in S : e.text \in Text, NEW parts \in Seq(S)
  PROVE  /\ Beginning(parts, Chars(parts), MaxExtracted) \in Seq(S)
         /\ Begins(Beginning(parts, Chars(parts), MaxExtracted), parts)
         /\ Beginning(parts, Weights(parts), MaxXml) \in Seq(S)
         /\ Begins(Beginning(parts, Weights(parts), MaxXml), parts)
  BY CharsAre, BeginningIs, LimitsAre DEF Begins

(* What an extractor hands on: a beginning, the whole if there is no       *)
(* warning.                                                                *)
LEMMA LimitedLinesIs ==
  ASSUME NEW segments \in Seq(Segs), NEW size
  PROVE  LET out == LimitedLines(segments, size)
         IN  /\ out.segments \in Seq(Segs) /\ Begins(out.segments, segments)
             /\ ~out.warned => out.segments = segments
  <1> DEFINE few == SubSeq(segments, 1, Least(Len(segments), MaxSegments))
             kept == IF size > MaxExtracted THEN Beginning(few, Chars(few), MaxExtracted) ELSE few
             out == LimitedLines(segments, size)
  <1>1. /\ few \in Seq(Segs) /\ Begins(few, segments) /\ Len(segments) \in Nat /\ Len(few) \in Nat
        /\ Len(few) >= Len(segments) => few = segments
    BY LimitsAre, FirstIs, LenProperties
  <1>2. /\ out.segments = kept
        /\ ~out.warned => ~(Len(few) < Len(segments)) /\ ~(size > MaxExtracted)
    BY DEF LimitedLines, Output
  <1> HIDE DEF few, out
  <1>3. kept \in Seq(Segs) /\ Begins(kept, few)
    <2>1. CASE size > MaxExtracted
      BY <1>1, <2>1, SegsHaveText, WithinIs
    <2>2. CASE ~(size > MaxExtracted)
      BY <1>1, <2>2 DEF Begins
    <2> QED BY <2>1, <2>2
  <1>4. ASSUME ~out.warned PROVE out.segments = segments
    BY <1>1, <1>2, <1>4
  <1> HIDE DEF kept
  <1>5. Begins(kept, segments)
    BY <1>1, <1>3, BeginsAgain
  <1> QED BY <1>2, <1>3, <1>4, <1>5 DEF out

LEMMA LimitedTextIs ==
  ASSUME NEW segments \in Seq(Segs), NEW size
  PROVE  LET out == LimitedText(segments, size)
         IN  /\ out.segments \in Seq(Segs) /\ Begins(out.segments, segments)
             /\ ~out.warned => out.segments = segments
  <1> DEFINE kept == IF size > MaxExtracted
                     THEN Beginning(segments, Chars(segments), MaxExtracted) ELSE segments
             few == SubSeq(kept, 1, Least(Len(kept), MaxSegments))
             out == LimitedText(segments, size)
  <1>1. kept \in Seq(Segs) /\ Begins(kept, segments) /\ Len(segments) \in Nat
    <2>1. CASE size > MaxExtracted
      BY <2>1, SegsHaveText, WithinIs, LenProperties
    <2>2. CASE ~(size > MaxExtracted)
      BY <2>2, LenProperties DEF Begins
    <2> QED BY <2>1, <2>2
  <1>2. /\ out.segments = few
        /\ ~out.warned => ~(Len(kept) > MaxSegments) /\ ~(size > MaxExtracted)
    BY DEF LimitedText, Output
  <1>3. ~(size > MaxExtracted) => kept = segments
    OBVIOUS
  <1> HIDE DEF kept
  <1>4. /\ few \in Seq(Segs) /\ Begins(few, kept) /\ Len(few) = Least(Len(kept), MaxSegments)
        /\ Len(few) >= Len(kept) => few = kept
    BY <1>1, LimitsAre, FirstIs
  <1> HIDE DEF few, out
  <1>5. ASSUME ~out.warned PROVE out.segments = segments
    <2>1. Len(few) >= Len(kept)
      BY <1>1, <1>2, <1>4, <1>5, LimitsAre, LenProperties DEF Least
    <2> QED BY <1>2, <1>3, <1>4, <1>5, <2>1
  <1>6. Begins(few, segments)
    BY <1>1, <1>4, BeginsAgain
  <1> QED BY <1>2, <1>4, <1>5, <1>6 DEF out

-----------------------------------------------------------------------------
(* HTML *)

Blocks    == {b \in [kind : Kinds, text : Text, path : Paths] : b.text # <<>>}
Tokens    == Texts \cup {Plain(k) : k \in {"block", "open", "close", "skip", "endskip", "br"}}
HtmlState == [blocks : Seq(Blocks), current : Text, kind : {"paragraph", "heading"},
              headings : Paths, skip : Nat]

LEMMA TokenIs ==
  ASSUME NEW token \in Tokens
  PROVE  /\ token.kind \in {"text", "block", "open", "close", "skip", "endskip", "br"}
         /\ token.kind = "text" => token.width \in Nat
  BY WidthIs DEF Tokens, Texts, Plain

LEMMA BlocksHaveText == \A e \in Blocks : e.text \in Text
  BY DEF Blocks

LEMMA NoTextIs == <<>> \in Text /\ Seen(<<>>) = {}
  BY EmptySeq DEF Text, Seen, ToSet

(* What is pushed out of the current block stays seen.                     *)
LEMMA PushBlockIs ==
  ASSUME NEW s \in HtmlState
  PROVE  LET t == PushBlock(s)
         IN  /\ t \in HtmlState /\ t.skip = s.skip
             /\ Shown(t.blocks) = Shown(s.blocks) \cup Seen(s.current)
  <1> DEFINE block == [kind |-> s.kind, text |-> Trim(s.current), path |-> s.headings]
             t == PushBlock(s)
  <1>1. s.current \in Text /\ s.headings \in Paths /\ s.kind \in Kinds /\ s.blocks \in Seq(Blocks)
    BY DEF HtmlState, Kinds
  <1>2. /\ Trim(s.current) \in Text /\ Seen(Trim(s.current)) = Seen(s.current)
        /\ Trim(s.current) = <<>> <=> Seen(s.current) = {}
    BY <1>1, TrimIsText
  <1>3. CASE Trim(s.current) = <<>>
    <2>1. t = s
      BY <1>3 DEF PushBlock
    <2> QED BY <1>2, <1>3, <2>1
  <1>4. CASE Trim(s.current) # <<>>
    <2>1. t = [s EXCEPT !.blocks = Append(@, block)]
      BY <1>4 DEF PushBlock
    <2>2. block \in Blocks /\ block.text = Trim(s.current)
      BY <1>1, <1>2, <1>4 DEF Blocks
    <2> HIDE DEF block, t
    <2>3. Append(s.blocks, block) \in Seq(Blocks)
      BY <1>1, <2>2, AppendProperties
    <2>4. t \in HtmlState /\ t.skip = s.skip /\ t.blocks = Append(s.blocks, block)
      BY <2>1, <2>3 DEF HtmlState
    <2>5. Shown(t.blocks) = Shown(s.blocks) \cup Seen(block.text)
      BY <1>1, <2>2, <2>4, ShownAppend
    <2> QED BY <1>2, <2>2, <2>4, <2>5 DEF t
  <1> QED BY <1>3, <1>4

LEMMA CloseHeadingIs ==
  ASSUME NEW s \in HtmlState
  PROVE  LET t == CloseHeading(s)
         IN  /\ t \in HtmlState /\ t.skip = s.skip /\ t.current = <<>>
             /\ Shown(t.blocks) = Shown(s.blocks) \cup Seen(s.current)
  <1> DEFINE title == Trim(s.current)
             path == Append(s.headings, [unit |-> Head(title)[1], marks |-> 0])
             block == [kind |-> "heading", text |-> title, path |-> path]
             new == IF title = <<>> THEN s
                    ELSE [s EXCEPT !.headings = path, !.blocks = Append(@, block)]
             t == CloseHeading(s)
  <1>1. s.current \in Text /\ s.headings \in Paths /\ s.blocks \in Seq(Blocks)
    BY DEF HtmlState
  <1>2. /\ title \in Text /\ Seen(title) = Seen(s.current)
        /\ title = <<>> <=> Seen(s.current) = {}
        /\ title # <<>> => Head(title) = title[1]
    BY <1>1, TrimIsText
  <1>3. t = [new EXCEPT !.current = <<>>, !.kind = "paragraph"]
    BY DEF CloseHeading
  <1>4. new \in HtmlState /\ new.skip = s.skip
        /\ Shown(new.blocks) = Shown(s.blocks) \cup Seen(s.current)
    <2>1. CASE title = <<>>
      <3>1. new = s
        BY <2>1
      <3> HIDE DEF title, new
      <3> QED BY <1>2, <2>1, <3>1
    <2>2. CASE title # <<>>
      <3>1. new = [s EXCEPT !.headings = path, !.blocks = Append(@, block)]
        BY <2>2
      <3>2. Head(title)[1] \in Nat
        <4> HIDE DEF title
        <4>1. Len(title) >= 1 /\ title[1] \in Char
          <5>1. Len(title) # 0
            BY <1>2, <2>2, EmptySeq DEF Text
          <5>2. 1 \in 1 .. Len(title)
            BY <1>2, <5>1, SeenIs
          <5> QED BY <1>2, <5>2, SeenIs
        <4> QED BY <1>2, <2>2, <4>1, NewLineIs
      <3>3. path \in Paths
        <4>1. [unit |-> Head(title)[1], marks |-> 0] \in Titles
          BY <3>2 DEF Titles
        <4> HIDE DEF title
        <4> QED BY <1>1, <4>1, AppendProperties DEF Paths
      <3> HIDE DEF title, path, new
      <3>4. block \in Blocks /\ block.text = title
        BY <1>2, <2>2, <3>3 DEF Blocks, Kinds
      <3> HIDE DEF block
      <3>5. Append(s.blocks, block) \in Seq(Blocks)
        BY <1>1, <3>4, AppendProperties
      <3>6. new \in HtmlState /\ new.skip = s.skip /\ new.blocks = Append(s.blocks, block)
        BY <3>1, <3>3, <3>5 DEF HtmlState
      <3> QED BY <1>1, <1>2, <3>4, <3>6, ShownAppend
    <2> QED BY <2>1, <2>2
  <1> HIDE DEF new, t
  <1>5. t \in HtmlState /\ t.skip = new.skip /\ t.current = <<>> /\ t.blocks = new.blocks
    BY <1>3, <1>4, NoTextIs DEF HtmlState
  <1> QED BY <1>4, <1>5 DEF t

LEMMA ConcatSeen ==
  ASSUME NEW s \in Text, NEW t \in Text
  PROVE  s \o t \in Text /\ Seen(s \o t) = Seen(s) \cup Seen(t)
  <1>1. s \o t \in Text /\ Seen(s) \subseteq Seen(s \o t) /\ Seen(t) \subseteq Seen(s \o t)
    <2>1. s \o t \in Text
      BY ConcatProperties DEF Text
    <2>2. Inside(s, s \o t) /\ Inside(t, s \o t)
      BY InsideConcat DEF Text
    <2> QED BY <2>1, <2>2, InsideIsSeen
  <1>2. ASSUME NEW c \in Seen(s \o t) PROVE c \in Seen(s) \cup Seen(t)
    <2>1. PICK p \in 1 .. Len(s \o t) : (s \o t)[p] = c /\ c # NewLine
      BY <1>1, <1>2, SeenIs
    <2>2. /\ Len(s) \in Nat /\ Len(t) \in Nat /\ Len(s \o t) = Len(s) + Len(t)
          /\ (s \o t)[p] = IF p <= Len(s) THEN s[p] ELSE t[p - Len(s)]
      <3>1. Len(s) \in Nat /\ Len(t) \in Nat /\ Len(s \o t) = Len(s) + Len(t)
        BY SeenIs, ConcatProperties DEF Text
      <3> QED BY <3>1, ConcatProperties DEF Text
    <2>3. CASE p <= Len(s)
      <3>1. p \in 1 .. Len(s) /\ s[p] = c
        BY <2>1, <2>2, <2>3
      <3> QED BY <2>1, <3>1, SeenIs
    <2>4. CASE ~(p <= Len(s))
      <3>1. p - Len(s) \in 1 .. Len(t) /\ t[p - Len(s)] = c
        BY <2>1, <2>2, <2>4
      <3> QED BY <2>1, <3>1, SeenIs
    <2> QED BY <2>3, <2>4
  <1> QED BY <1>1, <1>2

LEMMA EndIsNewLine ==
  ASSUME NEW s \in Text
  PROVE  Append(s, NewLine) \in Text /\ Seen(Append(s, NewLine)) = Seen(s)
         /\ Inside(s, Append(s, NewLine))
  <1>1. <<NewLine>> \in Text /\ Append(s, NewLine) = s \o <<NewLine>>
    BY NewLineIs, AppendIsConcat DEF Text
  <1>2. Seen(<<NewLine>>) = {}
    <2>1. Len(<<NewLine>>) = 1 /\ <<NewLine>>[1] = NewLine
      OBVIOUS
    <2>2. \A p \in 1 .. 1 : p = 1
      OBVIOUS
    <2> QED BY <1>1, <2>1, <2>2, SeenIs
  <1>3. Inside(s, s \o <<NewLine>>)
    BY <1>1, InsideConcat DEF Text
  <1>4. s \o <<NewLine>> \in Text /\ Seen(s \o <<NewLine>>) = Seen(s) \cup Seen(<<NewLine>>)
    BY <1>1, ConcatSeen
  <1> QED BY <1>1, <1>2, <1>3, <1>4

(* A token: the state stays one, the tags of scripts are counted, and what *)
(* was seen stays seen.                                                    *)
Depth(n, token) ==
  CASE token.kind = "skip"    -> n + 1
    [] token.kind = "endskip" -> Greatest(0, n - 1)
    [] OTHER                  -> n

HtmlSeen(s) == Shown(s.blocks) \cup Seen(s.current)

LEMMA ReadTokenIs ==
  ASSUME NEW s \in HtmlState, NEW i \in Nat \ {0}, NEW token \in Tokens
  PROVE  LET t == ReadToken(s, i, token)
         IN  /\ t \in HtmlState /\ t.skip = Depth(s.skip, token)
             /\ HtmlSeen(s) \subseteq HtmlSeen(t)
             /\ token.kind = "text" /\ ~(s.skip > 0) =>
                  Seen(Word(i, token.width)) \subseteq HtmlSeen(t)
  <1> DEFINE t == ReadToken(s, i, token)
             p == PushBlock(s)
  <1>1. s.current \in Text /\ s.skip \in Nat /\ s.blocks \in Seq(Blocks)
    BY DEF HtmlState
  <1>2. CASE token.kind = "text"
    <2>0. Word(i, token.width) \in Text
      BY <1>2, TokenIs, WordIs
    <2>1. CASE s.skip > 0
      <3>1. t = s
        BY <1>2, <2>1 DEF ReadToken
      <3> QED BY <1>2, <2>1, <3>1 DEF Depth
    <2>2. CASE ~(s.skip > 0)
      <3>1. t = [s EXCEPT !.current = @ \o Word(i, token.width)]
        BY <1>2, <2>2 DEF ReadToken
      <3>2. /\ s.current \o Word(i, token.width) \in Text
            /\ Seen(s.current \o Word(i, token.width)) =
                 Seen(s.current) \cup Seen(Word(i, token.width))
        BY <1>1, <2>0, ConcatSeen
      <3> HIDE DEF t
      <3>3. /\ t \in HtmlState /\ t.skip = s.skip /\ t.blocks = s.blocks
            /\ t.current = s.current \o Word(i, token.width)
        BY <3>1, <3>2 DEF HtmlState
      <3> QED BY <1>2, <3>2, <3>3 DEF Depth, HtmlSeen, t
    <2> QED BY <2>1, <2>2
  <1>3. CASE token.kind = "br"
    <2>1. t = [s EXCEPT !.current = Append(@, NewLine)]
      BY <1>3 DEF ReadToken
    <2>2. Append(s.current, NewLine) \in Text /\ Seen(Append(s.current, NewLine)) = Seen(s.current)
      BY <1>1, EndIsNewLine
    <2> HIDE DEF t
    <2>3. /\ t \in HtmlState /\ t.skip = s.skip /\ t.blocks = s.blocks
          /\ t.current = Append(s.current, NewLine)
      BY <2>1, <2>2 DEF HtmlState
    <2> QED BY <1>3, <2>2, <2>3 DEF Depth, HtmlSeen, t
  <1>4. CASE token.kind = "skip"
    <2>1. t = [s EXCEPT !.skip = @ + 1]
      BY <1>4 DEF ReadToken
    <2> HIDE DEF t
    <2>2. t \in HtmlState /\ t.skip = s.skip + 1 /\ t.blocks = s.blocks /\ t.current = s.current
      BY <1>1, <2>1 DEF HtmlState
    <2> QED BY <1>4, <2>2 DEF Depth, HtmlSeen, t
  <1>5. CASE token.kind = "endskip"
    <2>1. t = [s EXCEPT !.skip = Greatest(0, @ - 1)]
      BY <1>5 DEF ReadToken
    <2>2. Greatest(0, s.skip - 1) \in Nat
      BY <1>1 DEF Greatest
    <2> HIDE DEF t
    <2>3. /\ t \in HtmlState /\ t.skip = Greatest(0, s.skip - 1) /\ t.blocks = s.blocks
          /\ t.current = s.current
      BY <2>1, <2>2 DEF HtmlState
    <2> QED BY <1>5, <2>3 DEF Depth, HtmlSeen, t
  <1>6. CASE token.kind \in {"open", "block"}
    <2>1. PICK kind \in {"paragraph", "heading"} : t = [p EXCEPT !.current = <<>>, !.kind = kind]
      <3>1. CASE token.kind = "open"
        <4>1. t = [p EXCEPT !.current = <<>>, !.kind = "heading"]
          BY <3>1 DEF ReadToken
        <4> QED BY <4>1
      <3>2. CASE token.kind = "block"
        <4>1. t = [p EXCEPT !.current = <<>>, !.kind = "paragraph"]
          BY <3>2 DEF ReadToken
        <4> QED BY <4>1
      <3> QED BY <1>6, <3>1, <3>2
    <2>2. /\ p \in HtmlState /\ p.skip = s.skip
          /\ Shown(p.blocks) = Shown(s.blocks) \cup Seen(s.current)
      BY PushBlockIs
    <2> HIDE DEF t, p
    <2>3. t \in HtmlState /\ t.skip = p.skip /\ t.blocks = p.blocks /\ t.current = <<>>
      BY <2>1, <2>2, NoTextIs DEF HtmlState
    <2> QED BY <1>6, <2>2, <2>3 DEF Depth, HtmlSeen, t
  <1>7. CASE token.kind = "close"
    <2>1. t = CloseHeading(s)
      BY <1>7 DEF ReadToken
    <2> HIDE DEF t
    <2> QED BY <1>7, <2>1, CloseHeadingIs DEF Depth, HtmlSeen, t
  <1> QED BY <1>2, <1>3, <1>4, <1>5, <1>6, <1>7, TokenIs

HtmlStart == [blocks |-> <<>>, current |-> <<>>, kind |-> "paragraph", headings |-> <<>>,
              skip |-> 0]

LEMMA TokensGo ==
  ASSUME NEW tokens \in Seq(Tokens)
  PROVE  /\ TokensRead(tokens) \in [0 .. Len(tokens) -> HtmlState]
         /\ TokensRead(tokens)[0] = HtmlStart
         /\ \A k \in 1 .. Len(tokens) :
              TokensRead(tokens)[k] = ReadToken(TokensRead(tokens)[k - 1], k, tokens[k])
  <1> DEFINE n == Len(tokens)
             step(s, k) == ReadToken(s, k, tokens[k])
             F == [k \in 1 .. n |-> [s \in HtmlState |-> step(s, k)]]
             Is(h) == h = [k \in 0 .. n |-> IF k = 0 THEN HtmlStart ELSE step(h[k - 1], k)]
             read == CHOOSE h : Is(h)
  <1>1. n \in Nat /\ \A k \in 1 .. n : tokens[k] \in Tokens
    BY LenProperties, ElementOfSeq
  <1>2. TokensRead(tokens) = read
    BY DEF TokensRead, Loop, HtmlStart
  <1> HIDE DEF n
  <1>3. HtmlStart \in HtmlState
    BY EmptySeq DEF HtmlStart, HtmlState, Text, Paths
  <1>4. \A k \in 1 .. n : \A s \in HtmlState : step(s, k) \in HtmlState
    BY <1>1, ReadTokenIs
  <1> HIDE DEF step
  <1>5. F \in [1 .. n -> [HtmlState -> HtmlState]]
    BY <1>4
  <1>6. PICK h : Runs(h, HtmlState, HtmlStart, F, n)
    <2> HIDE DEF F
    <2> QED BY <1>1, <1>3, <1>5, LoopGoes
  <1>7. Is(h)
    <2>1. \A k \in 0 .. n : k # 0 => F[k][h[k - 1]] = step(h[k - 1], k)
      BY <1>1, <1>6 DEF Runs
    <2> QED BY <1>6, <2>1 DEF Goes, Runs
  <1>8. Is(read)
    BY <1>7
  <1> HIDE DEF read
  <1>9. read[0] = HtmlStart /\ \A k \in 1 .. n : read[k] = step(read[k - 1], k)
    BY <1>1, <1>8
  <1> DEFINE G == {k \in 0 .. n : read[k] \in HtmlState}
  <1>10. \A k \in 0 .. n : k \in G
    <2>1. 0 \in G
      BY <1>1, <1>3, <1>9
    <2>2. ASSUME NEW k \in 1 .. n, k - 1 \in G PROVE k \in G
      BY <1>1, <1>4, <1>9, <2>2
    <2> HIDE DEF G
    <2> QED BY <1>1, <2>1, <2>2, UpTo
  <1>11. read \in [0 .. n -> HtmlState]
    BY <1>8, <1>10
  <1> QED BY <1>2, <1>9, <1>11 DEF n, step

LEMMA DepthsGo ==
  ASSUME NEW tokens \in Seq(Tokens)
  PROVE  /\ Depths(tokens)[0] = 0
         /\ \A k \in 1 .. Len(tokens) : Depths(tokens)[k] = Depth(Depths(tokens)[k - 1], tokens[k])
  <1> DEFINE n == Len(tokens)
             step(d, k) == Depth(d, tokens[k])
             F == [k \in 1 .. n |-> [d \in Nat |-> step(d, k)]]
             Is(h) == h = [k \in 0 .. n |-> IF k = 0 THEN 0 ELSE step(h[k - 1], k)]
             depths == CHOOSE h : Is(h)
  <1>1. n \in Nat /\ \A k \in 1 .. n : tokens[k] \in Tokens
    BY LenProperties, ElementOfSeq
  <1>2. Depths(tokens) = depths
    BY DEF Depths, Loop, Depth
  <1> HIDE DEF n
  <1>3. \A k \in 1 .. n : \A d \in Nat : step(d, k) \in Nat
    BY DEF Depth, Greatest
  <1> HIDE DEF step
  <1>4. F \in [1 .. n -> [Nat -> Nat]]
    BY <1>3
  <1>5. PICK h : Runs(h, Nat, 0, F, n)
    <2> HIDE DEF F
    <2> QED BY <1>1, <1>4, LoopGoes
  <1>6. Is(h)
    <2>1. \A k \in 0 .. n : k # 0 => F[k][h[k - 1]] = step(h[k - 1], k)
      BY <1>1, <1>5 DEF Runs
    <2> QED BY <1>5, <2>1 DEF Goes, Runs
  <1>7. Is(depths)
    BY <1>6
  <1> HIDE DEF depths
  <1> QED BY <1>1, <1>2, <1>7 DEF n, step

(* Every letter a reader sees is in the blocks of the file.                *)
LEMMA HtmlBlocksAre ==
  ASSUME NEW tokens \in Seq(Tokens)
  PROVE  /\ HtmlBlocks(tokens) \in Seq(Blocks)
         /\ \A i \in 1 .. Len(tokens) : tokens[i].kind = "text" /\ ~(Depths(tokens)[i] > 0) =>
              Seen(Word(i, tokens[i].width)) \subseteq Shown(HtmlBlocks(tokens))
  <1> DEFINE n == Len(tokens)
             read == TokensRead(tokens)
             depths == Depths(tokens)
             Good(s, k) ==
               /\ s \in HtmlState /\ s.skip = depths[k]
               /\ \A i \in 1 .. k : tokens[i].kind = "text" /\ ~(depths[i] > 0) =>
                    Seen(Word(i, tokens[i].width)) \subseteq HtmlSeen(s)
             G == {k \in 0 .. n : Good(read[k], k)}
             end == read[n]
  <1>1. n \in Nat /\ \A k \in 1 .. n : tokens[k] \in Tokens
    BY LenProperties, ElementOfSeq
  <1>2. 0 \in G
    <2>1. /\ read[0] = HtmlStart /\ HtmlStart \in HtmlState /\ HtmlStart.skip = 0 /\ depths[0] = 0
          /\ 0 \in 0 .. n /\ \A i \in 1 .. 0 : FALSE
      BY <1>1, TokensGo, DepthsGo, EmptySeq DEF HtmlStart, HtmlState, Text, Paths
    <2> HIDE DEF read, depths
    <2> QED BY <2>1
  <1>3. ASSUME NEW k \in 1 .. n, k - 1 \in G PROVE k \in G
    <2> DEFINE s == read[k - 1]
               t == read[k]
    <2>1. /\ k \in 0 .. n /\ t = ReadToken(s, k, tokens[k]) /\ depths[k] = Depth(depths[k - 1], tokens[k])
          /\ tokens[k] \in Tokens /\ k \in Nat \ {0}
      BY <1>1, TokensGo, DepthsGo
    <2>2. Good(s, k - 1)
      BY <1>3
    <2> HIDE DEF s, t, depths
    <2>3. /\ t \in HtmlState /\ t.skip = Depth(s.skip, tokens[k])
          /\ HtmlSeen(s) \subseteq HtmlSeen(t)
          /\ tokens[k].kind = "text" /\ ~(s.skip > 0) =>
               Seen(Word(k, tokens[k].width)) \subseteq HtmlSeen(t)
      BY <2>1, <2>2, ReadTokenIs
    <2>4. t.skip = depths[k] /\ (tokens[k].kind = "text" => depths[k] = s.skip)
      BY <2>1, <2>2, <2>3 DEF Depth
    <2>5. ASSUME NEW i \in 1 .. k, tokens[i].kind = "text", ~(depths[i] > 0)
          PROVE  Seen(Word(i, tokens[i].width)) \subseteq HtmlSeen(t)
      <3>1. CASE i = k
        BY <2>3, <2>4, <2>5, <3>1
      <3>2. CASE i # k
        <4>1. i \in 1 .. k - 1
          BY <3>2
        <4> QED BY <2>2, <2>3, <2>5, <4>1
      <3> QED BY <3>1, <3>2
    <2>6. Good(t, k)
      BY <2>3, <2>4, <2>5
    <2> QED BY <2>1, <2>6 DEF t, depths
  <1>4. \A k \in 0 .. n : k \in G
    <2> HIDE DEF G
    <2> QED BY <1>1, <1>2, <1>3, UpTo
  <1>5. Good(end, n)
    <2>1. n \in 0 .. n
      BY <1>1
    <2> QED BY <1>4, <2>1
  <1>6. HtmlBlocks(tokens) = PushBlock(end).blocks
    BY DEF HtmlBlocks
  <1> HIDE DEF end, n, depths
  <1>7. PushBlock(end) \in HtmlState /\ Shown(PushBlock(end).blocks) = HtmlSeen(end)
    BY <1>5, PushBlockIs DEF HtmlSeen
  <1>8. PushBlock(end).blocks \in Seq(Blocks)
    BY <1>7 DEF HtmlState
  <1> QED BY <1>5, <1>6, <1>7, <1>8 DEF n, depths

-----------------------------------------------------------------------------
(* Every format *)

(* One segment for each of some parts.                                     *)
LEMMA NumberedIs ==
  ASSUME NEW n \in Nat, NEW seg, seg \in [1 .. n -> Segs],
         \A k \in 1 .. n : seg[k].first = k /\ seg[k].last = k
  PROVE  seg \in Seq(Segs) /\ Len(seg) = n /\ Parted(seg, n)
  <1>1. seg = [k \in 1 .. n |-> seg[k]] /\ \A k \in 1 .. n : seg[k] \in Segs
    OBVIOUS
  <1>2. seg \in Seq(Segs)
    BY <1>1, SeqDef
  <1>3. Len(seg) = n
    BY <1>2, LenProperties
  <1> QED BY <1>2, <1>3 DEF Parted

LEMMA LimitedBlocksIs ==
  ASSUME NEW blocks \in Seq(Blocks)
  PROVE  LET out == LimitedBlocks(blocks)
         IN  /\ out.segments \in Seq(Segs) /\ \E m \in Nat : Parted(out.segments, m)
             /\ ~out.warned => Shown(out.segments) = Shown(blocks)
  <1> DEFINE kept == Beginning(blocks, Chars(blocks), MaxExtracted)
             n == Least(Len(kept), MaxSegments)
             of(k) == Segment(blocks[k].kind, blocks[k].text, k, k, blocks[k].path)
             seg == [k \in 1 .. n |-> of(k)]
             out == LimitedBlocks(blocks)
  <1>1. out.segments = seg /\ (~out.warned => ~(n < Len(blocks)))
    BY DEF LimitedBlocks, Output
  <1>2. kept \in Seq(Blocks) /\ Begins(kept, blocks)
    BY BlocksHaveText, WithinIs
  <1>3. /\ Len(blocks) \in Nat /\ DOMAIN blocks = 1 .. Len(blocks) /\ n \in 0 .. Len(blocks)
        /\ \A k \in 1 .. Len(blocks) : blocks[k] \in Blocks
    <2>1. /\ Len(blocks) \in Nat /\ DOMAIN blocks = 1 .. Len(blocks) /\ Len(kept) \in Nat
          /\ \A k \in 1 .. Len(blocks) : blocks[k] \in Blocks
      BY <1>2, LenProperties, ElementOfSeq
    <2>2. Len(kept) <= Len(blocks)
      BY <1>2, <2>1 DEF Begins
    <2> HIDE DEF kept
    <2>3. n \in Nat /\ n <= Len(kept)
      BY <2>1, LeastIs, LimitsAre
    <2> QED BY <2>1, <2>2, <2>3
  <1> HIDE DEF n, out
  <1>4. \A k \in 1 .. n : of(k) \in Segs /\ of(k).first = k /\ of(k).last = k /\ of(k).text = blocks[k].text
    <2> SUFFICES ASSUME NEW k \in 1 .. n
                 PROVE  /\ of(k) \in Segs /\ of(k).first = k /\ of(k).last = k
                        /\ of(k).text = blocks[k].text
      OBVIOUS
    <2>1. blocks[k] \in Blocks /\ k \in Nat
      BY <1>3
    <2>2. /\ blocks[k].kind \in Kinds /\ blocks[k].text \in Text /\ blocks[k].path \in Paths
          /\ blocks[k].text # <<>>
      BY <2>1 DEF Blocks
    <2> QED BY <2>1, <2>2, SegmentIs
  <1> HIDE DEF of
  <1>5. seg \in Seq(Segs) /\ Len(seg) = n /\ Parted(seg, n) /\ n \in Nat
    <2>1. seg \in [1 .. n -> Segs] /\ \A k \in 1 .. n : seg[k].first = k /\ seg[k].last = k
      BY <1>4
    <2> HIDE DEF seg
    <2> QED BY <1>3, <2>1, NumberedIs
  <1>6. ASSUME ~out.warned PROVE Shown(seg) = Shown(blocks)
    <2>0. ~(n < Len(blocks))
      BY <1>1, <1>6
    <2>a. Len(blocks) \in Nat /\ n \in 0 .. Len(blocks)
      BY <1>3
    <2>1. n = Len(blocks)
      BY <2>0, <2>a
    <2>2. DOMAIN seg = 1 .. n /\ \A k \in 1 .. n : seg[k].text = blocks[k].text
      BY <1>4
    <2> HIDE DEF seg
    <2> QED BY <1>3, <2>1, <2>2 DEF Shown
  <1> QED BY <1>1, <1>5, <1>6 DEF out

Paragraphs == [text : Text]

LEMMA DocxParagraphsIs ==
  ASSUME NEW c \in Seq(Texts)
  PROVE  LET out == DocxParagraphs(c)
         IN  /\ out.segments \in Seq(Segs) /\ \E m \in Nat : Parted(out.segments, m)
             /\ ~out.warned => \A i \in 1 .. Len(c) :
                                 Seen(Word(i, c[i].width)) \subseteq Shown(out.segments)
  <1> DEFINE of(i) == [text |-> Word(i, c[i].width)]
             paragraphs == [i \in DOMAIN c |-> of(i)]
             whole == Beginning(paragraphs, Weights(paragraphs), MaxXml)
             kept == Beginning(whole, Chars(whole), MaxExtracted)
             n == Least(Len(kept), MaxSegments)
             segment(k) == Segment("paragraph", kept[k].text, k, k, <<>>)
             seg == [k \in 1 .. n |-> segment(k)]
             out == DocxParagraphs(c)
  <1>1. /\ Len(c) \in Nat /\ DOMAIN c = 1 .. Len(c)
        /\ \A i \in 1 .. Len(c) : of(i) \in Paragraphs /\ of(i).text = Word(i, c[i].width)
    <2>1. \A i \in 1 .. Len(c) : c[i] \in Texts
      BY ElementOfSeq
    <2>2. \A i \in 1 .. Len(c) : c[i].width \in Nat
      BY <2>1, WidthIs DEF Texts
    <2>3. \A i \in 1 .. Len(c) : Word(i, c[i].width) \in Text
      BY <2>2, WordIs
    <2> QED BY <2>3, LenProperties DEF Paragraphs
  <1>2. out.segments = seg /\ (~out.warned => ~(n < Len(c)))
    BY DEF DocxParagraphs, Output
  <1> HIDE DEF of
  <1>3. /\ paragraphs \in Seq(Paragraphs) /\ Len(paragraphs) = Len(c)
        /\ \A i \in 1 .. Len(c) : paragraphs[i] = of(i)
    <2>1. /\ paragraphs \in [1 .. Len(c) -> Paragraphs] /\ DOMAIN paragraphs = 1 .. Len(c)
          /\ \A i \in 1 .. Len(c) : paragraphs[i] = of(i)
      BY <1>1
    <2> HIDE DEF paragraphs
    <2>2. paragraphs \in Seq(Paragraphs)
      BY <1>1, <2>1, SeqDef
    <2> QED BY <1>1, <2>1, <2>2, LenProperties
  <1> HIDE DEF paragraphs
  <1>4. \A e \in Paragraphs : e.text \in Text
    BY DEF Paragraphs
  <1>5. whole \in Seq(Paragraphs) /\ Begins(whole, paragraphs)
    BY <1>3, <1>4, WithinIs
  <1> HIDE DEF whole
  <1>6. kept \in Seq(Paragraphs) /\ Begins(kept, whole)
    BY <1>4, <1>5, WithinIs
  <1> HIDE DEF kept
  <1>7. Begins(kept, paragraphs)
    BY <1>1, <1>3, <1>5, <1>6, BeginsAgain
  <1>8. n \in 0 .. Len(kept) /\ Len(kept) \in 0 .. Len(c)
    <2>1. Len(kept) \in 0 .. Len(c)
      BY <1>3, <1>7 DEF Begins
    <2>2. n \in 0 .. Len(kept)
      BY <2>1, LimitsAre DEF Least
    <2> QED BY <2>1, <2>2
  <1> HIDE DEF n, out
  <1>9. \A k \in 1 .. n : kept[k].text \in Text /\ kept[k].text = Word(k, c[k].width)
    <2> SUFFICES ASSUME NEW k \in 1 .. n
                 PROVE  kept[k].text \in Text /\ kept[k].text = Word(k, c[k].width)
      OBVIOUS
    <2>1. k \in 1 .. Len(kept) /\ k \in 1 .. Len(c)
      BY <1>1, <1>8
    <2>2. kept[k] = of(k) /\ kept[k] \in Paragraphs
      BY <1>3, <1>6, <1>7, <2>1, ElementOfSeq DEF Begins
    <2> QED BY <1>1, <1>4, <2>1, <2>2
  <1>10. \A k \in 1 .. n : /\ segment(k) \in Segs /\ segment(k).first = k /\ segment(k).last = k
                           /\ segment(k).text = Word(k, c[k].width)
    <2> SUFFICES ASSUME NEW k \in 1 .. n
                 PROVE  /\ segment(k) \in Segs /\ segment(k).first = k /\ segment(k).last = k
                        /\ segment(k).text = Word(k, c[k].width)
      OBVIOUS
    <2>1. k \in Nat /\ kept[k].text \in Text /\ <<>> \in Paths /\ "paragraph" \in Kinds
      BY <1>9, EmptySeq DEF Paths, Kinds
    <2>2. /\ segment(k) \in Segs /\ segment(k).first = k /\ segment(k).last = k
          /\ segment(k).text = kept[k].text
      BY <2>1, SegmentIs
    <2> HIDE DEF segment
    <2> QED BY <1>9, <2>2
  <1> HIDE DEF segment
  <1>11. seg \in Seq(Segs) /\ Len(seg) = n /\ Parted(seg, n) /\ n \in Nat
    <2>1. seg \in [1 .. n -> Segs] /\ \A k \in 1 .. n : seg[k].first = k /\ seg[k].last = k
      BY <1>10
    <2>2. n \in Nat
      BY <1>8
    <2> HIDE DEF seg
    <2> QED BY <2>1, <2>2, NumberedIs
  <1>12. ASSUME ~out.warned, NEW i \in 1 .. Len(c)
         PROVE  Seen(Word(i, c[i].width)) \subseteq Shown(seg)
    <2>0. ~(n < Len(c))
      BY <1>2, <1>12
    <2>a. Len(c) \in Nat /\ n \in Nat /\ n <= Len(c)
      <3>1. Len(c) \in Nat
        BY <1>1
      <3> QED BY <1>8, <3>1
    <2>1. n = Len(c)
      BY <2>0, <2>a
    <2>2. DOMAIN seg = 1 .. n /\ seg[i].text = Word(i, c[i].width)
      BY <1>10, <2>1
    <2> HIDE DEF seg
    <2> QED BY <2>1, <2>2 DEF Shown
  <1> QED BY <1>2, <1>11, <1>12 DEF out

(* Pages.                                                                  *)
Pages    == Texts \cup {Plain("empty"), Plain("unreadable")}
PdfState == [size : Nat, segments : Seq(Segs), warned : BOOLEAN]
PdfStart == [size |-> 0, segments |-> <<>>, warned |-> FALSE]

ReadPage(s, i, page) ==
  CASE s.size >= MaxExtracted        -> [s EXCEPT !.warned = TRUE]
    [] s.size < MaxExtracted /\ page.kind = "text" ->
         LET text == Word(i, page.width)
         IN  [s EXCEPT !.size = @ + Bytes(text),
                       !.segments = Append(@, Segment("other", text, i, i, <<>>))]
    [] s.size < MaxExtracted /\ page.kind = "empty"      -> s
    [] s.size < MaxExtracted /\ page.kind = "unreadable" -> [s EXCEPT !.warned = TRUE]

(* What a page adds, if it is read.                                        *)
PageRead(s, i, page, t) ==
  /\ t \in PdfState /\ (~t.warned => ~s.warned)
  /\ Shown(s.segments) \subseteq Shown(t.segments)
  /\ ~t.warned /\ page.kind = "text" => Seen(Word(i, page.width)) \subseteq Shown(t.segments)
  /\ Parted(s.segments, i - 1) => Parted(t.segments, i)

LEMMA ReadPageIs ==
  ASSUME NEW s \in PdfState, NEW i \in Nat \ {0}, NEW page \in Pages
  PROVE  PageRead(s, i, page, ReadPage(s, i, page))
  <1> DEFINE t == ReadPage(s, i, page)
  <1>1. /\ page.kind \in {"text", "empty", "unreadable"}
        /\ page.kind = "text" => page.width \in Nat
    BY WidthIs DEF Pages, Texts, Plain
  <1>2. s.size \in Nat /\ s.segments \in Seq(Segs) /\ s.warned \in BOOLEAN
    BY DEF PdfState
  <1>3. Parted(s.segments, i - 1) => Parted(s.segments, i)
    <2>1. i - 1 \in Nat /\ i \in Nat /\ i - 1 <= i
      OBVIOUS
    <2> QED BY <1>2, <2>1, PartedMore
  <1>4. CASE s.size >= MaxExtracted \/ (s.size < MaxExtracted /\ page.kind = "unreadable")
    <2>1. t = [s EXCEPT !.warned = TRUE]
      BY <1>2, <1>4, LimitsAre DEF ReadPage
    <2>2. t \in PdfState /\ t.warned /\ t.segments = s.segments
      BY <1>2, <2>1 DEF PdfState
    <2> HIDE DEF t
    <2> QED BY <1>3, <2>2 DEF t, PageRead
  <1>5. CASE s.size < MaxExtracted /\ page.kind = "empty"
    <2>1. t = s
      BY <1>2, <1>5, LimitsAre DEF ReadPage
    <2> QED BY <1>3, <1>5, <2>1 DEF PageRead
  <1>6. CASE s.size < MaxExtracted /\ page.kind = "text"
    <2> DEFINE text == Word(i, page.width)
               e == Segment("other", text, i, i, <<>>)
    <2>1. t = [s EXCEPT !.size = @ + Bytes(text), !.segments = Append(@, e)]
      BY <1>2, <1>6, LimitsAre DEF ReadPage
    <2>2. text \in Text
      BY <1>1, <1>6, WordIs
    <2> HIDE DEF text
    <2>3. e \in Segs /\ e.text = text /\ e.first = i /\ e.last = i
      <3>1. <<>> \in Paths /\ "other" \in Kinds
        BY EmptySeq DEF Paths, Kinds
      <3> QED BY <2>2, <3>1, SegmentIs
    <2> HIDE DEF e, t
    <2>4. Bytes(text) \in Nat /\ Append(s.segments, e) \in Seq(Segs)
      BY <1>2, <2>2, <2>3, BytesIs, AppendProperties
    <2>5. t \in PdfState /\ t.segments = Append(s.segments, e) /\ t.warned = s.warned
      <3>1. t = [size |-> s.size + Bytes(text), segments |-> Append(s.segments, e),
                 warned |-> s.warned]
        BY <2>1 DEF PdfState
      <3> QED BY <1>2, <2>4, <3>1 DEF PdfState
    <2>6. Shown(t.segments) = Shown(s.segments) \cup Seen(text)
      BY <1>2, <2>3, <2>5, ShownAppend
    <2>7. Parted(s.segments, i - 1) => Parted(t.segments, i)
      <3>1. i - 1 \in Nat /\ i - 1 < e.first /\ e.first <= e.last
        BY <2>3
      <3> QED BY <1>2, <2>3, <2>5, <3>1, PartedAppend
    <2> QED BY <2>5, <2>6, <2>7 DEF t, text, PageRead
  <1>7. s.size >= MaxExtracted \/ s.size < MaxExtracted
    BY <1>2, LimitsAre
  <1>8. \/ s.size >= MaxExtracted
        \/ s.size < MaxExtracted /\ page.kind = "unreadable"
        \/ s.size < MaxExtracted /\ page.kind = "empty"
        \/ s.size < MaxExtracted /\ page.kind = "text"
    BY <1>1, <1>7
  <1> QED BY <1>4, <1>5, <1>6, <1>8

LEMMA PagesGo ==
  ASSUME NEW pages \in Seq(Pages), NEW n \in Nat, n = Least(Len(pages), MaxPages)
  PROVE  /\ PagesRead(pages) \in [0 .. n -> PdfState]
         /\ PagesRead(pages)[0] = PdfStart
         /\ \A k \in 1 .. n : PagesRead(pages)[k] = ReadPage(PagesRead(pages)[k - 1], k, pages[k])
  <1> DEFINE step(s, k) == ReadPage(s, k, pages[k])
             F == [k \in 1 .. n |-> [s \in PdfState |-> step(s, k)]]
             Is(h) == h = [k \in 0 .. n |-> IF k = 0 THEN PdfStart ELSE step(h[k - 1], k)]
             read == CHOOSE h : Is(h)
  <1>1. \A k \in 1 .. n : k \in 1 .. Len(pages) /\ pages[k] \in Pages /\ k \in Nat \ {0}
    <2>1. Len(pages) \in Nat /\ n <= Len(pages)
      BY LenProperties, LeastIs, LimitsAre
    <2>2. \A k \in 1 .. n : k \in 1 .. Len(pages) /\ k \in Nat \ {0}
      BY <2>1
    <2> QED BY <2>2, ElementOfSeq
  <1>2. PagesRead(pages) = read
    BY DEF PagesRead, Loop, PdfStart, ReadPage
  <1>3. PdfStart \in PdfState
    BY EmptySeq DEF PdfStart, PdfState
  <1>4. \A k \in 1 .. n : \A s \in PdfState : step(s, k) \in PdfState
    BY <1>1, ReadPageIs DEF PageRead
  <1> HIDE DEF step
  <1>5. F \in [1 .. n -> [PdfState -> PdfState]]
    BY <1>4
  <1>6. PICK h : Runs(h, PdfState, PdfStart, F, n)
    <2> HIDE DEF F
    <2> QED BY <1>3, <1>5, LoopGoes
  <1>7. Is(h)
    <2>1. ASSUME NEW k \in 0 .. n, k # 0 PROVE F[k][h[k - 1]] = step(h[k - 1], k)
      <3>1. k \in 1 .. n /\ k - 1 \in 0 .. n
        BY <2>1
      <3>2. h[k - 1] \in PdfState
        BY <1>6, <3>1 DEF Runs
      <3> QED BY <3>1, <3>2
    <2> QED BY <1>6, <2>1 DEF Goes, Runs
  <1>8. Is(read)
    BY <1>7
  <1> HIDE DEF read
  <1>9. read[0] = PdfStart /\ \A k \in 1 .. n : read[k] = step(read[k - 1], k)
    BY <1>8
  <1> DEFINE G == {k \in 0 .. n : read[k] \in PdfState}
  <1>10. \A k \in 0 .. n : k \in G
    <2>1. 0 \in G
      BY <1>3, <1>9
    <2>2. ASSUME NEW k \in 1 .. n, k - 1 \in G PROVE k \in G
      BY <1>4, <1>9, <2>2
    <2> HIDE DEF G
    <2> QED BY <2>1, <2>2, UpTo
  <1>11. read \in [0 .. n -> PdfState]
    BY <1>8, <1>10
  <1> QED BY <1>2, <1>9, <1>11 DEF step

LEMMA PdfPagesIs ==
  ASSUME NEW pages \in Seq(Pages)
  PROVE  LET out == PdfPages(pages)
         IN  /\ out.segments \in Seq(Segs) /\ \E m \in Nat : Parted(out.segments, m)
             /\ ~out.warned => \A i \in 1 .. Len(pages) : pages[i].kind = "text" =>
                                 Seen(Word(i, pages[i].width)) \subseteq Shown(out.segments)
  <1> DEFINE n == Least(Len(pages), MaxPages)
             read == PagesRead(pages)
             Good(s, k) ==
               /\ s \in PdfState /\ Parted(s.segments, k)
               /\ ~s.warned => \A i \in 1 .. k : pages[i].kind = "text" =>
                                 Seen(Word(i, pages[i].width)) \subseteq Shown(s.segments)
             G == {k \in 0 .. n : Good(read[k], k)}
             end == read[n]
             out == PdfPages(pages)
  <1>1. Len(pages) \in Nat /\ n \in Nat /\ n <= Len(pages) /\ (~(MaxPages < Len(pages)) => n = Len(pages))
    <2>1. Len(pages) \in Nat
      BY LenProperties
    <2> QED BY <2>1, LimitsAre DEF Least
  <1>2. out.segments = end.segments /\ (~out.warned => ~end.warned /\ ~(MaxPages < Len(pages)))
    BY DEF PdfPages, Output
  <1>3. /\ read \in [0 .. n -> PdfState] /\ read[0] = PdfStart
        /\ \A k \in 1 .. n : read[k] = ReadPage(read[k - 1], k, pages[k])
    BY <1>1, PagesGo
  <1>4. \A k \in 1 .. n : pages[k] \in Pages
    <2>1. \A k \in 1 .. n : k \in 1 .. Len(pages)
      BY <1>1
    <2> QED BY <2>1, ElementOfSeq
  <1> HIDE DEF n, read, out
  <1>5. 0 \in G
    <2>1. PdfStart \in PdfState /\ Parted(PdfStart.segments, 0)
      BY EmptySeq DEF PdfStart, PdfState, Parted
    <2>2. 0 \in 0 .. n /\ \A i \in 1 .. 0 : FALSE
      BY <1>1
    <2> QED BY <1>3, <2>1, <2>2
  <1>6. ASSUME NEW k \in 1 .. n, k - 1 \in G PROVE k \in G
    <2> DEFINE s == read[k - 1]
               t == read[k]
    <2>1. k \in 0 .. n /\ k \in Nat \ {0} /\ t = ReadPage(s, k, pages[k]) /\ pages[k] \in Pages
      BY <1>1, <1>3, <1>4
    <2>2. Good(s, k - 1)
      BY <1>6
    <2> HIDE DEF s, t
    <2>3. /\ t \in PdfState /\ (~t.warned => ~s.warned)
          /\ Shown(s.segments) \subseteq Shown(t.segments)
          /\ ~t.warned /\ pages[k].kind = "text" =>
               Seen(Word(k, pages[k].width)) \subseteq Shown(t.segments)
          /\ Parted(s.segments, k - 1) => Parted(t.segments, k)
      BY <2>1, <2>2, ReadPageIs DEF PageRead
    <2>4. ASSUME ~t.warned, NEW i \in 1 .. k, pages[i].kind = "text"
          PROVE  Seen(Word(i, pages[i].width)) \subseteq Shown(t.segments)
      <3>1. CASE i = k
        BY <2>3, <2>4, <3>1
      <3>2. CASE i # k
        <4>1. i \in 1 .. k - 1
          BY <3>2
        <4> QED BY <2>2, <2>3, <2>4, <4>1
      <3> QED BY <3>1, <3>2
    <2>5. Good(t, k)
      BY <2>2, <2>3, <2>4
    <2> QED BY <2>1, <2>5 DEF t
  <1>7. \A k \in 0 .. n : k \in G
    <2> HIDE DEF G
    <2> QED BY <1>1, <1>5, <1>6, UpTo
  <1>8. Good(end, n)
    <2>1. n \in 0 .. n
      BY <1>1
    <2> QED BY <1>7, <2>1
  <1> HIDE DEF end
  <1>9. end.segments \in Seq(Segs) /\ Parted(end.segments, n)
    BY <1>8 DEF PdfState
  <1>10. ASSUME ~out.warned, NEW i \in 1 .. Len(pages), pages[i].kind = "text"
         PROVE  Seen(Word(i, pages[i].width)) \subseteq Shown(end.segments)
    <2>1. n = Len(pages) /\ ~end.warned
      BY <1>1, <1>2, <1>10
    <2> QED BY <1>8, <1>10, <2>1
  <1> QED BY <1>1, <1>2, <1>9, <1>10 DEF out

LEMMA ItemsAre ==
  ASSUME NEW f \in Format
  PROVE  /\ f \in {"text", "markdown", "html", "docx", "pdf"}
         /\ f = "text" => Items(f) \subseteq Lines
         /\ f = "markdown" => Items(f) \subseteq Lines
         /\ f = "html" => Items(f) \subseteq Tokens
         /\ f = "docx" => Items(f) \subseteq Texts
         /\ f = "pdf" => Items(f) \subseteq Pages
         /\ f # "markdown" => \A item \in Items(f) : item.kind # "heading"
  <1>1. f \in {"text", "markdown", "html", "docx", "pdf"}
    BY ChunkingAssumption
  <1>2. CASE f = "text"
    BY <1>2 DEF Items, Lines, Texts, Plain
  <1>3. CASE f = "markdown"
    BY <1>3 DEF Items, Lines
  <1>4. CASE f = "html"
    BY <1>4 DEF Items, Tokens, Texts, Plain
  <1>5. CASE f = "docx"
    BY <1>5 DEF Items, Texts
  <1>6. CASE f = "pdf"
    BY <1>6 DEF Items, Pages, Texts, Plain
  <1> QED BY <1>1, <1>2, <1>3, <1>4, <1>5, <1>6

LEMMA ContentIs ==
  ASSUME NEW f, NEW c \in Files(f)
  PROVE  /\ c \in Seq(Items(f)) /\ Len(c) \in Nat /\ DOMAIN c = 1 .. Len(c)
         /\ \A i \in 1 .. Len(c) : c[i] \in Items(f)
  <1>1. c \in Seq(Items(f))
    <2>1. PICK n \in 0 .. MaxItems : c \in [1 .. n -> Items(f)]
      BY DEF Files
    <2>2. n \in Nat
      BY LimitsAre
    <2> QED BY <2>1, <2>2, SeqDef
  <1> QED BY <1>1, LenProperties, ElementOfSeq

(* What is seen of an item, wherever the extractors put it.                *)
ItemShown(c, i, segments) ==
  /\ c[i].kind = "text" /\ ~(Depths(c)[i] > 0) =>
       Seen(Word(i, c[i].width)) \subseteq Shown(segments)
  /\ c[i].kind = "heading" => Seen(Word(i, 1)) \subseteq Shown(segments)

LEMMA ExtractedIs ==
  ASSUME NEW f \in Format, NEW c \in Files(f)
  PROVE  LET out == Extracted(f, c)
         IN  /\ out.segments \in Seq(Segs) /\ \E m \in Nat : Parted(out.segments, m)
             /\ ~out.warned => \A i \in 1 .. Len(c) : ItemShown(c, i, out.segments)
  <1> DEFINE out == Extracted(f, c)
  <1>1. /\ c \in Seq(Items(f)) /\ Len(c) \in Nat /\ DOMAIN c = 1 .. Len(c)
        /\ \A i \in 1 .. Len(c) : c[i] \in Items(f)
    BY ContentIs
  <1>2. \A i \in 1 .. Len(c) : f # "markdown" => c[i].kind # "heading"
    BY <1>1, ItemsAre
  <1>3. CASE f \in {"text", "markdown"}
    <2> DEFINE segments == LineSegments(c)
    <2>1. c \in Seq(Lines)
      BY <1>1, <1>3, ItemsAre, SeqMonotonic
    <2>2. Settled(segments, Len(c), Len(c), c)
      BY <2>1, LineSegmentsAre
    <2> HIDE DEF segments
    <2>3. segments \in Seq(Segs) /\ Parted(segments, Len(c))
      BY <2>2 DEF Settled
    <2>4. /\ out.segments \in Seq(Segs) /\ Begins(out.segments, segments)
          /\ ~out.warned => out.segments = segments
      <3>1. CASE f = "text"
        <4>1. out = LimitedText(segments, LineChars(c))
          BY <3>1 DEF Extracted, segments
        <4> QED BY <2>3, <4>1, LimitedTextIs
      <3>2. CASE f = "markdown"
        <4>1. out = LimitedLines(segments, LineChars(c))
          BY <3>2 DEF Extracted, segments
        <4> QED BY <2>3, <4>1, LimitedLinesIs
      <3> QED BY <1>3, <3>1, <3>2
    <2>5. Parted(out.segments, Len(c))
      BY <2>3, <2>4, BeginsParted
    <2>6. ASSUME NEW i \in 1 .. Len(c) PROVE ItemShown(c, i, segments)
      <3>1. c[i] \in Lines /\ i \in Nat \ {0}
        BY <1>1, <1>3, ItemsAre
      <3>2. Lettered(c[i]) => Seen(LineText(i, c[i])) \subseteq Shown(segments)
        BY <2>2 DEF Settled
      <3> QED BY <3>1, <3>2, LineTextIs DEF ItemShown, Lettered
    <2> HIDE DEF out
    <2> QED BY <1>1, <2>4, <2>5, <2>6 DEF out
  <1>4. CASE f = "html"
    <2> DEFINE blocks == HtmlBlocks(c)
    <2>1. c \in Seq(Tokens)
      BY <1>1, <1>4, ItemsAre, SeqMonotonic
    <2>2. /\ blocks \in Seq(Blocks)
          /\ \A i \in 1 .. Len(c) : c[i].kind = "text" /\ ~(Depths(c)[i] > 0) =>
               Seen(Word(i, c[i].width)) \subseteq Shown(blocks)
      BY <2>1, HtmlBlocksAre
    <2>3. out = LimitedBlocks(blocks)
      BY <1>4 DEF Extracted
    <2> HIDE DEF blocks, out
    <2>4. /\ out.segments \in Seq(Segs) /\ \E m \in Nat : Parted(out.segments, m)
          /\ ~out.warned => Shown(out.segments) = Shown(blocks)
      BY <2>2, <2>3, LimitedBlocksIs
    <2> QED BY <1>2, <1>4, <2>2, <2>4 DEF ItemShown, out
  <1>5. CASE f = "docx"
    <2>1. c \in Seq(Texts)
      BY <1>1, <1>5, ItemsAre, SeqMonotonic
    <2>2. out = DocxParagraphs(c)
      BY <1>5 DEF Extracted
    <2> HIDE DEF out
    <2>3. /\ out.segments \in Seq(Segs) /\ \E m \in Nat : Parted(out.segments, m)
          /\ ~out.warned => \A i \in 1 .. Len(c) :
                              Seen(Word(i, c[i].width)) \subseteq Shown(out.segments)
      BY <2>1, <2>2, DocxParagraphsIs
    <2> QED BY <1>2, <1>5, <2>3 DEF ItemShown, out
  <1>6. CASE f = "pdf"
    <2>1. c \in Seq(Pages)
      BY <1>1, <1>6, ItemsAre, SeqMonotonic
    <2>2. out = PdfPages(c)
      BY <1>6 DEF Extracted
    <2> HIDE DEF out
    <2>3. /\ out.segments \in Seq(Segs) /\ \E m \in Nat : Parted(out.segments, m)
          /\ ~out.warned => \A i \in 1 .. Len(c) : c[i].kind = "text" =>
                              Seen(Word(i, c[i].width)) \subseteq Shown(out.segments)
      BY <2>1, <2>2, PdfPagesIs
    <2> QED BY <1>2, <1>6, <2>3 DEF ItemShown, out
  <1> QED BY <1>3, <1>4, <1>5, <1>6, ItemsAre

-----------------------------------------------------------------------------
(* The states of a file on its way                                         *)

OnItsWay ==
  /\ format \in Format /\ content \in Files(format)
  /\ stage \in {"found", "extracted", "chunked"}
  /\ stage # "found" => output = Extracted(format, content)
  /\ chunks = IF stage = "chunked" THEN Chunked(output.segments, Quality(format)) ELSE <<>>

LEMMA AlwaysOnItsWay == Spec => []OnItsWay
  <1>1. Init => OnItsWay
    BY DEF Init, OnItsWay
  <1>2. OnItsWay /\ [Next]_vars => OnItsWay'
    <2> SUFFICES ASSUME OnItsWay, [Next]_vars PROVE OnItsWay'
      OBVIOUS
    <2>1. CASE ExtractContent
      BY <2>1 DEF ExtractContent, OnItsWay
    <2>2. CASE CutInChunks
      BY <2>2 DEF CutInChunks, OnItsWay
    <2>3. CASE UNCHANGED vars
      BY <2>3 DEF vars, OnItsWay
    <2> QED BY <2>1, <2>2, <2>3 DEF Next
  <1> QED BY <1>1, <1>2, PTL DEF Spec

-----------------------------------------------------------------------------
(* Nothing is left out without a warning                                   *)

LEMMA LettersShown ==
  ASSUME OnItsWay
  PROVE  CutIsWarned
  <1> SUFFICES ASSUME stage # "found", ~output.warned, NEW i \in DOMAIN content
               PROVE  Letters(i) \subseteq Shown(output.segments)
    BY DEF CutIsWarned, Shown
  <1>1. /\ format \in Format /\ content \in Files(format) /\ output = Extracted(format, content)
    BY DEF OnItsWay
  <1>2. i \in 1 .. Len(content)
    BY <1>1, ContentIs
  <1>3. ItemShown(content, i, output.segments)
    BY <1>1, <1>2, ExtractedIs
  <1> QED BY <1>3 DEF Letters, ItemShown, Hidden

(* What a reader of a file sees of it is in the extracted text, or the     *)
(* output warns, whatever the limits and however long the file: the lines  *)
(* or the block that are still open, the headings, the pages, none is lost *)
(* on the way (types.rs:274-276, html.rs:130-227, pdf.rs:86-158).          *)
THEOREM CutWarned == Spec => []CutIsWarned
  <1>1. OnItsWay => CutIsWarned
    BY LettersShown
  <1> QED BY <1>1, AlwaysOnItsWay, PTL

-----------------------------------------------------------------------------
(* Windows *)

Cuts == [kind : {"document", "section", "paragraph", "fallback"}, text : Text, first : Int,
         last : Int, path : Paths, quality : {"exact", "approximate", "unknown"}]

LEMMA ChunkIs ==
  ASSUME NEW kind \in {"document", "section", "paragraph", "fallback"}, NEW text \in Text,
         NEW first \in Int, NEW last \in Int, NEW path \in Paths,
         NEW quality \in {"exact", "approximate", "unknown"}
  PROVE  LET chunk == Chunk(kind, text, first, last, path, quality)
         IN  /\ chunk \in Cuts /\ chunk.kind = kind /\ chunk.text = text
             /\ chunk.first = first /\ chunk.last = last /\ chunk.path = path
  BY DEF Chunk, Cuts

(* A run of characters one longer than the overlap, or shorter.            *)
Phrase(r) == r \in Text /\ Len(r) \in 1 .. OverlapChars + 1 /\ NewLine \notin ToSet(r)

Holds(cuts, r) == \E k \in 1 .. Len(cuts) : ToSet(r) \subseteq Seen(cuts[k].text)

LEMMA PhraseIs ==
  ASSUME NEW r, Phrase(r)
  PROVE  /\ ToSet(r) = Seen(r) /\ Seen(r) # {}
         /\ \A p \in 1 .. Len(r) : r[p] # NewLine
  <1>1. r \in Text /\ Len(r) \in 1 .. OverlapChars + 1 /\ NewLine \notin ToSet(r)
    BY DEF Phrase
  <1>2. ToSet(r) = Seen(r)
    BY <1>1 DEF Seen
  <1>3. \A p \in 1 .. Len(r) : r[p] \in ToSet(r)
    BY <1>1, SeenIs DEF ToSet
  <1>4. 1 \in 1 .. Len(r)
    BY <1>1, LimitsAre
  <1> QED BY <1>1, <1>2, <1>3, <1>4

LEMMA HoldsMore ==
  ASSUME NEW S, NEW s \in Seq(S), NEW t \in Seq(S), NEW r
  PROVE  /\ Holds(s, r) => Holds(s \o t, r)
         /\ Holds(t, r) => Holds(s \o t, r)
  <1>1. /\ Len(s) \in Nat /\ Len(t) \in Nat /\ Len(s \o t) = Len(s) + Len(t)
        /\ \A i \in 1 .. Len(s) + Len(t) :
             (s \o t)[i] = IF i <= Len(s) THEN s[i] ELSE t[i - Len(s)]
    BY ConcatProperties, LenProperties
  <1>2. ASSUME NEW k \in 1 .. Len(s), ToSet(r) \subseteq Seen(s[k].text) PROVE Holds(s \o t, r)
    <2>1. k \in 1 .. Len(s \o t) /\ k \in 1 .. Len(s) + Len(t) /\ k <= Len(s)
      BY <1>1
    <2>2. (s \o t)[k] = s[k]
      BY <1>1, <2>1
    <2> QED BY <1>2, <2>1, <2>2 DEF Holds
  <1>3. ASSUME NEW k \in 1 .. Len(t), ToSet(r) \subseteq Seen(t[k].text) PROVE Holds(s \o t, r)
    <2>1. /\ Len(s) + k \in 1 .. Len(s \o t) /\ Len(s) + k \in 1 .. Len(s) + Len(t)
          /\ ~(Len(s) + k <= Len(s)) /\ (Len(s) + k) - Len(s) = k
      BY <1>1
    <2>2. (s \o t)[Len(s) + k] = t[k]
      BY <1>1, <2>1
    <2> QED BY <1>3, <2>1, <2>2 DEF Holds
  <1> QED BY <1>2, <1>3 DEF Holds

LEMMA OneHolds ==
  ASSUME NEW w, NEW r, ToSet(r) \subseteq Seen(w.text)
  PROVE  Holds(<<w>>, r)
  BY 1 \in 1 .. 1, Len(<<w>>) = 1 DEF Holds

(* The windows from each start on: the function the code's loop computes.  *)
Window(text, first, last, path, start) ==
  LET size     == Len(text)
      lines    == Greatest(1, last - first)
      Line(at) == first + (lines * at) \div size
      end      == Least(start + MaxChars, size)
  IN  Chunk("fallback", Trim(SubSeq(text, start + 1, end)),
            Line(start), Line(end), path, "approximate")

End(size, start) == Least(start + MaxChars, size)

LEMMA WindowIs ==
  ASSUME NEW text \in Text, Len(text) # 0, NEW first \in Nat, NEW last \in Nat, NEW path \in Paths,
         NEW start \in 0 .. Len(text)
  PROVE  LET w == Window(text, first, last, path, start)
         IN  /\ w \in Cuts /\ w.kind = "fallback" /\ w.path = path
             /\ Seen(w.text) \subseteq Seen(text)
             /\ \A p \in start + 1 .. End(Len(text), start) : text[p] # NewLine =>
                  text[p] \in Seen(w.text)
  <1> DEFINE size == Len(text)
             lines == Greatest(1, last - first)
             end == Least(start + MaxChars, size)
             sub == SubSeq(text, start + 1, end)
             from == first + (lines * start) \div size
             to == first + (lines * end) \div size
             w == Window(text, first, last, path, start)
  <1>1. size \in Nat /\ size > 0
    BY SeenIs
  <1>2. end \in Nat /\ start <= end /\ end <= size
    BY <1>1, LimitsAre DEF Least
  <1>3. lines \in Nat
    BY DEF Greatest
  <1>4. w = Chunk("fallback", Trim(sub), from, to, path, "approximate")
    BY DEF Window
  <1>e. End(Len(text), start) = end
    BY DEF End
  <1> HIDE DEF lines, end
  <1>5. from \in Int /\ to \in Int
    <2>1. lines * start \in Int /\ lines * end \in Int
      BY <1>2, <1>3
    <2> DEFINE x == lines * start
               y == lines * end
    <2> HIDE DEF x, y
    <2>2. x \div size \in Int /\ y \div size \in Int
      BY <1>1, <2>1 DEF x, y
    <2> QED BY <2>2 DEF x, y
  <1>6. /\ sub \in Text
        /\ \A c : c \in ToSet(sub) <=> \E p \in start + 1 .. end : text[p] = c
    <2>1. start + 1 \in 1 .. Len(text) + 1 /\ end \in 0 .. Len(text) /\ start + 1 <= end + 1
      BY <1>1, <1>2
    <2> QED BY <2>1, SubTextIs
  <1> HIDE DEF from, to, sub, w
  <1>7. Trim(sub) \in Text /\ Seen(Trim(sub)) = Seen(sub)
    BY <1>6, TrimIsText
  <1>8. w \in Cuts /\ w.kind = "fallback" /\ w.text = Trim(sub) /\ w.path = path
    BY <1>4, <1>5, <1>7, ChunkIs
  <1>9. \A p \in start + 1 .. end : text[p] # NewLine => text[p] \in Seen(sub)
    BY <1>6 DEF Seen
  <1>10. Seen(sub) \subseteq Seen(text)
    <2>1. \A p \in start + 1 .. end : p \in 1 .. Len(text)
      BY <1>1, <1>2
    <2>2. \A c : c \in Seen(sub) => c # NewLine /\ \E p \in 1 .. Len(text) : text[p] = c
      BY <1>6, <2>1 DEF Seen
    <2> QED BY <2>2, SeenIs
  <1> QED BY <1>7, <1>8, <1>9, <1>10, <1>e DEF w

FromIs(from, text, first, last, path) ==
  from = [start \in 0 .. Len(text) |->
            IF End(Len(text), start) = Len(text)
            THEN <<Window(text, first, last, path, start)>>
            ELSE <<Window(text, first, last, path, start)>>
                   \o from[NextWindow(End(Len(text), start))]]

LEMMA NextIsLater ==
  ASSUME NEW size \in Nat, NEW start \in 0 .. size, End(size, start) # size
  PROVE  /\ NextWindow(End(size, start)) \in 0 .. size
         /\ NextWindow(End(size, start)) > start
         /\ NextWindow(End(size, start)) = End(size, start) - OverlapChars
         /\ End(size, start) \in Nat
  <1>1. End(size, start) = start + MaxChars /\ start + MaxChars < size
    BY LimitsAre DEF End, Least
  <1> QED BY <1>1, LimitsAre DEF NextWindow, Greatest

(* There is such a function: it is built from the last start down.         *)
LEMMA FromExists ==
  ASSUME NEW text \in Text, Len(text) # 0, NEW first \in Nat, NEW last \in Nat, NEW path \in Paths
  PROVE  \E from \in [0 .. Len(text) -> Seq(Cuts)] : FromIs(from, text, first, last, path)
  <1> DEFINE size == Len(text)
             w(start) == Window(text, first, last, path, start)
             body(g, start) == IF End(size, start) = size THEN <<w(start)>>
                               ELSE <<w(start)>> \o g[NextWindow(End(size, start))]
             Right(g, m) == /\ g \in [0 .. size -> Seq(Cuts)]
                            /\ \A start \in 0 .. size : start >= size - m => g[start] = body(g, start)
             G == {m \in 0 .. size : \E g : Right(g, m)}
  <1>1. size \in Nat /\ \A start \in 0 .. size : w(start) \in Cuts
    BY SeenIs, WindowIs
  <1>n. \A start \in 0 .. size : End(size, start) # size =>
          /\ NextWindow(End(size, start)) \in 0 .. size
          /\ NextWindow(End(size, start)) > start
    BY <1>1, NextIsLater
  <1> HIDE DEF size, w
  <1>2. ASSUME NEW g \in [0 .. size -> Seq(Cuts)], NEW start \in 0 .. size
        PROVE  body(g, start) \in Seq(Cuts)
    <2>1. <<w(start)>> \in Seq(Cuts)
      BY <1>1
    <2>2. CASE End(size, start) = size
      BY <2>1, <2>2
    <2>3. CASE End(size, start) # size
      <3>1. g[NextWindow(End(size, start))] \in Seq(Cuts)
        BY <1>n, <1>2, <2>3
      <3> QED BY <2>1, <2>3, <3>1, ConcatProperties
    <2> QED BY <2>2, <2>3
  <1>3. ASSUME NEW m \in 0 .. size, NEW g \in [0 .. size -> Seq(Cuts)],
               \A start \in 0 .. size : start > size - m => g[start] = body(g, start)
        PROVE  \E h : Right(h, m)
    <2> DEFINE at == size - m
               h == [g EXCEPT ![at] = body(g, at)]
    <2>1. at \in 0 .. size
      BY <1>1
    <2>2. h \in [0 .. size -> Seq(Cuts)] /\ h[at] = body(g, at)
          /\ \A start \in 0 .. size : start # at => h[start] = g[start]
      <3>1. body(g, at) \in Seq(Cuts)
        BY <1>2, <2>1
      <3> HIDE DEF body, at
      <3> QED BY <2>1, <3>1
    <2> HIDE DEF h
    <2>3. ASSUME NEW start \in 0 .. size, start >= at PROVE body(h, start) = body(g, start)
      <3>1. CASE End(size, start) = size
        BY <3>1
      <3>2. CASE End(size, start) # size
        <4>1. NextWindow(End(size, start)) \in 0 .. size /\ NextWindow(End(size, start)) # at
          <5>1. NextWindow(End(size, start)) \in 0 .. size /\ NextWindow(End(size, start)) > start
            BY <1>n, <3>2
          <5> QED BY <1>1, <2>1, <2>3, <5>1
        <4>2. h[NextWindow(End(size, start))] = g[NextWindow(End(size, start))]
          BY <2>2, <4>1
        <4> QED BY <3>2, <4>2
      <3> QED BY <3>1, <3>2
    <2>4. ASSUME NEW start \in 0 .. size, start >= at PROVE h[start] = body(h, start)
      <3>1. body(h, start) = body(g, start)
        BY <2>3, <2>4
      <3>2. CASE start = at
        BY <2>2, <3>1, <3>2
      <3>3. CASE start # at
        <4>1. start > at
          BY <1>1, <2>4, <3>3
        <4>2. g[start] = body(g, start)
          BY <1>3, <4>1
        <4> QED BY <2>2, <3>1, <3>3, <4>2
      <3> QED BY <3>2, <3>3
    <2> HIDE DEF body
    <2>5. Right(h, m)
      BY <2>2, <2>4
    <2> QED BY <2>5
  <1>4. 0 \in G
    <2> DEFINE g == [start \in 0 .. size |-> <<>>]
    <2>1. g \in [0 .. size -> Seq(Cuts)]
      BY EmptySeq
    <2>2. 0 \in 0 .. size /\ \A start \in 0 .. size : ~(start > size - 0)
      BY <1>1
    <2> HIDE DEF g, body
    <2>3. \E h : Right(h, 0)
      BY <1>3, <2>1, <2>2
    <2> QED BY <2>2, <2>3
  <1>5. ASSUME NEW m \in 1 .. size, m - 1 \in G PROVE m \in G
    <2>1. PICK g : Right(g, m - 1)
      BY <1>5
    <2>2. m \in 0 .. size /\ \A start \in 0 .. size : start > size - m => start >= size - (m - 1)
      BY <1>1
    <2> HIDE DEF body
    <2>3. \E h : Right(h, m)
      BY <1>3, <2>1, <2>2
    <2> QED BY <2>2, <2>3
  <1>6. size \in G
    <2> HIDE DEF G
    <2>1. \A m \in 0 .. size : m \in G
      BY <1>1, <1>4, <1>5, UpTo
    <2> QED BY <1>1, <2>1
  <1>7. PICK from : Right(from, size)
    BY <1>6
  <1>8. \A start \in 0 .. size : from[start] = body(from, start)
    <2>1. \A start \in 0 .. size : start >= size - size
      BY <1>1
    <2> HIDE DEF body
    <2> QED BY <1>7, <2>1
  <1>9. from = [start \in 0 .. size |-> from[start]]
    BY <1>7
  <1>10. from = [start \in 0 .. size |-> body(from, start)]
    <2> HIDE DEF body
    <2> QED BY <1>8, <1>9
  <1> QED BY <1>7, <1>10 DEF FromIs, size, w

WindowOf(w, text, path) ==
  w.kind = "fallback" /\ w.path = path /\ Seen(w.text) \subseteq Seen(text)

(* Every phrase of a text is whole in one of its windows.                  *)
LEMMA WindowsAre ==
  ASSUME NEW text \in Text, NEW first \in Nat, NEW last \in Nat, NEW path \in Paths
  PROVE  LET cuts == Windows(text, first, last, path)
         IN  /\ cuts \in Seq(Cuts)
             /\ \A k \in 1 .. Len(cuts) : WindowOf(cuts[k], text, path)
             /\ \A r : Phrase(r) /\ Inside(r, text) => Holds(cuts, r)
  <1> DEFINE size == Len(text)
             w(start) == Window(text, first, last, path, start)
             from == CHOOSE g : FromIs(g, text, first, last, path)
             After(start) == NextWindow(End(size, start))
  <1>1. size \in Nat
    BY SeenIs
  <1>2. CASE size = 0
    <2>1. Windows(text, first, last, path) = <<>>
      BY <1>2 DEF Windows
    <2>2. ASSUME NEW r, Phrase(r), Inside(r, text) PROVE FALSE
      <3>1. Len(r) \in 1 .. OverlapChars + 1 /\ \E off \in Nat : off + Len(r) <= size
        BY <2>2 DEF Phrase, Inside
      <3> QED BY <1>2, <3>1, LimitsAre
    <2> QED BY <2>1, <2>2, EmptySeq
  <1>3. CASE size # 0
    <2>1. Windows(text, first, last, path) = from[0]
      BY <1>3 DEF Windows, FromIs, Window, End
    <2>2. FromIs(from, text, first, last, path)
      BY <1>3, FromExists
    <2> HIDE DEF from
    <2>3. \A start \in 0 .. size : w(start) \in Cuts /\ WindowOf(w(start), text, path)
      BY <1>3, WindowIs DEF WindowOf
    <2>4. \A start \in 0 .. size :
            /\ End(size, start) = size => from[start] = <<w(start)>>
            /\ End(size, start) # size => from[start] = <<w(start)>> \o from[After(start)]
      BY <2>2 DEF FromIs
    <2>5. \A start \in 0 .. size : End(size, start) # size =>
            After(start) \in 0 .. size /\ After(start) > start
      BY <1>1, NextIsLater
    <2>s. ASSUME NEW start \in 0 .. size, NEW p \in start + 1 .. End(size, start), text[p] # NewLine
          PROVE  text[p] \in Seen(w(start).text)
      BY <1>3, <2>s, WindowIs
    <2> HIDE DEF w, After, size
    <2> DEFINE Typed(cuts) == cuts \in Seq(Cuts) /\ \A k \in 1 .. Len(cuts) : WindowOf(cuts[k], text, path)
               G == {start \in 0 .. size : Typed(from[start])}
    <2>6. \A start \in 0 .. size : start \in G
      <3>1. ASSUME NEW start \in 0 .. size, \A j \in 0 .. size : j > start => j \in G
            PROVE  start \in G
        <4>1. Typed(<<w(start)>>)
          <5>1. <<w(start)>> \in Seq(Cuts) /\ Len(<<w(start)>>) = 1 /\ \A k \in 1 .. 1 : k = 1
            BY <2>3
          <5>2. <<w(start)>>[1] = w(start)
            OBVIOUS
          <5> QED BY <2>3, <5>1, <5>2
        <4>2. CASE End(size, start) = size
          <5>1. from[start] = <<w(start)>>
            BY <2>4, <4>2
          <5> HIDE DEF Typed
          <5> QED BY <4>1, <5>1
        <4>3. CASE End(size, start) # size
          <5> DEFINE s == <<w(start)>>
                     t == from[After(start)]
          <5>1. from[start] = s \o t
            BY <2>4, <4>3
          <5>2. Typed(s) /\ Typed(t)
            BY <2>5, <3>1, <4>1, <4>3
          <5> HIDE DEF s, t
          <5>3. /\ s \o t \in Seq(Cuts) /\ Len(s) \in Nat /\ Len(t) \in Nat
                /\ Len(s \o t) = Len(s) + Len(t)
                /\ \A i \in 1 .. Len(s) + Len(t) :
                     (s \o t)[i] = IF i <= Len(s) THEN s[i] ELSE t[i - Len(s)]
            BY <5>2, ConcatProperties, LenProperties
          <5>4. ASSUME NEW i \in 1 .. Len(s \o t) PROVE WindowOf((s \o t)[i], text, path)
            <6>1. CASE i <= Len(s)
              <7>1. i \in 1 .. Len(s) /\ (s \o t)[i] = s[i]
                BY <5>3, <6>1
              <7> QED BY <5>2, <7>1
            <6>2. CASE ~(i <= Len(s))
              <7>1. i - Len(s) \in 1 .. Len(t) /\ (s \o t)[i] = t[i - Len(s)]
                BY <5>3, <6>2
              <7> QED BY <5>2, <7>1
            <6> QED BY <6>1, <6>2
          <5>5. Typed(s \o t)
            BY <5>3, <5>4
          <5> HIDE DEF Typed
          <5> QED BY <5>1, <5>5
        <4> QED BY <4>2, <4>3
      <3> HIDE DEF G
      <3> QED BY <1>1, <3>1, DownTo
    <2>7. ASSUME NEW r, Phrase(r), Inside(r, text) PROVE Holds(from[0], r)
      <3>1. PICK off \in Nat : off + Len(r) <= size /\ \A p \in 1 .. Len(r) : text[off + p] = r[p]
        BY <2>7 DEF Inside, size
      <3>2. Len(r) \in 1 .. OverlapChars + 1 /\ Len(r) \in Nat /\ r \in Text
        BY <2>7, LimitsAre DEF Phrase
      <3>3. \A p \in 1 .. Len(r) : r[p] # NewLine
        BY <2>7, PhraseIs
      <3> DEFINE H == {start \in 0 .. size : start <= off => Holds(from[start], r)}
      <3>4. ASSUME NEW start \in 0 .. size, \A j \in 0 .. size : j > start => j \in H
            PROVE  start \in H
        <4> SUFFICES ASSUME start <= off PROVE Holds(from[start], r)
          OBVIOUS
        <4> DEFINE end == End(size, start)
        <4>1. end \in Nat
          BY <1>1, LimitsAre DEF End, Least
        <4>2. CASE off + Len(r) <= end
          <5>1. ToSet(r) \subseteq Seen(w(start).text)
            <6>1. ASSUME NEW p \in 1 .. Len(r) PROVE r[p] \in Seen(w(start).text)
              <7>1. off + p \in start + 1 .. end
                BY <3>1, <3>2, <4>1, <4>2
              <7>2. text[off + p] = r[p] /\ r[p] # NewLine
                BY <3>1, <3>3
              <7> HIDE DEF end
              <7> QED BY <2>s, <7>1, <7>2 DEF end
            <6>2. \A c \in ToSet(r) : \E p \in 1 .. Len(r) : r[p] = c
              BY <3>2, SeenIs DEF ToSet
            <6> QED BY <6>1, <6>2
          <5>2. Holds(<<w(start)>>, r)
            BY <5>1, OneHolds
          <5>3. CASE end = size
            BY <2>4, <5>2, <5>3
          <5>4. CASE end # size
            <6>1. from[start] = <<w(start)>> \o from[After(start)] /\ After(start) \in G
              BY <2>4, <2>5, <2>6, <5>4
            <6>2. <<w(start)>> \in Seq(Cuts) /\ from[After(start)] \in Seq(Cuts)
              BY <2>3, <6>1
            <6> QED BY <5>2, <6>1, <6>2, HoldsMore
          <5> QED BY <5>3, <5>4
        <4>3. CASE ~(off + Len(r) <= end)
          <5>1. end # size
            BY <1>1, <3>1, <3>2, <4>3
          <5>2. After(start) = end - OverlapChars
            BY <1>1, <5>1, NextIsLater DEF After
          <5>3. After(start) <= off
            BY <3>1, <3>2, <4>1, <4>3, <5>2, LimitsAre
          <5>4. After(start) \in 0 .. size /\ After(start) > start
            BY <2>5, <5>1
          <5>5. Holds(from[After(start)], r)
            BY <3>4, <5>3, <5>4
          <5>6. from[start] = <<w(start)>> \o from[After(start)] /\ After(start) \in G
            BY <2>4, <2>6, <5>1, <5>4
          <5>7. <<w(start)>> \in Seq(Cuts) /\ from[After(start)] \in Seq(Cuts)
            BY <2>3, <5>6
          <5> QED BY <5>5, <5>6, <5>7, HoldsMore
        <4> QED BY <4>2, <4>3
      <3>5. \A start \in 0 .. size : start \in H
        <4> HIDE DEF H
        <4> QED BY <1>1, <3>4, DownTo
      <3>6. 0 \in 0 .. size /\ 0 <= off
        BY <1>1
      <3> QED BY <3>5, <3>6
    <2>8. Typed(from[0])
      <3>1. 0 \in 0 .. size
        BY <1>1
      <3> QED BY <2>6, <3>1
    <2> QED BY <2>1, <2>7, <2>8
  <1> QED BY <1>2, <1>3

-----------------------------------------------------------------------------
(* A text as chunks                                                        *)

Qualities == {"exact", "approximate", "unknown"}
Whole     == {"section", "paragraph"}

(* A chunk is a window, or the text it was given and where it stands.      *)
FitsOf(cuts, text, first, last, path) ==
  /\ cuts \in Seq(Cuts)
  /\ \A k \in 1 .. Len(cuts) : cuts[k].path = path /\ Seen(cuts[k].text) \subseteq Seen(text)
  /\ \A k \in 1 .. Len(cuts) :
       \/ cuts[k].kind = "fallback"
       \/ cuts[k].text = text /\ cuts[k].first = first /\ cuts[k].last = last
  /\ \A r : Phrase(r) /\ Inside(r, text) => Holds(cuts, r)

LEMMA FittedIs ==
  ASSUME NEW kind \in Whole, NEW text \in Text, NEW first \in Nat, NEW last \in Nat,
         NEW path \in Paths, NEW quality \in Qualities
  PROVE  /\ FitsOf(Fitted(kind, text, first, last, path, quality), text, first, last, path)
         /\ Seen(text) = {} => Fitted(kind, text, first, last, path, quality) = <<>>
  <1> DEFINE cuts == Fitted(kind, text, first, last, path, quality)
  <1>1. CASE Seen(text) = {}
    <2>1. cuts = <<>>
      BY <1>1 DEF Fitted
    <2>2. ASSUME NEW r, Phrase(r), Inside(r, text) PROVE FALSE
      <3>1. r \in Text /\ Seen(r) # {}
        BY <2>2, PhraseIs DEF Phrase
      <3>2. Seen(r) \subseteq Seen(text)
        BY <2>2, <3>1, InsideIsSeen
      <3> QED BY <1>1, <3>1, <3>2
    <2>3. <<>> \in Seq(Cuts) /\ \A k \in 1 .. Len(<<>>) : FALSE
      BY EmptySeq
    <2>4. FitsOf(<<>>, text, first, last, path)
      BY <2>2, <2>3 DEF FitsOf
    <2> HIDE DEF cuts
    <2> QED BY <2>1, <2>4 DEF cuts
  <1>2. CASE Seen(text) # {} /\ Bytes(text) > MaxChars
    <2>1. cuts = Windows(text, first, last, path)
      <3>1. ~(Bytes(text) <= MaxChars)
        BY <1>2, BytesIs, LimitsAre
      <3> QED BY <1>2, <3>1 DEF Fitted
    <2>2. /\ cuts \in Seq(Cuts) /\ \A k \in 1 .. Len(cuts) : WindowOf(cuts[k], text, path)
          /\ \A r : Phrase(r) /\ Inside(r, text) => Holds(cuts, r)
      <3> HIDE DEF cuts
      <3> QED BY <2>1, WindowsAre
    <2> HIDE DEF cuts
    <2> QED BY <1>2, <2>2 DEF FitsOf, WindowOf, cuts
  <1>3. CASE Seen(text) # {} /\ Bytes(text) <= MaxChars
    <2> DEFINE chunk == Chunk(kind, text, first, last, path, quality)
    <2>1. cuts = <<chunk>>
      <3>1. ~(Bytes(text) > MaxChars)
        BY <1>3, BytesIs, LimitsAre
      <3> QED BY <1>3, <3>1 DEF Fitted
    <2>2. chunk \in Cuts /\ chunk.text = text /\ chunk.first = first /\ chunk.last = last
          /\ chunk.path = path
      BY ChunkIs DEF Whole, Qualities
    <2> HIDE DEF chunk, cuts
    <2>3. cuts \in Seq(Cuts) /\ Len(cuts) = 1 /\ cuts[1] = chunk /\ \A k \in 1 .. 1 : k = 1
      BY <2>1, <2>2
    <2>4. ASSUME NEW r, Phrase(r), Inside(r, text) PROVE Holds(cuts, r)
      <3>1. r \in Text /\ ToSet(r) = Seen(r)
        BY <2>4, PhraseIs DEF Phrase
      <3>2. ToSet(r) \subseteq Seen(chunk.text)
        BY <2>2, <2>4, <3>1, InsideIsSeen
      <3> QED BY <2>1, <3>2, OneHolds
    <2> QED BY <1>3, <2>2, <2>3, <2>4 DEF FitsOf, cuts
  <1>4. Bytes(text) > MaxChars \/ Bytes(text) <= MaxChars
    BY BytesIs, LimitsAre
  <1> QED BY <1>1, <1>2, <1>3, <1>4

-----------------------------------------------------------------------------
(* Where a chunk stands                                                    *)

Near(chunk, segments) ==
  {k \in DOMAIN segments : segments[k].first <= chunk.last /\ segments[k].last >= chunk.first}

Own(chunk, segments) ==
  chunk.kind # "fallback" =>
    UNION {Seen(segments[k].text) : k \in Near(chunk, segments)} = Seen(chunk.text)

(* Segments a to b, and the lines from after the last one before them.     *)
LEMMA NearIs ==
  ASSUME NEW segments \in Seq(Segs), NEW m \in Nat, Parted(segments, m),
         NEW a \in 1 .. Len(segments), NEW b \in a .. Len(segments), NEW chunk,
         chunk.first \in Nat, chunk.first <= segments[a].first,
         a = 1 \/ segments[a - 1].last < chunk.first, chunk.last = segments[b].last
  PROVE  Near(chunk, segments) = a .. b
  <1> DEFINE n == Len(segments)
  <1>1. n \in Nat /\ DOMAIN segments = 1 .. n /\ b \in 1 .. n
    BY LenProperties
  <1>2. \A k \in 1 .. n : segments[k].first \in Nat /\ segments[k].last \in Nat
    <2>1. \A k \in 1 .. n : segments[k] \in Segs
      BY ElementOfSeq
    <2> QED BY <2>1 DEF Segs
  <1>3. /\ \A j \in 1 .. n : segments[j].first <= segments[j].last
        /\ \A l, j \in 1 .. n : l < j => segments[l].last < segments[j].first
    BY DEF Parted
  <1> HIDE DEF n
  <1>4. ASSUME NEW k \in a .. b
        PROVE  k \in 1 .. n /\ segments[k].first <= chunk.last /\ segments[k].last >= chunk.first
    <2>1. k \in 1 .. n
      BY <1>1
    <2>2. segments[k].first <= segments[b].last
      <3>1. CASE k = b
        BY <1>1, <1>3, <3>1
      <3>2. CASE k # b
        <4>1. k < b
          BY <1>1, <2>1, <3>2
        <4>2. segments[k].last < segments[b].first
          BY <1>1, <1>3, <2>1, <4>1
        <4>3. segments[k].first <= segments[k].last /\ segments[b].first <= segments[b].last
          BY <1>1, <1>3, <2>1
        <4>4. /\ segments[k].first \in Nat /\ segments[k].last \in Nat
              /\ segments[b].first \in Nat /\ segments[b].last \in Nat
          BY <1>1, <1>2, <2>1
        <4> QED BY <4>2, <4>3, <4>4
      <3> QED BY <3>1, <3>2
    <2>3. segments[a].first <= segments[k].last
      <3>1. segments[a].first <= segments[a].last /\ a \in 1 .. n
        BY <1>1, <1>3 DEF n
      <3>2. CASE k = a
        BY <3>1, <3>2
      <3>3. CASE k # a
        <4>1. a < k
          BY <1>1, <3>3
        <4>2. segments[a].last < segments[k].first
          BY <1>3, <2>1, <3>1, <4>1
        <4>3. segments[k].first <= segments[k].last
          BY <1>3, <2>1
        <4>4. /\ segments[k].first \in Nat /\ segments[k].last \in Nat
              /\ segments[a].first \in Nat /\ segments[a].last \in Nat
          BY <1>2, <2>1, <3>1
        <4> QED BY <3>1, <4>2, <4>3, <4>4
      <3> QED BY <3>2, <3>3
    <2>4. /\ segments[k].last \in Nat /\ segments[a].first \in Nat
          /\ segments[k].first \in Nat /\ segments[b].last \in Nat
      <3>1. a \in 1 .. n
        BY DEF n
      <3> QED BY <1>1, <1>2, <2>1, <3>1
    <2>5. segments[k].last >= chunk.first
      BY <2>3, <2>4
    <2> QED BY <2>1, <2>2, <2>5
  <1>5. ASSUME NEW k \in 1 .. n, segments[k].first <= chunk.last, segments[k].last >= chunk.first
        PROVE  k \in a .. b
    <2>1. a \in 1 .. n /\ a \in Nat
      BY DEF n
    <2>2. ~(k > b)
      <3> SUFFICES ASSUME k > b PROVE FALSE
        OBVIOUS
      <3>1. segments[b].last < segments[k].first
        BY <1>1, <1>3
      <3>2. segments[b].last \in Nat /\ segments[k].first \in Nat
        BY <1>1, <1>2
      <3> QED BY <1>5, <3>1, <3>2
    <2>3. ~(k < a)
      <3> SUFFICES ASSUME k < a PROVE FALSE
        OBVIOUS
      <3>1. a # 1 /\ a - 1 \in 1 .. n /\ (k = a - 1 \/ k < a - 1)
        BY <1>1, <2>1
      <3>2. segments[a - 1].last < chunk.first
        BY <3>1
      <3>3. segments[k].last <= segments[a - 1].last
        <4>1. segments[k].last \in Nat /\ segments[a - 1].last \in Nat /\ segments[a - 1].first \in Nat
          BY <1>2, <3>1
        <4>2. CASE k = a - 1
          BY <4>1, <4>2
        <4>3. CASE k < a - 1
          <5>1. segments[k].last < segments[a - 1].first
            BY <1>3, <3>1, <4>3
          <5>2. segments[a - 1].first <= segments[a - 1].last
            BY <1>3, <3>1
          <5> QED BY <4>1, <5>1, <5>2
        <4> QED BY <3>1, <4>2, <4>3
      <3>4. segments[k].last \in Nat /\ segments[a - 1].last \in Nat
        BY <1>2, <3>1
      <3> QED BY <1>5, <3>2, <3>3, <3>4
    <2> QED BY <1>1, <2>1, <2>2, <2>3
  <1> QED BY <1>1, <1>4, <1>5 DEF Near

-----------------------------------------------------------------------------
(* Sections                                                                *)

Section      == [path : Paths, members : Seq(Nat)]
SectionState == [trail : Paths, sections : Seq(Section)]
SectionStart == [trail |-> <<>>, sections |-> <<>>]

OpenSection(s, k, segment) ==
  LET level == PathLevel(segment.path)
      above == SubSeq(s.trail, 1, Least(Len(s.trail), level - 1))
      trail == Append(above, Title(segment))
  IN  [trail    |-> trail,
       sections |-> Append(s.sections, [path |-> trail, members |-> <<k>>])]

PutInSection(s, k) ==
  IF s.sections = <<>>
  THEN [s EXCEPT !.sections = <<[path |-> <<>>, members |-> <<k>>]>>]
  ELSE [s EXCEPT !.sections[Len(s.sections)].members = Append(@, k)]

NextSection(s, k, segment) ==
  IF segment.kind = "heading" THEN OpenSection(s, k, segment) ELSE PutInSection(s, k)

LEMMA PathLevelIs ==
  ASSUME NEW path \in Paths
  PROVE  PathLevel(path) \in Nat /\ PathLevel(path) >= 1 /\ PathLevel(path) >= Len(path)
  <1> DEFINE marks == [k \in DOMAIN path |-> path[k].marks]
  <1>1. Len(path) \in Nat /\ DOMAIN path = 1 .. Len(path)
    BY LenProperties DEF Paths
  <1>2. \A k \in 1 .. Len(path) : path[k].marks \in Nat
    <2>1. \A k \in 1 .. Len(path) : path[k] \in Titles
      BY ElementOfSeq DEF Paths
    <2> QED BY <2>1 DEF Titles
  <1>3. marks \in [1 .. Len(path) -> Nat]
    BY <1>1, <1>2
  <1>4. PathLevel(path) = Greatest(1, Len(path) + Total(marks))
    BY DEF PathLevel
  <1> HIDE DEF marks
  <1>5. marks \in Seq(Nat)
    BY <1>1, <1>3, SeqDef
  <1>6. Total(marks) \in Nat
    BY <1>5, SumsIs
  <1> QED BY <1>1, <1>4, <1>6 DEF Greatest

LEMMA TitleIs ==
  ASSUME NEW segment \in Segs, segment.kind = "heading"
  PROVE  Title(segment) \in Titles
  <1> DEFINE text == segment.text
             path == segment.path
             unit == Head(text)[1]
             own == {k \in DOMAIN path : path[k].unit = unit}
  <1>1. text \in Text /\ path \in Seq(Titles) /\ text # <<>>
    BY DEF Segs, Paths
  <1>2. Title(segment) = IF own = {} THEN [unit |-> unit, marks |-> 0] ELSE path[Min(own)]
    BY DEF Title
  <1>3. Head(text)[1] \in Nat
    <2>1. Len(text) \in Nat /\ Len(text) # 0 /\ Head(text) = text[1]
      BY <1>1, EmptySeq, LenProperties, HeadTailProperties DEF Text
    <2>2. text[1] \in Char
      BY <1>1, <2>1, SeenIs
    <2> QED BY <2>1, <2>2, NewLineIs
  <1>4. Len(path) \in Nat /\ DOMAIN path = 1 .. Len(path) /\ \A k \in 1 .. Len(path) : path[k] \in Titles
    BY <1>1, LenProperties, ElementOfSeq
  <1>5. own \subseteq 1 .. Len(path) /\ own \subseteq Nat
    BY <1>4
  <1> HIDE DEF own, text, path
  <1>6. CASE own = {}
    BY <1>2, <1>3, <1>6 DEF Titles
  <1>7. CASE own # {}
    <2>1. Min(own) \in 1 .. Len(path)
      BY <1>5, <1>7, MinIsLeast
    <2> QED BY <1>2, <1>4, <1>7, <2>1
  <1> QED BY <1>6, <1>7

(* Members come one after the other, and the last is the last one read.    *)
Consecutive(members, k) ==
  /\ members \in Seq(Nat) /\ Len(members) >= 1
  /\ \A j \in 1 .. Len(members) : members[j] = members[1] + j - 1 /\ members[j] \in 1 .. k

Sectioned(s, k) ==
  /\ s \in SectionState
  /\ \A m \in 1 .. Len(s.sections) : Consecutive(s.sections[m].members, k)
  /\ \A i \in 1 .. k : \E m \in 1 .. Len(s.sections) :
       \E j \in 1 .. Len(s.sections[m].members) : s.sections[m].members[j] = i
  /\ k > 0 => /\ s.sections # <<>>
              /\ LET members == s.sections[Len(s.sections)].members
                 IN  members[Len(members)] = k

LEMMA OneMember ==
  ASSUME NEW k \in Nat \ {0}
  PROVE  /\ Consecutive(<<k>>, k) /\ Len(<<k>>) = 1 /\ <<k>>[1] = k /\ <<k>> \in Seq(Nat)
  <1>1. <<k>> \in Seq(Nat) /\ Len(<<k>>) = 1 /\ <<k>>[1] = k /\ \A j \in 1 .. 1 : j = 1
    OBVIOUS
  <1>2. k = k + 1 - 1 /\ k \in 1 .. k
    OBVIOUS
  <1> QED BY <1>1, <1>2 DEF Consecutive

LEMMA ConsecutiveMore ==
  ASSUME NEW k \in Nat \ {0}, NEW members, Consecutive(members, k - 1)
  PROVE  Consecutive(members, k)
  <1>1. \A i \in 1 .. k - 1 : i \in 1 .. k
    OBVIOUS
  <1> QED BY <1>1 DEF Consecutive

LEMMA ConsecutiveAppend ==
  ASSUME NEW k \in Nat \ {0}, NEW members, Consecutive(members, k - 1),
         members[Len(members)] = k - 1
  PROVE  /\ Consecutive(Append(members, k), k)
         /\ Len(Append(members, k)) = Len(members) + 1
         /\ Append(members, k)[Len(members) + 1] = k
         /\ \A j \in 1 .. Len(members) : Append(members, k)[j] = members[j]
  <1> DEFINE n == Len(members)
             new == Append(members, k)
  <1>1. /\ members \in Seq(Nat) /\ n \in Nat /\ n >= 1
        /\ \A j \in 1 .. n : members[j] = members[1] + j - 1 /\ members[j] \in 1 .. k - 1
    BY LenProperties DEF Consecutive
  <1>2. /\ new \in Seq(Nat) /\ Len(new) = n + 1 /\ new[n + 1] = k
        /\ \A j \in 1 .. n : new[j] = members[j]
    BY <1>1, AppendIs
  <1> HIDE DEF n, new
  <1>3. members[1] \in 1 .. k - 1 /\ members[n] = members[1] + n - 1 /\ new[1] = members[1]
    <2>1. 1 \in 1 .. n /\ n \in 1 .. n
      BY <1>1
    <2> QED BY <1>1, <1>2, <2>1
  <1>4. members[1] + n - 1 = k - 1
    BY <1>3 DEF n
  <1>5. ASSUME NEW j \in 1 .. n + 1 PROVE new[j] = new[1] + j - 1 /\ new[j] \in 1 .. k
    <2>1. CASE j = n + 1
      BY <1>1, <1>2, <1>3, <1>4, <2>1
    <2>2. CASE j # n + 1
      <3>1. j \in 1 .. n
        BY <1>1, <2>2
      <3>2. members[j] = members[1] + j - 1 /\ members[j] \in 1 .. k - 1
        BY <1>1, <3>1
      <3>3. new[j] = members[j]
        BY <1>2, <3>1
      <3> QED BY <1>3, <3>2, <3>3
    <2> QED BY <2>1, <2>2
  <1> QED BY <1>1, <1>2, <1>5 DEF Consecutive, n, new

LEMMA OpenSectionIs ==
  ASSUME NEW s \in SectionState, NEW k \in Nat \ {0}, NEW segment \in Segs,
         segment.kind = "heading"
  PROVE  LET t == OpenSection(s, k, segment)
         IN  /\ t \in SectionState
             /\ [path |-> t.trail, members |-> <<k>>] \in Section
             /\ t.sections = Append(s.sections, [path |-> t.trail, members |-> <<k>>])
             /\ t.trail = Append(SubSeq(s.trail, 1, Least(Len(s.trail), PathLevel(segment.path) - 1)),
                                 Title(segment))
  <1> DEFINE level == PathLevel(segment.path)
             above == SubSeq(s.trail, 1, Least(Len(s.trail), level - 1))
             trail == Append(above, Title(segment))
             new == [path |-> trail, members |-> <<k>>]
             t == OpenSection(s, k, segment)
  <1>1. s.trail \in Seq(Titles) /\ s.sections \in Seq(Section) /\ segment.path \in Paths
    BY DEF SectionState, Paths, Segs
  <1>2. level - 1 \in Nat
    BY <1>1, PathLevelIs
  <1>3. above \in Seq(Titles)
    <2> HIDE DEF level
    <2> QED BY <1>1, <1>2, FirstIs
  <1>4. trail \in Paths
    <2> HIDE DEF above
    <2> QED BY <1>3, TitleIs, AppendProperties DEF Paths
  <1>5. t = [trail |-> trail, sections |-> Append(s.sections, new)]
    BY DEF OpenSection
  <1> HIDE DEF trail
  <1>6. new \in Section
    BY <1>4, OneMember DEF Section
  <1> HIDE DEF new, t
  <1>7. Append(s.sections, new) \in Seq(Section)
    BY <1>1, <1>6, AppendProperties
  <1>8. t \in SectionState /\ t.sections = Append(s.sections, new) /\ t.trail = trail
    BY <1>4, <1>5, <1>7 DEF SectionState
  <1> QED BY <1>6, <1>8 DEF new, t, trail

LEMMA NextSectionHolds ==
  ASSUME NEW s, NEW k \in Nat \ {0}, Sectioned(s, k - 1), NEW segment \in Segs
  PROVE  Sectioned(NextSection(s, k, segment), k)
  <1> DEFINE t == NextSection(s, k, segment)
             n == Len(s.sections)
  <1>1. /\ s \in SectionState /\ s.sections \in Seq(Section) /\ n \in Nat /\ s.trail \in Paths
        /\ \A m \in 1 .. n : s.sections[m] \in Section
    <2>1. s \in SectionState /\ s.sections \in Seq(Section) /\ s.trail \in Paths
      BY DEF Sectioned, SectionState
    <2> QED BY <2>1, LenProperties, ElementOfSeq
  <1>2. /\ \A m \in 1 .. n : Consecutive(s.sections[m].members, k - 1)
        /\ \A i \in 1 .. k - 1 : \E m \in 1 .. n :
             \E j \in 1 .. Len(s.sections[m].members) : s.sections[m].members[j] = i
        /\ k - 1 > 0 => s.sections # <<>>
    BY DEF Sectioned
  <1>3. \A i \in 1 .. k : i \in 1 .. k - 1 \/ i = k
    OBVIOUS
  (* A new section of one member, after the ones there are.                *)
  <1>4. ASSUME NEW new \in Section, new.members = <<k>>, NEW u \in SectionState,
               u.sections = Append(s.sections, new)
        PROVE  Sectioned(u, k)
    <2>1. /\ Len(u.sections) = n + 1 /\ u.sections[n + 1] = new /\ u.sections # <<>>
          /\ \A m \in 1 .. n : u.sections[m] = s.sections[m]
      BY <1>1, <1>4, AppendIs
    <2>2. ASSUME NEW m \in 1 .. n + 1 PROVE Consecutive(u.sections[m].members, k)
      <3>1. CASE m = n + 1
        BY <1>4, <2>1, <3>1, OneMember
      <3>2. CASE m # n + 1
        <4>1. m \in 1 .. n
          BY <1>1, <3>2
        <4>2. Consecutive(s.sections[m].members, k - 1) /\ u.sections[m] = s.sections[m]
          BY <1>2, <2>1, <4>1
        <4> QED BY <4>2, ConsecutiveMore
      <3> QED BY <3>1, <3>2
    <2>3. ASSUME NEW i \in 1 .. k
          PROVE  \E m \in 1 .. n + 1 : \E j \in 1 .. Len(u.sections[m].members) :
                   u.sections[m].members[j] = i
      <3>1. CASE i = k
        <4>1. u.sections[n + 1].members = <<k>> /\ 1 \in 1 .. Len(<<k>>) /\ <<k>>[1] = k
          BY <1>4, <2>1, OneMember
        <4>2. n + 1 \in 1 .. n + 1
          BY <1>1
        <4> QED BY <3>1, <4>1, <4>2
      <3>2. CASE i # k
        <4>1. PICK m \in 1 .. n : \E j \in 1 .. Len(s.sections[m].members) : s.sections[m].members[j] = i
          BY <1>2, <1>3, <3>2
        <4>2. m \in 1 .. n + 1 /\ u.sections[m] = s.sections[m]
          BY <1>1, <2>1
        <4> QED BY <4>1, <4>2
      <3> QED BY <3>1, <3>2
    <2>4. LET members == u.sections[n + 1].members IN members[Len(members)] = k
      BY <1>4, <2>1, OneMember
    <2>5. \A m \in 1 .. Len(u.sections) : Consecutive(u.sections[m].members, k)
      BY <2>1, <2>2
    <2>6. \A i \in 1 .. k : \E m \in 1 .. Len(u.sections) :
            \E j \in 1 .. Len(u.sections[m].members) : u.sections[m].members[j] = i
      BY <2>1, <2>3
    <2>7. LET members == u.sections[Len(u.sections)].members IN members[Len(members)] = k
      BY <2>1, <2>4
    <2> QED BY <1>4, <2>1, <2>5, <2>6, <2>7 DEF Sectioned
  <1>5. CASE segment.kind = "heading"
    <2>1. t = OpenSection(s, k, segment)
      BY <1>5 DEF NextSection
    <2>2. /\ t \in SectionState /\ [path |-> t.trail, members |-> <<k>>] \in Section
          /\ t.sections = Append(s.sections, [path |-> t.trail, members |-> <<k>>])
      BY <1>1, <1>5, <2>1, OpenSectionIs
    <2> HIDE DEF t
    <2> QED BY <1>4, <2>2 DEF t
  <1>6. CASE segment.kind # "heading" /\ s.sections = <<>>
    <2> DEFINE new == [path |-> <<>>, members |-> <<k>>]
    <2>1. t = [s EXCEPT !.sections = <<new>>]
      BY <1>6 DEF NextSection, PutInSection
    <2>2. new \in Section /\ new.members = <<k>>
      BY OneMember, EmptySeq DEF Section, Paths
    <2> HIDE DEF new, t
    <2>3. <<new>> \in Seq(Section) /\ Append(s.sections, new) = <<new>>
      BY <1>6, <2>2
    <2>4. t \in SectionState /\ t.sections = Append(s.sections, new)
      BY <1>1, <2>1, <2>3 DEF SectionState
    <2> QED BY <1>4, <2>2, <2>4 DEF t
  <1>7. CASE segment.kind # "heading" /\ s.sections # <<>>
    <2> DEFINE old == s.sections[n]
               members == old.members
               new == [old EXCEPT !.members = Append(@, k)]
    <2>0. n \in 1 .. n
      BY <1>1, <1>7, EmptySeq
    <2>1. t = [s EXCEPT !.sections = [s.sections EXCEPT ![n] = new]]
      BY <1>7 DEF NextSection, PutInSection
    <2>2. /\ old \in Section /\ Consecutive(members, k - 1) /\ k - 1 > 0
          /\ members[Len(members)] = k - 1
      <3>1. old \in Section /\ Consecutive(members, k - 1)
        BY <1>1, <1>2, <2>0
      <3>2. k - 1 > 0
        <4>1. members[1] \in 1 .. k - 1
          <5>1. Len(members) \in Nat /\ Len(members) >= 1
            BY <3>1, LenProperties DEF Consecutive
          <5>2. 1 \in 1 .. Len(members)
            BY <5>1
          <5> QED BY <3>1, <5>2 DEF Consecutive
        <4> QED BY <4>1
      <3> QED BY <3>1, <3>2 DEF Sectioned
    <2>3. /\ Consecutive(Append(members, k), k)
          /\ Len(Append(members, k)) = Len(members) + 1
          /\ Append(members, k)[Len(members) + 1] = k
          /\ \A j \in 1 .. Len(members) : Append(members, k)[j] = members[j]
      BY <2>2, ConsecutiveAppend
    <2>4. new \in Section /\ new.members = Append(members, k)
      BY <2>2, <2>3 DEF Section, Consecutive
    <2> HIDE DEF new
    <2>5. /\ [s.sections EXCEPT ![n] = new] \in Seq(Section)
          /\ Len([s.sections EXCEPT ![n] = new]) = n
          /\ \A m \in 1 .. n : [s.sections EXCEPT ![n] = new][m] = IF m = n THEN new ELSE s.sections[m]
      <3> DEFINE list == s.sections
      <3>1. list \in Seq(Section) /\ Len(list) = n
        BY <1>1
      <3> HIDE DEF list
      <3>2. /\ [list EXCEPT ![n] = new] \in Seq(Section)
            /\ Len([list EXCEPT ![n] = new]) = Len(list)
            /\ \A m \in 1 .. Len(list) : [list EXCEPT ![n] = new][m] = IF m = n THEN new ELSE list[m]
        BY <2>0, <2>4, <3>1, ExceptSeq
      <3> QED BY <3>1, <3>2 DEF list
    <2> HIDE DEF t
    <2>6. t \in SectionState /\ t.sections = [s.sections EXCEPT ![n] = new]
      BY <1>1, <2>1, <2>5 DEF SectionState
    <2>7. /\ Len(t.sections) = n /\ t.sections \in Seq(Section)
          /\ \A m \in 1 .. n : t.sections[m] = IF m = n THEN new ELSE s.sections[m]
      BY <2>5, <2>6
    <2> HIDE DEF old
    <2>8. ASSUME NEW m \in 1 .. n PROVE Consecutive(t.sections[m].members, k)
      <3>1. CASE m = n
        BY <2>3, <2>4, <2>7, <3>1
      <3>2. CASE m # n
        <4>1. t.sections[m] = s.sections[m]
          BY <2>7, <3>2
        <4> QED BY <1>2, <4>1, ConsecutiveMore
      <3> QED BY <3>1, <3>2
    <2>9. Len(members) \in Nat
      BY <2>2, LenProperties DEF Consecutive
    <2>10. ASSUME NEW i \in 1 .. k
           PROVE  \E m \in 1 .. n : \E j \in 1 .. Len(t.sections[m].members) : t.sections[m].members[j] = i
      <3>1. CASE i = k
        <4>1. t.sections[n].members = Append(members, k)
          BY <2>0, <2>4, <2>7
        <4>2. Len(members) + 1 \in 1 .. Len(Append(members, k))
          BY <2>3, <2>9
        <4> QED BY <2>0, <2>3, <3>1, <4>1, <4>2
      <3>2. CASE i # k
        <4>1. PICK m \in 1 .. n : \E j \in 1 .. Len(s.sections[m].members) : s.sections[m].members[j] = i
          BY <1>2, <1>3, <3>2
        <4>2. PICK j \in 1 .. Len(s.sections[m].members) : s.sections[m].members[j] = i
          BY <4>1
        <4>3. CASE m # n
          BY <2>7, <4>2, <4>3
        <4>4. CASE m = n
          <5>1. t.sections[n].members = Append(members, k) /\ s.sections[n].members = members
            BY <2>0, <2>4, <2>7 DEF old
          <5> HIDE DEF members
          <5>2. j \in 1 .. Len(members) /\ members[j] = i
            BY <4>2, <4>4, <5>1
          <5>3. j \in 1 .. Len(Append(members, k)) /\ Append(members, k)[j] = i
            BY <2>3, <2>9, <5>2
          <5> QED BY <4>4, <5>1, <5>3
        <4> QED BY <4>3, <4>4
      <3> QED BY <3>1, <3>2
    <2>11. t.sections # <<>>
      BY <2>0, <2>7, EmptySeq
    <2>12. LET last == t.sections[n].members IN last[Len(last)] = k
      BY <2>0, <2>3, <2>4, <2>7
    <2> QED BY <2>6, <2>7, <2>8, <2>10, <2>11, <2>12 DEF Sectioned, t
  <1> QED BY <1>5, <1>6, <1>7

LEMMA SectionsGo ==
  ASSUME NEW segments \in Seq(Segs)
  PROVE  LET read == SectionsRead(segments)
         IN  /\ read[0] = SectionStart
             /\ \A k \in 1 .. Len(segments) : read[k] = NextSection(read[k - 1], k, segments[k])
             /\ \A k \in 0 .. Len(segments) : Sectioned(read[k], k)
  <1> DEFINE n == Len(segments)
             step(s, k) == NextSection(s, k, segments[k])
             F == [k \in 1 .. n |-> [s \in SectionState |-> IF Sectioned(s, k - 1) THEN step(s, k) ELSE s]]
             Is(h) == h = [k \in 0 .. n |-> IF k = 0 THEN SectionStart ELSE step(h[k - 1], k)]
             read == CHOOSE h : Is(h)
  <1>1. n \in Nat /\ \A k \in 1 .. n : segments[k] \in Segs
    BY LenProperties, ElementOfSeq
  <1>2. SectionsRead(segments) = read
    BY DEF SectionsRead, Loop, SectionStart, NextSection, OpenSection, PutInSection
  <1> HIDE DEF n
  <1>3. Sectioned(SectionStart, 0) /\ SectionStart \in SectionState
    <2>1. SectionStart \in SectionState /\ SectionStart.sections = <<>> /\ Len(<<>>) = 0
      BY EmptySeq DEF SectionStart, SectionState, Paths
    <2>2. (\A m \in 1 .. 0 : FALSE) /\ ~(0 > 0)
      OBVIOUS
    <2> QED BY <2>1, <2>2 DEF Sectioned
  <1>4. \A k \in 1 .. n : \A s \in SectionState :
          Sectioned(s, k - 1) => Sectioned(step(s, k), k) /\ step(s, k) \in SectionState
    <2> SUFFICES ASSUME NEW k \in 1 .. n, NEW s \in SectionState, Sectioned(s, k - 1)
                 PROVE  Sectioned(step(s, k), k) /\ step(s, k) \in SectionState
      OBVIOUS
    <2>1. Sectioned(step(s, k), k)
      BY <1>1, NextSectionHolds
    <2> QED BY <2>1 DEF Sectioned
  <1> HIDE DEF step
  <1>5. F \in [1 .. n -> [SectionState -> SectionState]]
    BY <1>4
  <1>6. PICK h : Runs(h, SectionState, SectionStart, F, n)
    <2> HIDE DEF F
    <2> QED BY <1>1, <1>3, <1>5, LoopGoes
  <1> DEFINE G == {k \in 0 .. n : Sectioned(h[k], k)}
  <1>7. \A k \in 0 .. n : k \in G
    <2>1. 0 \in G
      BY <1>1, <1>3, <1>6 DEF Runs
    <2>2. ASSUME NEW k \in 1 .. n, k - 1 \in G PROVE k \in G
      <3>0. k \in 0 .. n /\ k - 1 \in 0 .. n /\ Sectioned(h[k - 1], k - 1)
        BY <1>1, <2>2
      <3>1. /\ h[k - 1] \in SectionState /\ Sectioned(h[k - 1], k - 1) /\ k \in 0 .. n
            /\ h[k] = F[k][h[k - 1]]
        BY <1>6, <3>0 DEF Runs
      <3>2. h[k] = step(h[k - 1], k)
        BY <3>1
      <3>3. Sectioned(h[k], k)
        BY <1>4, <3>1, <3>2
      <3> QED BY <3>1, <3>3
    <2> HIDE DEF G
    <2> QED BY <1>1, <2>1, <2>2, UpTo
  <1>8. Is(h)
    <2>1. \A k \in 0 .. n : k # 0 => F[k][h[k - 1]] = step(h[k - 1], k)
      <3> SUFFICES ASSUME NEW k \in 0 .. n, k # 0 PROVE F[k][h[k - 1]] = step(h[k - 1], k)
        OBVIOUS
      <3>1. k - 1 \in 0 .. n /\ k \in 1 .. n
        BY <1>1
      <3>2. h[k - 1] \in SectionState /\ Sectioned(h[k - 1], k - 1)
        BY <1>6, <1>7, <3>1 DEF Runs
      <3> QED BY <3>1, <3>2
    <2> QED BY <1>6, <2>1 DEF Goes, Runs
  <1>9. Is(read)
    BY <1>8
  <1> HIDE DEF read
  <1>10. read[0] = SectionStart /\ \A k \in 1 .. n : read[k] = step(read[k - 1], k)
    BY <1>1, <1>9
  <1> DEFINE R == {k \in 0 .. n : Sectioned(read[k], k)}
  <1>11. \A k \in 0 .. n : k \in R
    <2>1. 0 \in R
      BY <1>1, <1>3, <1>10
    <2>2. ASSUME NEW k \in 1 .. n, k - 1 \in R PROVE k \in R
      <3>1. Sectioned(read[k - 1], k - 1) /\ k \in 0 .. n /\ read[k] = step(read[k - 1], k)
        BY <1>1, <1>10, <2>2
      <3>2. read[k - 1] \in SectionState
        BY <3>1 DEF Sectioned
      <3>3. Sectioned(read[k], k)
        BY <1>4, <3>1, <3>2
      <3> QED BY <3>1, <3>3
    <2> HIDE DEF R
    <2> QED BY <1>1, <2>1, <2>2, UpTo
  <1> QED BY <1>2, <1>10, <1>11 DEF n, step

-----------------------------------------------------------------------------
(* What the chunks of some segments are                                    *)

CutFrom(cuts, segments) ==
  /\ cuts \in Seq(Cuts)
  /\ \A k \in 1 .. Len(cuts) : Own(cuts[k], segments)
  /\ \A i \in 1 .. Len(segments) :
       \A r : Phrase(r) /\ Inside(r, segments[i].text) => Holds(cuts, r)

TextsOf(segments, a, b) == UNION {Seen(segments[i].text) : i \in a .. b}

LEMMA FitsOwn ==
  ASSUME NEW segments \in Seq(Segs), NEW m \in Nat, Parted(segments, m),
         NEW a \in 1 .. Len(segments), NEW b \in a .. Len(segments),
         NEW first \in Nat, first <= segments[a].first,
         a = 1 \/ segments[a - 1].last < first,
         NEW text, Seen(text) = TextsOf(segments, a, b),
         NEW cuts, NEW path, FitsOf(cuts, text, first, segments[b].last, path)
  PROVE  \A k \in 1 .. Len(cuts) : Own(cuts[k], segments)
  <1> SUFFICES ASSUME NEW k \in 1 .. Len(cuts), cuts[k].kind # "fallback"
               PROVE  UNION {Seen(segments[i].text) : i \in Near(cuts[k], segments)} = Seen(cuts[k].text)
    BY DEF Own
  <1>1. cuts[k].text = text /\ cuts[k].first = first /\ cuts[k].last = segments[b].last
    BY DEF FitsOf
  <1>2. Near(cuts[k], segments) = a .. b
    BY <1>1, NearIs
  <1> QED BY <1>1, <1>2 DEF TextsOf

LEMMA SegmentsAre ==
  ASSUME NEW segments \in Seq(Segs), NEW i \in 1 .. Len(segments)
  PROVE  /\ segments[i] \in Segs /\ segments[i].text \in Text
         /\ segments[i].first \in Nat /\ segments[i].last \in Nat
         /\ segments[i].path \in Paths /\ Len(segments) \in Nat
  <1>1. segments[i] \in Segs /\ Len(segments) \in Nat
    BY ElementOfSeq, LenProperties
  <1> QED BY <1>1 DEF Segs

(* The texts at some places that follow each other.                        *)
LEMMA MembersJoin ==
  ASSUME NEW segments \in Seq(Segs), NEW members, Consecutive(members, Len(segments))
  PROVE  LET text == Join([k \in DOMAIN members |-> segments[members[k]].text])
         IN  /\ text \in Text
             /\ members[1] \in 1 .. Len(segments)
             /\ members[Len(members)] \in members[1] .. Len(segments)
             /\ Head(members) = members[1] /\ Last(members) = members[Len(members)]
             /\ Seen(text) = TextsOf(segments, members[1], members[Len(members)])
             /\ \A k \in 1 .. Len(members) : Inside(segments[members[k]].text, text)
             /\ \A x \in Seen(text) : \E j \in 1 .. Len(members) :
                  x \in Seen(segments[members[j]].text)
  <1> DEFINE n == Len(members)
             of(k) == segments[members[k]].text
             texts == [k \in DOMAIN members |-> of(k)]
             text == Join(texts)
             a == members[1]
             b == members[n]
  <1>1. /\ members \in Seq(Nat) /\ n \in Nat /\ n >= 1 /\ DOMAIN members = 1 .. n
        /\ \A j \in 1 .. n : members[j] = a + j - 1 /\ members[j] \in 1 .. Len(segments)
    BY LenProperties DEF Consecutive
  <1>2. Head(members) = a /\ Last(members) = b
    <2>1. members # <<>>
      BY <1>1, EmptySeq
    <2> QED BY <1>1, <2>1, HeadTailProperties DEF Last
  <1> HIDE DEF n
  <1>3. a \in 1 .. Len(segments) /\ b = a + n - 1 /\ b \in 1 .. Len(segments) /\ Len(segments) \in Nat
    <2>1. 1 \in 1 .. n /\ n \in 1 .. n
      BY <1>1
    <2>2. b = a + n - 1 /\ b \in 1 .. Len(segments) /\ a \in 1 .. Len(segments)
      BY <1>1, <2>1
    <2> QED BY <2>2, LenProperties
  <1>4. \A k \in 1 .. n : of(k) \in Text
    BY <1>1, SegmentsAre
  <1>5. texts \in Seq(Text) /\ Len(texts) = n /\ \A k \in 1 .. n : texts[k] = of(k)
    <2> HIDE DEF of
    <2>1. /\ texts \in [1 .. n -> Text] /\ DOMAIN texts = 1 .. n
          /\ \A k \in 1 .. n : texts[k] = of(k)
      BY <1>1, <1>4
    <2> HIDE DEF texts
    <2>2. texts \in Seq(Text)
      BY <1>1, <2>1, SeqDef
    <2> QED BY <1>1, <2>1, <2>2, LenProperties
  <1> HIDE DEF texts
  <1>6. /\ text \in Text /\ \A k \in 1 .. n : Inside(of(k), text)
        /\ Seen(text) = UNION {Seen(texts[k]) : k \in 1 .. n}
    <2>1. /\ text \in Text /\ \A k \in 1 .. Len(texts) : Inside(texts[k], text)
          /\ Seen(text) = UNION {Seen(texts[k]) : k \in 1 .. Len(texts)}
      BY <1>5, JoinIs
    <2> HIDE DEF text, of
    <2> QED BY <1>5, <2>1
  <1> HIDE DEF text
  <1>7. Seen(text) = TextsOf(segments, a, b)
    <2>1. ASSUME NEW c \in Seen(text) PROVE c \in TextsOf(segments, a, b)
      <3>1. PICK k \in 1 .. n : c \in Seen(of(k))
        BY <1>5, <1>6, <2>1
      <3>2. members[k] = a + k - 1
        BY <1>1
      <3>3. members[k] \in a .. b
        BY <1>1, <1>3, <3>2
      <3> QED BY <3>1, <3>3 DEF TextsOf
    <2>2. ASSUME NEW c \in TextsOf(segments, a, b) PROVE c \in Seen(text)
      <3>1. PICK i \in a .. b : c \in Seen(segments[i].text)
        BY <2>2 DEF TextsOf
      <3>2. i - a + 1 \in 1 .. n /\ a + (i - a + 1) - 1 = i
        BY <1>1, <1>3
      <3>3. members[i - a + 1] = i
        BY <1>1, <3>2
      <3>4. c \in Seen(of(i - a + 1))
        BY <3>1, <3>3
      <3> QED BY <1>5, <1>6, <3>2, <3>4
    <2> QED BY <2>1, <2>2
  <1>8. b \in a .. Len(segments)
    BY <1>1, <1>3
  <1>9. \A x \in Seen(text) : \E j \in 1 .. n : x \in Seen(of(j))
    BY <1>5, <1>6
  <1> QED BY <1>2, <1>3, <1>6, <1>7, <1>8, <1>9 DEF n, text, texts

SectionCut(section, segments, quality) ==
  Fitted("section",
         Join([k \in DOMAIN section.members |-> segments[section.members[k]].text]),
         segments[Head(section.members)].first, segments[Last(section.members)].last,
         section.path, quality)

(* What a chunk of a section is made of.                                   *)
OfSection(cut, section, segments) ==
  /\ cut.path = section.path
  /\ \A x \in Seen(cut.text) : \E j \in 1 .. Len(section.members) :
       x \in Seen(segments[section.members[j]].text)

LEMMA SectionCutIs ==
  ASSUME NEW segments \in Seq(Segs), NEW m \in Nat, Parted(segments, m), NEW quality \in Qualities,
         NEW section \in Section, Consecutive(section.members, Len(segments))
  PROVE  LET cuts == SectionCut(section, segments, quality)
         IN  /\ cuts \in Seq(Cuts)
             /\ \A k \in 1 .. Len(cuts) : Own(cuts[k], segments) /\ OfSection(cuts[k], section, segments)
             /\ \A j \in 1 .. Len(section.members) :
                  \A r : Phrase(r) /\ Inside(r, segments[section.members[j]].text) => Holds(cuts, r)
  <1> DEFINE members == section.members
             text == Join([k \in DOMAIN members |-> segments[members[k]].text])
             a == members[1]
             b == members[Len(members)]
             cuts == SectionCut(section, segments, quality)
  <1>1. /\ text \in Text /\ a \in 1 .. Len(segments) /\ b \in a .. Len(segments)
        /\ Head(members) = a /\ Last(members) = b
        /\ Seen(text) = TextsOf(segments, a, b)
        /\ \A k \in 1 .. Len(members) : Inside(segments[members[k]].text, text)
        /\ \A x \in Seen(text) : \E j \in 1 .. Len(members) :
             x \in Seen(segments[members[j]].text)
    BY MembersJoin
  <1>2. /\ section.path \in Paths /\ members \in Seq(Nat)
        /\ \A k \in 1 .. Len(members) : members[k] \in 1 .. Len(segments)
    BY DEF Section, Consecutive
  <1>3. cuts = Fitted("section", text, segments[a].first, segments[b].last, section.path, quality)
    BY <1>1 DEF SectionCut
  <1> HIDE DEF text, a, b, cuts
  <1>4. b \in 1 .. Len(segments) /\ segments[a].first \in Nat /\ segments[b].last \in Nat
    <2>1. Len(segments) \in Nat
      BY LenProperties
    <2>2. b \in 1 .. Len(segments)
      BY <1>1, <2>1
    <2> QED BY <1>1, <2>2, SegmentsAre
  <1>5. FitsOf(cuts, text, segments[a].first, segments[b].last, section.path)
    <2>1. "section" \in Whole
      BY DEF Whole
    <2> QED BY <1>1, <1>2, <1>3, <1>4, <2>1, FittedIs
  <1>6. \A k \in 1 .. Len(cuts) : Own(cuts[k], segments)
    <2>1. a = 1 \/ segments[a - 1].last < segments[a].first
      <3> SUFFICES ASSUME a # 1 PROVE segments[a - 1].last < segments[a].first
        OBVIOUS
      <3>1. a - 1 \in 1 .. Len(segments) /\ a - 1 < a
        BY <1>1, LenProperties
      <3> QED BY <1>1, <3>1 DEF Parted
    <2>2. segments[a].first <= segments[a].first
      BY <1>4
    <2> QED BY <1>1, <1>4, <1>5, <2>1, <2>2, FitsOwn
  <1>7. ASSUME NEW j \in 1 .. Len(members), NEW r, Phrase(r), Inside(r, segments[members[j]].text)
        PROVE  Holds(cuts, r)
    <2>1. r \in Seq(Char) /\ segments[members[j]].text \in Seq(Char) /\ text \in Seq(Char)
      BY <1>1, <1>2, <1>7, SegmentsAre DEF Phrase, Text
    <2>2. Inside(r, text)
      BY <1>1, <1>7, <2>1, InsideTransitive
    <2> QED BY <1>5, <1>7, <2>2 DEF FitsOf
  <1>8. \A k \in 1 .. Len(cuts) : OfSection(cuts[k], section, segments)
    BY <1>1, <1>5 DEF FitsOf, OfSection
  <1> QED BY <1>5, <1>6, <1>7, <1>8 DEF FitsOf, cuts

LEMMA HoldsInside ==
  ASSUME NEW s, NEW t, Inside(s, t), Len(s) \in Nat, Len(t) \in Nat, NEW r, Holds(s, r)
  PROVE  Holds(t, r)
  <1>1. PICK off \in Nat : off + Len(s) <= Len(t) /\ \A p \in 1 .. Len(s) : t[off + p] = s[p]
    BY DEF Inside
  <1>2. PICK k \in 1 .. Len(s) : ToSet(r) \subseteq Seen(s[k].text)
    BY DEF Holds
  <1>3. off + k \in 1 .. Len(t) /\ t[off + k] = s[k]
    BY <1>1, <1>2
  <1> QED BY <1>2, <1>3 DEF Holds

LEMMA SectionChunksAre ==
  ASSUME NEW segments \in Seq(Segs), NEW m \in Nat, Parted(segments, m), NEW quality \in Qualities
  PROVE  LET cuts     == SectionChunks(segments, quality)
             sections == Sections(segments)
         IN  /\ CutFrom(cuts, segments)
             /\ \A p \in 1 .. Len(cuts) : \E k \in 1 .. Len(sections) :
                  OfSection(cuts[p], sections[k], segments)
  <1> DEFINE sections == Sections(segments)
             n == Len(sections)
             end == SectionsRead(segments)[Len(segments)]
             of(k) == SectionCut(sections[k], segments, quality)
             seqs == [k \in DOMAIN sections |-> of(k)]
             flat == FlattenSeq(seqs)
  <1>1. Sectioned(end, Len(segments)) /\ sections = end.sections
    <2>1. Len(segments) \in 0 .. Len(segments)
      BY LenProperties
    <2> QED BY <2>1, SectionsGo DEF Sections
  <1>2. SectionChunks(segments, quality) = flat
    BY DEF SectionChunks, SectionCut
  <1> HIDE DEF sections, end
  <1>3. /\ sections \in Seq(Section) /\ n \in Nat /\ DOMAIN sections = 1 .. n
        /\ \A k \in 1 .. n : sections[k] \in Section
    <2>1. sections \in Seq(Section)
      BY <1>1 DEF Sectioned, SectionState
    <2> QED BY <2>1, LenProperties, ElementOfSeq
  <1> HIDE DEF n
  <1>4. /\ \A k \in 1 .. n : Consecutive(sections[k].members, Len(segments))
        /\ \A i \in 1 .. Len(segments) : \E k \in 1 .. n :
             \E j \in 1 .. Len(sections[k].members) : sections[k].members[j] = i
    BY <1>1 DEF Sectioned, n
  <1>5. \A k \in 1 .. n :
          /\ of(k) \in Seq(Cuts)
          /\ \A q \in 1 .. Len(of(k)) : Own(of(k)[q], segments) /\ OfSection(of(k)[q], sections[k], segments)
          /\ \A j \in 1 .. Len(sections[k].members) :
               \A r : Phrase(r) /\ Inside(r, segments[sections[k].members[j]].text) => Holds(of(k), r)
    BY <1>3, <1>4, SectionCutIs
  <1> HIDE DEF of
  <1>6. seqs \in Seq(Seq(Cuts)) /\ Len(seqs) = n /\ \A k \in 1 .. n : seqs[k] = of(k)
    <2>1. /\ seqs \in [1 .. n -> Seq(Cuts)] /\ DOMAIN seqs = 1 .. n
          /\ \A k \in 1 .. n : seqs[k] = of(k)
      BY <1>3, <1>5
    <2> HIDE DEF seqs
    <2>2. seqs \in Seq(Seq(Cuts))
      BY <1>3, <2>1, SeqDef
    <2> QED BY <1>3, <2>1, <2>2, LenProperties
  <1> HIDE DEF seqs
  <1>7. /\ flat \in Seq(Cuts)
        /\ \A k \in 1 .. n : Inside(of(k), flat)
        /\ \A p \in 1 .. Len(flat) : \E k \in 1 .. n : \E q \in 1 .. Len(of(k)) : flat[p] = of(k)[q]
    <2>1. /\ flat \in Seq(Cuts)
          /\ \A k \in 1 .. Len(seqs) : Inside(seqs[k], flat)
          /\ \A p \in 1 .. Len(flat) :
               \E k \in 1 .. Len(seqs) : \E q \in 1 .. Len(seqs[k]) : flat[p] = seqs[k][q]
      BY <1>6, FlattenIs
    <2> HIDE DEF flat
    <2>2. ASSUME NEW k \in 1 .. n PROVE Inside(of(k), flat)
      <3>1. k \in 1 .. Len(seqs) /\ seqs[k] = of(k)
        BY <1>6
      <3>2. Inside(seqs[k], flat)
        BY <2>1, <3>1
      <3> QED BY <3>1, <3>2
    <2>3. ASSUME NEW p \in 1 .. Len(flat)
          PROVE  \E k \in 1 .. n : \E q \in 1 .. Len(of(k)) : flat[p] = of(k)[q]
      <3>1. PICK k \in 1 .. Len(seqs) : \E q \in 1 .. Len(seqs[k]) : flat[p] = seqs[k][q]
        BY <2>1
      <3>2. k \in 1 .. n /\ seqs[k] = of(k)
        BY <1>6
      <3> QED BY <3>1, <3>2
    <2> QED BY <2>1, <2>2, <2>3
  <1> HIDE DEF flat
  <1>8. \A p \in 1 .. Len(flat) : Own(flat[p], segments)
    BY <1>5, <1>7
  <1>9. ASSUME NEW i \in 1 .. Len(segments), NEW r, Phrase(r), Inside(r, segments[i].text)
        PROVE  Holds(flat, r)
    <2>1. PICK k \in 1 .. n : \E j \in 1 .. Len(sections[k].members) : sections[k].members[j] = i
      BY <1>4
    <2>2. Holds(of(k), r)
      BY <1>5, <1>9, <2>1
    <2>3. Len(of(k)) \in Nat /\ Len(flat) \in Nat /\ Inside(of(k), flat)
      BY <1>5, <1>7, LenProperties
    <2> QED BY <2>2, <2>3, HoldsInside
  <1>10. \A p \in 1 .. Len(flat) : \E k \in 1 .. n : OfSection(flat[p], sections[k], segments)
    BY <1>5, <1>7
  <1> QED BY <1>2, <1>7, <1>8, <1>9, <1>10 DEF CutFrom, n, sections

-----------------------------------------------------------------------------
(* Paragraphs                                                              *)

ParagraphState == [chunks : Seq(Cuts), buffer : Text, first : Nat, last : Nat]
ParagraphStart == [chunks |-> <<>>, buffer |-> <<>>, first |-> 0, last |-> 0]

FillBuffer(s, segment) ==
  [s EXCEPT !.first = IF @ = 0 THEN segment.first ELSE @,
            !.last = segment.last,
            !.buffer = Append(@ \o segment.text, NewLine)]

AddParagraph(s, segment, quality) ==
  IF Bytes(FillBuffer(s, segment).buffer) >= MaxChars
  THEN [FlushBuffer(FillBuffer(s, segment), quality) EXCEPT !.first = NextBuffer(segment.last)]
  ELSE FillBuffer(s, segment)

(* A phrase has no line end, so it is not cut by a trim.                   *)
LEMMA InsideTrim ==
  ASSUME NEW text \in Text, NEW r, Phrase(r), Inside(r, text)
  PROVE  Inside(r, Trim(text))
  <1>1. /\ r \in Text /\ Len(r) \in 1 .. OverlapChars + 1 /\ Len(r) \in Nat
        /\ \A p \in 1 .. Len(r) : r[p] # NewLine
    BY PhraseIs, SeenIs DEF Phrase
  <1>2. Len(text) \in Nat
    BY SeenIs
  <1>3. PICK off \in Nat : off + Len(r) <= Len(text) /\ \A p \in 1 .. Len(r) : text[off + p] = r[p]
    BY DEF Inside
  <1>4. \A p \in 1 .. Len(r) : off + p \in 1 .. Len(text) /\ text[off + p] # NewLine
    BY <1>1, <1>2, <1>3
  <1>5. 1 \in 1 .. Len(r) /\ Len(r) \in 1 .. Len(r)
    BY <1>1, LimitsAre
  <1>6. CASE Trim(text) = <<>> /\ \A p \in 1 .. Len(text) : text[p] = NewLine
    BY <1>4, <1>5, <1>6
  <1>7. ASSUME NEW lo \in 1 .. Len(text), NEW hi \in 1 .. Len(text),
               lo <= hi, Trim(text) = SubSeq(text, lo, hi),
               \A p \in 1 .. Len(text) : text[p] # NewLine => p \in lo .. hi
        PROVE  Inside(r, Trim(text))
    <2> DEFINE sub == SubSeq(text, lo, hi)
    <2>1. /\ Len(sub) = hi - lo + 1
          /\ \A p \in 1 .. hi - lo + 1 : sub[p] = text[lo + p - 1]
      <3>1. lo \in 1 .. Len(text) + 1 /\ hi \in 0 .. Len(text) /\ lo <= hi + 1
        BY <1>2, <1>7
      <3> QED BY <3>1, SubTextIs
    <2> HIDE DEF sub
    <2>2. off + 1 \in lo .. hi /\ off + Len(r) \in lo .. hi
      BY <1>4, <1>5, <1>7
    <2> DEFINE at == off + 1 - lo
    <2>3. at \in Nat /\ at + Len(r) <= Len(sub)
      BY <1>1, <1>2, <2>1, <2>2
    <2>4. ASSUME NEW p \in 1 .. Len(r) PROVE sub[at + p] = r[p]
      <3>1. at + p \in 1 .. hi - lo + 1 /\ lo + (at + p) - 1 = off + p
        BY <1>1, <1>2, <2>1, <2>2, <2>3
      <3>2. sub[at + p] = text[lo + (at + p) - 1]
        BY <2>1, <3>1
      <3> QED BY <1>3, <3>1, <3>2
    <2> HIDE DEF at
    <2>5. Inside(r, sub)
      BY <2>3, <2>4 DEF Inside
    <2> QED BY <1>7, <2>5 DEF sub
  <1> QED BY <1>6, <1>7, TrimIs

(* What is in the buffer: the segments after a, up to k.  Its first line   *)
(* is the one after segment a, which the chunks have.                      *)
FirstLine(segments, a, k) ==
  IF a > 0 THEN segments[a].last + 1 ELSE IF k > 0 THEN segments[1].first ELSE 0

BufferFrom(s, segments, a, k) ==
  /\ s \in ParagraphState
  /\ a \in 0 .. k
  /\ s.first = FirstLine(segments, a, k)
  /\ a < k => s.last = segments[k].last
  /\ Seen(s.buffer) = TextsOf(segments, a + 1, k)
  /\ \A i \in a + 1 .. k : Inside(segments[i].text, s.buffer)
  /\ \A j \in 1 .. Len(s.chunks) : Own(s.chunks[j], segments)
  /\ \A i \in 1 .. a : \A r : Phrase(r) /\ Inside(r, segments[i].text) => Holds(s.chunks, r)

LEMMA FilledHolds ==
  ASSUME NEW segments \in Seq(Segs), NEW m \in Nat, Parted(segments, m),
         NEW k \in 1 .. Len(segments), NEW a, NEW s, BufferFrom(s, segments, a, k - 1)
  PROVE  LET t == FillBuffer(s, segments[k])
         IN  BufferFrom(t, segments, a, k) /\ a < k
  <1> DEFINE segment == segments[k]
             t == FillBuffer(s, segment)
             both == s.buffer \o segment.text
             buffer == Append(both, NewLine)
  <1>1. /\ segment \in Segs /\ segment.text \in Text /\ segment.first \in Nat /\ segment.last \in Nat
        /\ Len(segments) \in Nat
    BY SegmentsAre
  <1>2. /\ s \in ParagraphState /\ s.buffer \in Text /\ a \in 0 .. k - 1
        /\ s.first = FirstLine(segments, a, k - 1)
        /\ Seen(s.buffer) = TextsOf(segments, a + 1, k - 1)
        /\ \A i \in a + 1 .. k - 1 : Inside(segments[i].text, s.buffer)
    BY DEF BufferFrom, ParagraphState
  <1>3. a \in 0 .. k /\ a < k /\ k \in Nat /\ a \in Nat
    BY <1>2
  <1>4. /\ both \in Text /\ Inside(s.buffer, both) /\ Inside(segment.text, both)
        /\ Seen(both) = Seen(s.buffer) \cup Seen(segment.text)
    <2>1. both \in Text
      BY <1>1, <1>2, ConcatProperties DEF Text
    <2> QED BY <1>1, <1>2, <2>1, InsideConcat, ConcatSeen DEF Text
  <1> HIDE DEF both
  <1>5. /\ buffer \in Text /\ Inside(both, buffer) /\ Seen(buffer) = Seen(both)
    BY <1>4, EndIsNewLine
  <1> HIDE DEF buffer, segment
  <1>6. /\ t \in ParagraphState /\ t.buffer = buffer /\ t.last = segment.last /\ t.chunks = s.chunks
        /\ t.first = IF s.first = 0 THEN segment.first ELSE s.first
    BY <1>1, <1>2, <1>5 DEF FillBuffer, ParagraphState, both, buffer
  <1> HIDE DEF t
  <1>7. t.first = FirstLine(segments, a, k)
    <2>1. 1 \in 1 .. Len(segments) /\ segments[1].first \in Nat /\ segments[1].first >= 1
      <3>1. 1 \in 1 .. Len(segments)
        BY <1>1
      <3> QED BY <3>1, SegmentsAre DEF Parted
    <2>2. CASE a > 0
      <3>1. a \in 1 .. Len(segments)
        BY <1>1, <1>3, <2>2
      <3>2. segments[a].last \in Nat
        BY <3>1, SegmentsAre
      <3>3. s.first = segments[a].last + 1 /\ FirstLine(segments, a, k) = segments[a].last + 1
        BY <1>2, <2>2 DEF FirstLine
      <3>4. s.first # 0
        BY <3>2, <3>3
      <3> QED BY <1>6, <3>3, <3>4
    <2>3. CASE ~(a > 0) /\ k - 1 > 0
      <3>1. s.first = segments[1].first /\ FirstLine(segments, a, k) = segments[1].first
        BY <1>2, <1>3, <2>3 DEF FirstLine
      <3>2. s.first # 0
        BY <2>1, <3>1
      <3> QED BY <1>6, <3>1, <3>2
    <2>4. CASE ~(a > 0) /\ ~(k - 1 > 0)
      <3>1. k = 1 /\ s.first = 0 /\ FirstLine(segments, a, k) = segments[1].first
        BY <1>2, <1>3, <2>4 DEF FirstLine
      <3> QED BY <1>6, <3>1 DEF segment
    <2> QED BY <2>2, <2>3, <2>4
  <1>8. Seen(t.buffer) = TextsOf(segments, a + 1, k)
    <2>1. \A i : i \in a + 1 .. k <=> i \in a + 1 .. k - 1 \/ i = k
      BY <1>3
    <2>2. TextsOf(segments, a + 1, k) = TextsOf(segments, a + 1, k - 1) \cup Seen(segment.text)
      BY <2>1 DEF TextsOf, segment
    <2> QED BY <1>2, <1>4, <1>5, <1>6, <2>2
  <1>9. ASSUME NEW i \in a + 1 .. k PROVE Inside(segments[i].text, t.buffer)
    <2>1. CASE i = k
      <3>1. Inside(segment.text, buffer)
        BY <1>1, <1>4, <1>5, InsideTransitive DEF Text
      <3> QED BY <1>6, <2>1, <3>1 DEF segment
    <2>2. CASE i # k
      <3>1. i \in a + 1 .. k - 1 /\ i \in 1 .. Len(segments)
        BY <1>1, <1>3, <2>2
      <3>2. Inside(segments[i].text, s.buffer) /\ segments[i].text \in Text
        BY <1>2, <3>1, SegmentsAre
      <3>3. Inside(segments[i].text, both)
        BY <1>2, <1>4, <3>2, InsideTransitive DEF Text
      <3>4. Inside(segments[i].text, buffer)
        BY <1>4, <1>5, <3>2, <3>3, InsideTransitive DEF Text
      <3> QED BY <1>6, <3>4
    <2> QED BY <2>1, <2>2
  <1>10. /\ \A j \in 1 .. Len(t.chunks) : Own(t.chunks[j], segments)
         /\ \A i \in 1 .. a : \A r : Phrase(r) /\ Inside(r, segments[i].text) => Holds(t.chunks, r)
    BY <1>6 DEF BufferFrom
  <1>11. t.last = segments[k].last
    BY <1>6 DEF segment
  <1>12. BufferFrom(t, segments, a, k)
    BY <1>3, <1>6, <1>7, <1>8, <1>9, <1>10, <1>11 DEF BufferFrom
  <1> QED BY <1>3, <1>12 DEF t, segment

(* A flush puts what is in the buffer behind the chunks.                   *)
LEMMA FlushHolds ==
  ASSUME NEW segments \in Seq(Segs), NEW m \in Nat, Parted(segments, m), NEW quality \in Qualities,
         NEW k \in 0 .. Len(segments), NEW a, NEW s, BufferFrom(s, segments, a, k)
  PROVE  LET t == FlushBuffer(s, quality)
         IN  /\ t \in ParagraphState /\ t.buffer = <<>> /\ t.first = s.first /\ t.last = s.last
             /\ \A j \in 1 .. Len(t.chunks) : Own(t.chunks[j], segments)
             /\ \A i \in 1 .. k : \A r : Phrase(r) /\ Inside(r, segments[i].text) => Holds(t.chunks, r)
  <1> DEFINE text == Trim(s.buffer)
             cuts == Fitted("paragraph", text, s.first, s.last, <<>>, quality)
             all == s.chunks \o cuts
             t == FlushBuffer(s, quality)
  <1>1. /\ s \in ParagraphState /\ s.chunks \in Seq(Cuts) /\ s.buffer \in Text
        /\ s.first \in Nat /\ s.last \in Nat /\ a \in 0 .. k /\ k \in Nat /\ Len(segments) \in Nat
    <2>1. Len(segments) \in Nat
      BY LenProperties
    <2> QED BY <2>1 DEF BufferFrom, ParagraphState
  <1>2. text \in Text /\ Seen(text) = Seen(s.buffer)
    BY <1>1, TrimIsText
  <1>3. t = [s EXCEPT !.chunks = all, !.buffer = <<>>]
    BY DEF FlushBuffer
  <1> HIDE DEF text
  <1>4. /\ FitsOf(cuts, text, s.first, s.last, <<>>)
        /\ Seen(text) = {} => cuts = <<>>
    <2>1. "paragraph" \in Whole /\ <<>> \in Paths
      BY EmptySeq DEF Whole, Paths
    <2> QED BY <1>1, <1>2, <2>1, FittedIs
  <1> HIDE DEF cuts
  <1>5. cuts \in Seq(Cuts) /\ \A r : Phrase(r) /\ Inside(r, text) => Holds(cuts, r)
    BY <1>4 DEF FitsOf
  <1>6. all \in Seq(Cuts)
    BY <1>1, <1>5, ConcatProperties
  <1>7. \A j \in 1 .. Len(cuts) : Own(cuts[j], segments)
    <2>1. CASE a = k
      <3>1. TextsOf(segments, a + 1, k) = {}
        <4>1. \A i : i \notin a + 1 .. k
          BY <1>1, <2>1
        <4> QED BY <4>1 DEF TextsOf
      <3>2. cuts = <<>>
        BY <1>2, <1>4, <3>1 DEF BufferFrom
      <3>3. \A j \in 1 .. Len(<<>>) : FALSE
        OBVIOUS
      <3> QED BY <3>2, <3>3
    <2>2. CASE a # k
      <3> DEFINE b == a + 1
      <3>1. /\ b \in 1 .. Len(segments) /\ k \in b .. Len(segments) /\ k \in 1 .. Len(segments)
            /\ a < k /\ b - 1 = a
        BY <1>1, <2>2
      <3>2. /\ s.first = FirstLine(segments, a, k) /\ s.last = segments[k].last
            /\ Seen(text) = TextsOf(segments, b, k)
        BY <1>2, <3>1 DEF BufferFrom
      <3> HIDE DEF b
      <3>3. s.first <= segments[b].first /\ (b = 1 \/ segments[b - 1].last < s.first)
        <4>1. CASE a > 0
          <5>1. a \in 1 .. Len(segments) /\ a < b
            BY <1>1, <4>1, <3>1
          <5>2. segments[a].last < segments[b].first
            BY <3>1, <5>1 DEF Parted
          <5>3. segments[a].last \in Nat /\ segments[b].first \in Nat
            BY <3>1, <5>1, SegmentsAre
          <5>4. s.first = segments[a].last + 1
            BY <3>2, <4>1 DEF FirstLine
          <5> QED BY <3>1, <5>2, <5>3, <5>4
        <4>2. CASE ~(a > 0)
          <5>1. a = 0 /\ b = 1 /\ k > 0
            BY <1>1, <3>1, <4>2 DEF b
          <5>2. s.first = segments[1].first
            BY <3>2, <4>2, <5>1 DEF FirstLine
          <5>3. segments[b].first \in Nat
            BY <3>1, SegmentsAre
          <5> QED BY <5>1, <5>2, <5>3
        <4> QED BY <4>1, <4>2
      <3> QED BY <1>1, <1>4, <3>1, <3>2, <3>3, FitsOwn
    <2> QED BY <2>1, <2>2
  <1>8. ASSUME NEW j \in 1 .. Len(all) PROVE Own(all[j], segments)
    <2>1. /\ Len(s.chunks) \in Nat /\ Len(cuts) \in Nat /\ Len(all) = Len(s.chunks) + Len(cuts)
          /\ \A i \in 1 .. Len(s.chunks) + Len(cuts) :
               all[i] = IF i <= Len(s.chunks) THEN s.chunks[i] ELSE cuts[i - Len(s.chunks)]
      BY <1>1, <1>5, ConcatProperties, LenProperties
    <2> HIDE DEF all
    <2>2. CASE j <= Len(s.chunks)
      <3>1. j \in 1 .. Len(s.chunks) /\ all[j] = s.chunks[j]
        BY <2>1, <2>2
      <3> QED BY <3>1 DEF BufferFrom
    <2>3. CASE ~(j <= Len(s.chunks))
      <3>1. j - Len(s.chunks) \in 1 .. Len(cuts) /\ all[j] = cuts[j - Len(s.chunks)]
        BY <2>1, <2>3
      <3> QED BY <1>7, <3>1
    <2> QED BY <2>2, <2>3
  <1>9. ASSUME NEW i \in 1 .. k, NEW r, Phrase(r), Inside(r, segments[i].text)
        PROVE  Holds(all, r)
    <2>1. CASE i \in 1 .. a
      <3>1. Holds(s.chunks, r)
        BY <1>9, <2>1 DEF BufferFrom
      <3> QED BY <1>1, <1>5, <3>1, HoldsMore
    <2>2. CASE i \notin 1 .. a
      <3>1. i \in a + 1 .. k /\ i \in 1 .. Len(segments)
        BY <1>1, <2>2
      <3>2. Inside(segments[i].text, s.buffer) /\ segments[i].text \in Text
        BY <3>1, SegmentsAre DEF BufferFrom
      <3>3. Inside(r, s.buffer)
        BY <1>1, <1>9, <3>2, InsideTransitive DEF Phrase, Text
      <3>4. Inside(r, text)
        BY <1>1, <1>9, <3>3, InsideTrim DEF text
      <3>5. Holds(cuts, r)
        BY <1>5, <1>9, <3>4
      <3> QED BY <1>1, <1>5, <3>5, HoldsMore
    <2> QED BY <2>1, <2>2
  <1> HIDE DEF all, t
  <1>10. /\ t \in ParagraphState /\ t.chunks = all /\ t.buffer = <<>>
         /\ t.first = s.first /\ t.last = s.last
    BY <1>1, <1>3, <1>6, EmptySeq DEF ParagraphState, Text
  <1> QED BY <1>8, <1>9, <1>10 DEF t

Buffered(s, segments, k) == \E a \in 0 .. k : BufferFrom(s, segments, a, k)

LEMMA AddHolds ==
  ASSUME NEW segments \in Seq(Segs), NEW m \in Nat, Parted(segments, m), NEW quality \in Qualities,
         NEW k \in 1 .. Len(segments), NEW s, Buffered(s, segments, k - 1)
  PROVE  LET t == AddParagraph(s, segments[k], quality)
         IN  Buffered(t, segments, k) /\ t \in ParagraphState
  <1> DEFINE filled == FillBuffer(s, segments[k])
             flushed == FlushBuffer(filled, quality)
             t == AddParagraph(s, segments[k], quality)
  <1>1. PICK a : BufferFrom(s, segments, a, k - 1)
    BY DEF Buffered
  <1>2. BufferFrom(filled, segments, a, k) /\ a < k
    BY <1>1, FilledHolds
  <1>3. t = IF Bytes(filled.buffer) >= MaxChars
            THEN [flushed EXCEPT !.first = NextBuffer(segments[k].last)] ELSE filled
    BY DEF AddParagraph
  <1> HIDE DEF filled
  <1>4. /\ filled \in ParagraphState /\ a \in 0 .. k
        /\ k \in 0 .. Len(segments) /\ k \in Nat /\ k > 0
    BY <1>2, LenProperties DEF BufferFrom
  <1>5. CASE ~(Bytes(filled.buffer) >= MaxChars)
    <2>1. t = filled
      BY <1>3, <1>5
    <2> QED BY <1>2, <1>4, <2>1 DEF Buffered
  <1>6. CASE Bytes(filled.buffer) >= MaxChars
    <2>1. /\ flushed \in ParagraphState /\ flushed.buffer = <<>>
          /\ flushed.first = filled.first /\ flushed.last = filled.last
          /\ \A j \in 1 .. Len(flushed.chunks) : Own(flushed.chunks[j], segments)
          /\ \A i \in 1 .. k : \A r : Phrase(r) /\ Inside(r, segments[i].text) => Holds(flushed.chunks, r)
      BY <1>2, <1>4, FlushHolds
    <2> HIDE DEF flushed
    <2>2. segments[k].last \in Nat
      BY SegmentsAre
    <2>3. NextBuffer(segments[k].last) = FirstLine(segments, k, k) /\ FirstLine(segments, k, k) \in Nat
      BY <1>4, <2>2 DEF NextBuffer, FirstLine
    <2>4. t = [flushed EXCEPT !.first = FirstLine(segments, k, k)]
      BY <1>3, <1>6, <2>3
    <2> HIDE DEF t
    <2>5. /\ t \in ParagraphState /\ t.buffer = <<>> /\ t.first = FirstLine(segments, k, k)
          /\ t.chunks = flushed.chunks
      BY <2>1, <2>3, <2>4 DEF ParagraphState
    <2>6. \A i : i \notin k + 1 .. k
      BY <1>4
    <2>7. Seen(t.buffer) = TextsOf(segments, k + 1, k)
      <3>1. Seen(<<>>) = {}
        BY DEF Seen, ToSet
      <3> QED BY <2>5, <2>6, <3>1 DEF TextsOf
    <2>8. k \in 0 .. k /\ ~(k < k)
      BY <1>4
    <2>9. BufferFrom(t, segments, k, k)
      BY <2>1, <2>5, <2>6, <2>7, <2>8 DEF BufferFrom
    <2> QED BY <2>5, <2>8, <2>9 DEF Buffered, t
  <1> QED BY <1>5, <1>6

LEMMA ParagraphsGo ==
  ASSUME NEW segments \in Seq(Segs), NEW m \in Nat, Parted(segments, m), NEW quality \in Qualities
  PROVE  \A k \in 0 .. Len(segments) : Buffered(ParagraphsRead(segments, quality)[k], segments, k)
  <1> DEFINE n == Len(segments)
             step(s, k) == AddParagraph(s, segments[k], quality)
             F == [k \in 1 .. n |->
                     [s \in ParagraphState |-> IF Buffered(s, segments, k - 1) THEN step(s, k) ELSE s]]
             Is(h) == h = [k \in 0 .. n |-> IF k = 0 THEN ParagraphStart ELSE step(h[k - 1], k)]
             read == CHOOSE h : Is(h)
  <1>1. n \in Nat
    BY LenProperties
  <1>2. ParagraphsRead(segments, quality) = read
    BY DEF ParagraphsRead, Loop, ParagraphStart, AddParagraph, FillBuffer
  <1>3. Buffered(ParagraphStart, segments, 0) /\ ParagraphStart \in ParagraphState
    <2> DEFINE start == ParagraphStart
    <2>1. /\ start \in ParagraphState /\ start.chunks = <<>> /\ start.buffer = <<>>
          /\ start.first = 0 /\ Len(<<>>) = 0
      BY EmptySeq DEF ParagraphStart, ParagraphState, Text
    <2> HIDE DEF start
    <2>2. (\A i : i \notin 0 + 1 .. 0) /\ (\A i \in 1 .. 0 : FALSE) /\ 0 \in 0 .. 0 /\ ~(0 < 0) /\ ~(0 > 0)
      OBVIOUS
    <2>3. FirstLine(segments, 0, 0) = 0
      BY <2>2 DEF FirstLine
    <2>4. Seen(start.buffer) = TextsOf(segments, 0 + 1, 0)
      <3>1. Seen(<<>>) = {}
        BY DEF Seen, ToSet
      <3> QED BY <2>1, <2>2, <3>1 DEF TextsOf
    <2>5. BufferFrom(start, segments, 0, 0)
      BY <2>1, <2>2, <2>3, <2>4 DEF BufferFrom
    <2> QED BY <2>1, <2>2, <2>5 DEF Buffered, start
  <1>4. \A k \in 1 .. n : \A s \in ParagraphState :
          Buffered(s, segments, k - 1) => Buffered(step(s, k), segments, k) /\ step(s, k) \in ParagraphState
    BY AddHolds
  <1> HIDE DEF n, step
  <1>5. F \in [1 .. n -> [ParagraphState -> ParagraphState]]
    BY <1>4
  <1>6. PICK h : Runs(h, ParagraphState, ParagraphStart, F, n)
    <2> HIDE DEF F
    <2> QED BY <1>1, <1>3, <1>5, LoopGoes
  <1> DEFINE G == {k \in 0 .. n : Buffered(h[k], segments, k)}
  <1>7. \A k \in 0 .. n : k \in G
    <2>1. 0 \in G
      BY <1>1, <1>3, <1>6 DEF Runs
    <2>2. ASSUME NEW k \in 1 .. n, k - 1 \in G PROVE k \in G
      <3>0. k \in 0 .. n /\ k - 1 \in 0 .. n /\ Buffered(h[k - 1], segments, k - 1)
        BY <1>1, <2>2
      <3>1. /\ h[k - 1] \in ParagraphState /\ h[k] = F[k][h[k - 1]]
        BY <1>6, <3>0 DEF Runs
      <3>2. h[k] = step(h[k - 1], k)
        BY <3>0, <3>1
      <3>3. Buffered(h[k], segments, k)
        BY <1>4, <3>0, <3>1, <3>2
      <3> QED BY <3>0, <3>3
    <2> HIDE DEF G
    <2> QED BY <1>1, <2>1, <2>2, UpTo
  <1>8. Is(h)
    <2>1. \A k \in 0 .. n : k # 0 => F[k][h[k - 1]] = step(h[k - 1], k)
      <3> SUFFICES ASSUME NEW k \in 0 .. n, k # 0 PROVE F[k][h[k - 1]] = step(h[k - 1], k)
        OBVIOUS
      <3>1. k - 1 \in 0 .. n /\ k \in 1 .. n
        BY <1>1
      <3>2. h[k - 1] \in ParagraphState /\ Buffered(h[k - 1], segments, k - 1)
        BY <1>6, <1>7, <3>1 DEF Runs
      <3> QED BY <3>1, <3>2
    <2> QED BY <1>6, <2>1 DEF Goes, Runs
  <1>9. Is(read)
    BY <1>8
  <1> HIDE DEF read
  <1>10. read[0] = ParagraphStart /\ \A k \in 1 .. n : read[k] = step(read[k - 1], k)
    BY <1>1, <1>9
  <1> DEFINE R == {k \in 0 .. n : Buffered(read[k], segments, k)}
  <1>11. \A k \in 0 .. n : k \in R
    <2>1. 0 \in R
      BY <1>1, <1>3, <1>10
    <2>2. ASSUME NEW k \in 1 .. n, k - 1 \in R PROVE k \in R
      <3>1. Buffered(read[k - 1], segments, k - 1) /\ k \in 0 .. n /\ read[k] = step(read[k - 1], k)
        BY <1>1, <1>10, <2>2
      <3>2. read[k - 1] \in ParagraphState
        BY <3>1 DEF Buffered, BufferFrom
      <3>3. Buffered(read[k], segments, k)
        BY <1>4, <3>1, <3>2
      <3> QED BY <3>1, <3>3
    <2> HIDE DEF R
    <2> QED BY <1>1, <2>1, <2>2, UpTo
  <1> QED BY <1>2, <1>11 DEF n

LEMMA ParagraphChunksAre ==
  ASSUME NEW segments \in Seq(Segs), NEW m \in Nat, Parted(segments, m), NEW quality \in Qualities
  PROVE  CutFrom(ParagraphChunks(segments, quality), segments)
  <1> DEFINE n == Len(segments)
             end == ParagraphsRead(segments, quality)[n]
             flushed == FlushBuffer(end, quality)
  <1>1. n \in 0 .. n
    BY LenProperties
  <1>2. PICK a : BufferFrom(end, segments, a, n)
    BY <1>1, ParagraphsGo DEF Buffered
  <1>3. ParagraphChunks(segments, quality) = flushed.chunks
    BY DEF ParagraphChunks
  <1> HIDE DEF end
  <1>4. /\ flushed \in ParagraphState
        /\ \A j \in 1 .. Len(flushed.chunks) : Own(flushed.chunks[j], segments)
        /\ \A i \in 1 .. n : \A r : Phrase(r) /\ Inside(r, segments[i].text) => Holds(flushed.chunks, r)
    BY <1>1, <1>2, FlushHolds
  <1> HIDE DEF flushed
  <1> QED BY <1>3, <1>4 DEF CutFrom, ParagraphState

-----------------------------------------------------------------------------
(* All the chunks of a file                                                *)

LEMMA DocumentIs ==
  ASSUME NEW segments \in Seq(Segs), NEW m \in Nat, Parted(segments, m), NEW quality \in Qualities
  PROVE  /\ DocumentChunk(segments, quality) \in Cuts
         /\ Own(DocumentChunk(segments, quality), segments)
  <1> DEFINE n == Len(segments)
             document == DocumentChunk(segments, quality)
  <1>0. n \in Nat /\ DOMAIN segments = 1 .. n
    BY LenProperties
  <1>1. CASE segments = <<>>
    <2>1. document = Chunk("document", <<>>, 1, 1, <<>>, "unknown")
      BY <1>1 DEF DocumentChunk
    <2> HIDE DEF document
    <2>2. document \in Cuts /\ document.text = <<>>
      <3>1. <<>> \in Text /\ <<>> \in Paths /\ 1 \in Int
        BY EmptySeq DEF Text, Paths
      <3> QED BY <2>1, <3>1, ChunkIs
    <2>3. Near(document, segments) = {} /\ Seen(<<>>) = {}
      BY <1>1 DEF Near, Seen, ToSet
    <2> QED BY <2>2, <2>3 DEF Own, document
  <1>2. CASE segments # <<>>
    <2> DEFINE texts == [k \in DOMAIN segments |-> segments[k].text]
               text == Join(texts)
    <2>1. n >= 1 /\ 1 \in 1 .. n /\ n \in 1 .. n /\ Head(segments) = segments[1] /\ Last(segments) = segments[n]
      <3>1. n # 0
        BY <1>2, EmptySeq
      <3>2. Head(segments) = segments[1]
        BY <1>2, HeadTailProperties
      <3> QED BY <1>0, <3>1, <3>2 DEF Last
    <2>2. document = Chunk("document", text, segments[1].first, segments[n].last, <<>>, quality)
      BY <1>2, <2>1 DEF DocumentChunk
    <2>3. \A k \in 1 .. n : segments[k].text \in Text
      BY SegmentsAre
    <2>4. texts \in Seq(Text) /\ Len(texts) = n /\ \A k \in 1 .. n : texts[k] = segments[k].text
      <3>1. /\ texts \in [1 .. n -> Text] /\ DOMAIN texts = 1 .. n
            /\ \A k \in 1 .. n : texts[k] = segments[k].text
        BY <1>0, <2>3
      <3> HIDE DEF texts
      <3>2. texts \in Seq(Text)
        BY <1>0, <3>1, SeqDef
      <3> QED BY <1>0, <3>1, <3>2, LenProperties
    <2> HIDE DEF texts
    <2>5. text \in Text /\ Seen(text) = TextsOf(segments, 1, n)
      <3>1. text \in Text /\ Seen(text) = UNION {Seen(texts[k]) : k \in 1 .. Len(texts)}
        BY <2>4, JoinIs
      <3> HIDE DEF text
      <3> QED BY <2>4, <3>1 DEF TextsOf
    <2> HIDE DEF text
    <2>6. segments[1].first \in Nat /\ segments[n].last \in Nat
      BY <2>1, SegmentsAre
    <2> HIDE DEF document
    <2>7. /\ document \in Cuts /\ document.text = text
          /\ document.first = segments[1].first /\ document.last = segments[n].last
      <3>1. <<>> \in Paths /\ quality \in {"exact", "approximate", "unknown"}
        BY EmptySeq DEF Paths, Qualities
      <3>2. segments[1].first \in Int /\ segments[n].last \in Int
        BY <2>6
      <3> QED BY <2>2, <2>5, <3>1, <3>2, ChunkIs
    <2>8. Near(document, segments) = 1 .. n
      <3>1. segments[1].first <= segments[1].first
        BY <2>6
      <3> QED BY <2>1, <2>6, <2>7, <3>1, NearIs
    <2> QED BY <2>5, <2>7, <2>8 DEF Own, TextsOf, document
  <1> QED BY <1>1, <1>2

LEMMA ChunkedIs ==
  ASSUME NEW segments \in Seq(Segs), NEW m \in Nat, Parted(segments, m), NEW quality \in Qualities
  PROVE  LET all == Chunked(segments, quality)
         IN  /\ all \in Seq(Cuts)
             /\ \A c \in 1 .. Len(all) : Own(all[c], segments)
             /\ \A i \in 1 .. Len(segments) : \A r : Phrase(r) /\ Inside(r, segments[i].text) =>
                  \E c \in 2 .. Len(all) : ToSet(r) \subseteq Seen(all[c].text)
  <1> DEFINE document == DocumentChunk(segments, quality)
             structured == \E k \in DOMAIN segments : segments[k].kind = "heading"
             rest == IF structured THEN SectionChunks(segments, quality)
                                   ELSE ParagraphChunks(segments, quality)
             all == Chunked(segments, quality)
  <1>1. all = <<document>> \o rest
    BY DEF Chunked
  <1>2. document \in Cuts /\ Own(document, segments)
    BY DocumentIs
  <1>3. CutFrom(rest, segments)
    BY SectionChunksAre, ParagraphChunksAre
  <1> HIDE DEF document, rest, all
  <1>4. rest \in Seq(Cuts) /\ <<document>> \in Seq(Cuts)
    BY <1>2, <1>3 DEF CutFrom
  <1>5. /\ all \in Seq(Cuts) /\ Len(rest) \in Nat /\ Len(all) = 1 + Len(rest)
        /\ \A c \in 1 .. 1 + Len(rest) : all[c] = IF c <= 1 THEN document ELSE rest[c - 1]
    <2>1. Len(<<document>>) = 1 /\ <<document>>[1] = document
      OBVIOUS
    <2>2. /\ all \in Seq(Cuts) /\ Len(rest) \in Nat /\ Len(all) = Len(<<document>>) + Len(rest)
          /\ \A c \in 1 .. Len(<<document>>) + Len(rest) :
               all[c] = IF c <= Len(<<document>>) THEN <<document>>[c] ELSE rest[c - Len(<<document>>)]
      BY <1>1, <1>4, ConcatProperties, LenProperties
    <2>3. ASSUME NEW c \in 1 .. 1 + Len(rest) PROVE all[c] = IF c <= 1 THEN document ELSE rest[c - 1]
      <3>1. CASE c <= 1
        <4>1. c = 1
          BY <2>2, <3>1
        <4> QED BY <2>1, <2>2, <3>1, <4>1
      <3>2. CASE ~(c <= 1)
        BY <2>1, <2>2, <3>2
      <3> QED BY <3>1, <3>2
    <2> QED BY <2>1, <2>2, <2>3
  <1>6. ASSUME NEW c \in 1 .. Len(all) PROVE Own(all[c], segments)
    <2>1. CASE c = 1
      BY <1>2, <1>5, <2>1
    <2>2. CASE c # 1
      <3>1. c - 1 \in 1 .. Len(rest) /\ all[c] = rest[c - 1]
        BY <1>5, <2>2
      <3> QED BY <1>3, <3>1 DEF CutFrom
    <2> QED BY <2>1, <2>2
  <1>7. ASSUME NEW i \in 1 .. Len(segments), NEW r, Phrase(r), Inside(r, segments[i].text)
        PROVE  \E c \in 2 .. Len(all) : ToSet(r) \subseteq Seen(all[c].text)
    <2>1. PICK k \in 1 .. Len(rest) : ToSet(r) \subseteq Seen(rest[k].text)
      BY <1>3, <1>7 DEF CutFrom, Holds
    <2>2. k + 1 \in 2 .. Len(all) /\ all[k + 1] = rest[k]
      BY <1>5
    <2> QED BY <2>1, <2>2
  <1> QED BY <1>5, <1>6, <1>7 DEF all

LEMMA CutAfterReading ==
  ASSUME OnItsWay
  PROVE  /\ stage # "found" => output.segments \in Seq(Segs)
         /\ stage = "chunked" =>
              /\ chunks \in Seq(Cuts)
              /\ \A c \in 1 .. Len(chunks) : Own(chunks[c], output.segments)
              /\ \A i \in 1 .. Len(output.segments) :
                   \A r : Phrase(r) /\ Inside(r, output.segments[i].text) =>
                     \E c \in 2 .. Len(chunks) : ToSet(r) \subseteq Seen(chunks[c].text)
  <1> SUFFICES ASSUME stage # "found"
               PROVE  /\ output.segments \in Seq(Segs)
                      /\ stage = "chunked" =>
                           /\ chunks \in Seq(Cuts)
                           /\ \A c \in 1 .. Len(chunks) : Own(chunks[c], output.segments)
                           /\ \A i \in 1 .. Len(output.segments) :
                                \A r : Phrase(r) /\ Inside(r, output.segments[i].text) =>
                                  \E c \in 2 .. Len(chunks) : ToSet(r) \subseteq Seen(chunks[c].text)
    OBVIOUS
  <1>1. /\ format \in Format /\ content \in Files(format) /\ output = Extracted(format, content)
        /\ stage = "chunked" => chunks = Chunked(output.segments, Quality(format))
    BY DEF OnItsWay
  <1>2. output.segments \in Seq(Segs) /\ \E m \in Nat : Parted(output.segments, m)
    BY <1>1, ExtractedIs
  <1>3. Quality(format) \in Qualities
    BY DEF Quality, Qualities
  <1> DEFINE segments == output.segments
             quality == Quality(format)
  <1> HIDE DEF segments, quality
  <1>4. /\ segments \in Seq(Segs) /\ quality \in Qualities /\ \E m \in Nat : Parted(segments, m)
        /\ stage = "chunked" => chunks = Chunked(segments, quality)
    BY <1>1, <1>2, <1>3 DEF segments, quality
  <1>5. stage = "chunked" =>
          /\ chunks \in Seq(Cuts)
          /\ \A c \in 1 .. Len(chunks) : Own(chunks[c], segments)
          /\ \A i \in 1 .. Len(segments) :
               \A r : Phrase(r) /\ Inside(r, segments[i].text) =>
                 \E c \in 2 .. Len(chunks) : ToSet(r) \subseteq Seen(chunks[c].text)
    BY <1>4, ChunkedIs
  <1> QED BY <1>2, <1>5 DEF segments

LEMMA WholeAfterReading ==
  ASSUME OnItsWay
  PROVE  PhrasesStayWhole
  <1> SUFFICES ASSUME stage = "chunked", NEW k \in DOMAIN output.segments,
                      NEW a \in DOMAIN output.segments[k].text,
                      NEW b \in a .. Least(a + OverlapChars, Len(output.segments[k].text)),
                      NewLine \notin ToSet(SubSeq(output.segments[k].text, a, b))
               PROVE  \E c \in 2 .. Len(chunks) :
                        ToSet(SubSeq(output.segments[k].text, a, b)) \subseteq Seen(chunks[c].text)
    BY DEF PhrasesStayWhole
  <1> DEFINE segments == output.segments
             text == segments[k].text
             r == SubSeq(text, a, b)
  <1>1. segments \in Seq(Segs) /\ k \in 1 .. Len(segments)
    BY CutAfterReading, LenProperties
  <1>2. text \in Text
    BY <1>1, SegmentsAre
  <1>3. Len(text) \in Nat /\ a \in 1 .. Len(text)
    BY <1>2, SeenIs
  <1>4. b \in a .. Len(text) /\ b <= a + OverlapChars /\ OverlapChars \in Nat
    BY <1>3, LimitsAre DEF Least
  <1>5. r \in Text /\ Len(r) = b - a + 1 /\ \A p \in 1 .. b - a + 1 : r[p] = text[a + p - 1]
    <2>1. a \in 1 .. Len(text) + 1 /\ b \in 0 .. Len(text) /\ a <= b + 1
      BY <1>3, <1>4
    <2> HIDE DEF text
    <2> QED BY <1>2, <2>1, SubTextIs
  <1>6. NewLine \notin ToSet(r)
    OBVIOUS
  <1>g. \A i \in 1 .. Len(segments) :
          \A q : Phrase(q) /\ Inside(q, segments[i].text) =>
            \E c \in 2 .. Len(chunks) : ToSet(q) \subseteq Seen(chunks[c].text)
    BY CutAfterReading
  <1> HIDE DEF r
  <1>7. Phrase(r)
    <2>1. Len(r) \in 1 .. OverlapChars + 1
      BY <1>3, <1>4, <1>5
    <2> QED BY <1>5, <1>6, <2>1 DEF Phrase
  <1>8. Inside(r, text)
    <2>1. a - 1 \in Nat /\ (a - 1) + Len(r) <= Len(text)
      BY <1>3, <1>4, <1>5
    <2>2. ASSUME NEW p \in 1 .. Len(r) PROVE text[(a - 1) + p] = r[p]
      <3>1. p \in 1 .. b - a + 1 /\ (a - 1) + p = a + p - 1
        BY <1>3, <1>4, <1>5
      <3> QED BY <1>5, <3>1
    <2> HIDE DEF text
    <2> QED BY <2>1, <2>2 DEF Inside
  <1> QED BY <1>1, <1>7, <1>8, <1>g DEF r

LEMMA OwnAfterReading ==
  ASSUME OnItsWay
  PROVE  EmbeddedFromOwnText
  <1> SUFFICES ASSUME NEW c \in DOMAIN chunks, chunks[c].kind # "fallback"
               PROVE  UNION {Seen(output.segments[k].text) : k \in Overlapping(chunks[c])}
                        = Seen(chunks[c].text)
    BY DEF EmbeddedFromOwnText
  <1>1. stage = "chunked"
    BY DEF OnItsWay
  <1>2. c \in 1 .. Len(chunks) /\ Own(chunks[c], output.segments)
    BY <1>1, CutAfterReading, LenProperties
  <1> QED BY <1>2 DEF Own, Near, Overlapping

(* However a file is cut, each run of characters of its extracted text one *)
(* longer than the overlap, or shorter, is whole in a chunk of a part of   *)
(* the file: in a section, in a paragraph's buffer, or in one of the       *)
(* windows of a text that is too long (chunker.rs:99-297).                 *)
THEOREM PhrasesWhole == Spec => []PhrasesStayWhole
  <1>1. OnItsWay => PhrasesStayWhole
    BY WholeAfterReading
  <1> QED BY <1>1, AlwaysOnItsWay, PTL

(* The segments whose lines overlap a chunk's lines are the ones its text  *)
(* was put together from, so what is embedded of it, and shown of it, is   *)
(* its own text and no neighbour's (chunker.rs:186-250,                    *)
(* embedding.rs:217-242, snippet.rs:306-316).                              *)
THEOREM OwnTextEmbedded == Spec => []EmbeddedFromOwnText
  <1>1. OnItsWay => EmbeddedFromOwnText
    BY OwnAfterReading
  <1> QED BY <1>1, AlwaysOnItsWay, PTL

(* What every state holds: the extracted parts, each after the one before  *)
(* it, and the chunks.                                                     *)
PartsAndChunks ==
  /\ stage # "found" =>
       /\ output.segments \in Seq(Segs)
       /\ \A j \in 1 .. Len(output.segments) : \A l \in 1 .. j - 1 :
            output.segments[l].last < output.segments[j].first
  /\ chunks \in Seq(Cuts)
  /\ stage = "chunked" => chunks # <<>> /\ chunks[1].kind = "document"

LEMMA TypedAfterReading ==
  ASSUME OnItsWay
  PROVE  PartsAndChunks
  <1> DEFINE segments == output.segments
  <1>1. /\ format \in Format /\ content \in Files(format)
        /\ stage # "found" => output = Extracted(format, content)
        /\ chunks = IF stage = "chunked" THEN Chunked(segments, Quality(format)) ELSE <<>>
    BY DEF OnItsWay
  <1>2. stage # "found" => segments \in Seq(Segs) /\ \E m \in Nat : Parted(segments, m)
    BY <1>1, ExtractedIs
  <1>3. stage = "chunked" => chunks \in Seq(Cuts)
    BY CutAfterReading
  <1> HIDE DEF segments
  <1>4. ASSUME stage = "chunked" PROVE chunks # <<>> /\ chunks[1].kind = "document"
    <2> DEFINE document == DocumentChunk(segments, Quality(format))
               structured == \E k \in DOMAIN segments : segments[k].kind = "heading"
               rest == IF structured THEN SectionChunks(segments, Quality(format))
                                     ELSE ParagraphChunks(segments, Quality(format))
    <2>1. Chunked(segments, Quality(format)) = <<document>> \o rest
      BY DEF Chunked
    <2>2. document.kind = "document"
      BY DEF DocumentChunk, Chunk
    <2>3. PICK m \in Nat : segments \in Seq(Segs) /\ Parted(segments, m)
      BY <1>2, <1>4
    <2>4. Quality(format) \in Qualities
      BY DEF Quality, Qualities
    <2>5. document \in Cuts /\ rest \in Seq(Cuts)
      BY <2>3, <2>4, DocumentIs, SectionChunksAre, ParagraphChunksAre DEF CutFrom
    <2> HIDE DEF document, rest
    <2>6. chunks = <<document>> \o rest
      BY <1>1, <1>4, <2>1
    <2>7. <<document>> \in Seq(Cuts) /\ Len(<<document>>) = 1 /\ <<document>>[1] = document
      BY <2>5
    <2>8. Len(rest) \in Nat
      BY <2>5, LenProperties
    <2>9. Len(chunks) = 1 + Len(rest) /\ chunks[1] = document
      BY <2>5, <2>6, <2>7, <2>8, ConcatProperties
    <2>10. Len(chunks) # 0 /\ Len(<<>>) = 0
      BY <2>8, <2>9
    <2> QED BY <2>2, <2>9, <2>10
  <1>5. stage # "found" => \A j \in 1 .. Len(segments) : \A l \in 1 .. j - 1 :
                             segments[l].last < segments[j].first
    <2> SUFFICES ASSUME stage # "found", NEW j \in 1 .. Len(segments), NEW l \in 1 .. j - 1
                 PROVE  segments[l].last < segments[j].first
      OBVIOUS
    <2>1. PICK m \in Nat : Parted(segments, m)
      BY <1>2
    <2>2. Len(segments) \in Nat
      BY <1>2, LenProperties
    <2>3. l \in 1 .. Len(segments) /\ l < j
      BY <2>2
    <2> QED BY <2>1, <2>3 DEF Parted
  <1>6. <<>> \in Seq(Cuts)
    BY EmptySeq
  <1> QED BY <1>1, <1>2, <1>3, <1>4, <1>5, <1>6 DEF PartsAndChunks, segments

(* The parts a file is extracted to are typed and come one after the other *)
(* in lines, pages or blocks, as chunk_text and the snippets rely on, and  *)
(* the first chunk is the whole document (types.rs:244-256,                *)
(* chunker.rs:31-96).                                                      *)
THEOREM PartsInOrder == Spec => []PartsAndChunks
  <1>1. OnItsWay => PartsAndChunks
    BY TypedAfterReading
  <1> QED BY <1>1, AlwaysOnItsWay, PTL

-----------------------------------------------------------------------------
(* The headings a part of a file stands under                              *)

(* The lines of the headings among the first k segments.                   *)
HeadsOf(segments, k) == {j \in 1 .. k : segments[j].kind = "heading"}
HeadLines(segments, k) == {segments[j].first : j \in HeadsOf(segments, k)}

(* The ones a later line stands under: no heading of their level, or of a  *)
(* higher one, comes after them.                                           *)
Around(heads, lines) == {h \in heads : \A g \in heads : g > h => lines[g].level > lines[h].level}

TitleOf(h) == [unit |-> h, marks |-> 0]

PathFor(path, heads, lines) ==
  /\ path \in Paths
  /\ ToSet(path) = {TitleOf(h) : h \in Around(heads, lines)}
  /\ \A i, j \in 1 .. Len(path) : i < j => path[i].unit < path[j].unit

(* The path of the last heading among the first k segments.                *)
Trail(segments, k) ==
  IF HeadsOf(segments, k) = {} THEN <<>> ELSE segments[Max(HeadsOf(segments, k))].path

(* A heading's path is what it leaves of the path before it, and itself.   *)
Grown(path, before, h) ==
  \E m \in 0 .. Len(before) :
    /\ Len(path) = m + 1 /\ path[m + 1] = TitleOf(h)
    /\ \A j \in 1 .. m : path[j] = before[j]

HeadingRight(segments, k, lines) ==
  LET e == segments[k]
  IN  /\ e.first = e.last /\ Head(e.text)[1] = e.first
      /\ PathFor(e.path, HeadLines(segments, k), lines)
      /\ Grown(e.path, Trail(segments, k - 1), e.first)

Told(e) == \A x \in Seen(e.text) : x[1] \in e.first .. e.last

Headed(segments, lines) ==
  \A k \in 1 .. Len(segments) :
    /\ Told(segments[k])
    /\ segments[k].kind = "heading" => HeadingRight(segments, k, lines)

LEMMA HeadsOfIs ==
  ASSUME NEW segments, NEW k \in Nat \ {0}
  PROVE  /\ segments[k].kind = "heading" => HeadsOf(segments, k) = HeadsOf(segments, k - 1) \cup {k}
         /\ segments[k].kind # "heading" => HeadsOf(segments, k) = HeadsOf(segments, k - 1)
         /\ HeadsOf(segments, 0) = {}
  <1>1. \A j : j \in 1 .. k <=> j \in 1 .. k - 1 \/ j = k
    OBVIOUS
  <1>2. \A j : j \notin 1 .. 0
    OBVIOUS
  <1> QED BY <1>1, <1>2 DEF HeadsOf

LEMMA TrailIs ==
  ASSUME NEW segments, NEW k \in Nat \ {0}
  PROVE  /\ segments[k].kind = "heading" =>
              /\ Trail(segments, k) = segments[k].path
              /\ HeadLines(segments, k) = HeadLines(segments, k - 1) \cup {segments[k].first}
         /\ segments[k].kind # "heading" =>
              /\ Trail(segments, k) = Trail(segments, k - 1)
              /\ HeadLines(segments, k) = HeadLines(segments, k - 1)
         /\ Trail(segments, 0) = <<>> /\ HeadLines(segments, 0) = {}
  <1>1. CASE segments[k].kind = "heading"
    <2> DEFINE heads == HeadsOf(segments, k)
    <2>1. heads = HeadsOf(segments, k - 1) \cup {k} /\ heads \subseteq 0 .. k
      BY <1>1, HeadsOfIs DEF HeadsOf
    <2> HIDE DEF heads
    <2>2. Max(heads) \in 0 .. k /\ k <= Max(heads)
      BY <2>1, MaxIsMost
    <2>3. Max(heads) = k
      BY <2>2
    <2> QED BY <1>1, <2>1, <2>3, HeadsOfIs DEF Trail, HeadLines, heads
  <1> QED BY <1>1, HeadsOfIs DEF Trail, HeadLines

(* What is behind the first k segments does not matter.                    *)
LEMMA HeadsBefore ==
  ASSUME NEW segments, NEW more, NEW k \in Nat, \A j \in 1 .. k : more[j] = segments[j]
  PROVE  /\ HeadLines(more, k) = HeadLines(segments, k)
         /\ Trail(more, k) = Trail(segments, k)
  <1>1. HeadsOf(more, k) = HeadsOf(segments, k)
    BY DEF HeadsOf
  <1>2. HeadLines(more, k) = HeadLines(segments, k)
    BY <1>1 DEF HeadLines, HeadsOf
  <1>3. CASE HeadsOf(segments, k) # {}
    <2> DEFINE heads == HeadsOf(segments, k)
    <2>1. heads \subseteq 0 .. k /\ heads \subseteq 1 .. k /\ heads # {}
      BY <1>3 DEF HeadsOf
    <2> HIDE DEF heads
    <2>2. Max(heads) \in 1 .. k
      BY <2>1, MaxIsMost
    <2> QED BY <1>1, <1>2, <1>3, <2>2 DEF Trail, heads
  <1> QED BY <1>1, <1>2, <1>3 DEF Trail

LEMMA HeadingBefore ==
  ASSUME NEW segments, NEW more, NEW k \in Nat \ {0}, \A j \in 1 .. k : more[j] = segments[j],
         NEW lines
  PROVE  HeadingRight(more, k, lines) <=> HeadingRight(segments, k, lines)
  <1>1. k \in Nat /\ k - 1 \in Nat /\ k \in 1 .. k /\ \A j \in 1 .. k - 1 : j \in 1 .. k
    OBVIOUS
  <1>2. HeadLines(more, k) = HeadLines(segments, k)
    BY <1>1, HeadsBefore
  <1>3. Trail(more, k - 1) = Trail(segments, k - 1)
    BY <1>1, HeadsBefore
  <1> QED BY <1>1, <1>2, <1>3 DEF HeadingRight

LEMMA BeginsHeaded ==
  ASSUME NEW segments \in Seq(Segs), NEW begun \in Seq(Segs), Begins(begun, segments), NEW lines,
         Headed(segments, lines)
  PROVE  Headed(begun, lines)
  <1> SUFFICES ASSUME NEW k \in 1 .. Len(begun)
               PROVE  /\ Told(begun[k])
                      /\ begun[k].kind = "heading" => HeadingRight(begun, k, lines)
    BY DEF Headed
  <1>1. Len(begun) \in Nat /\ Len(segments) \in Nat
    BY LenProperties
  <1>2. Len(begun) \in 0 .. Len(segments) /\ \A j \in 1 .. Len(begun) : begun[j] = segments[j]
    BY DEF Begins
  <1>3. k \in 1 .. Len(segments) /\ k \in Nat \ {0} /\ \A j \in 1 .. k : j \in 1 .. Len(begun)
    BY <1>1, <1>2
  <1>4. \A j \in 1 .. k : begun[j] = segments[j]
    BY <1>2, <1>3
  <1>5. HeadingRight(begun, k, lines) <=> HeadingRight(segments, k, lines)
    BY <1>3, <1>4, HeadingBefore
  <1> QED BY <1>2, <1>3, <1>5 DEF Headed

LEMMA HeadedAppend ==
  ASSUME NEW segments \in Seq(Segs), NEW lines, Headed(segments, lines), NEW e \in Segs, Told(e),
         e.kind = "heading" =>
           /\ e.first = e.last /\ Head(e.text)[1] = e.first
           /\ PathFor(e.path, HeadLines(segments, Len(segments)) \cup {e.first}, lines)
           /\ Grown(e.path, Trail(segments, Len(segments)), e.first)
  PROVE  LET more == Append(segments, e)
         IN  /\ Headed(more, lines)
             /\ e.kind # "heading" =>
                  /\ Trail(more, Len(more)) = Trail(segments, Len(segments))
                  /\ HeadLines(more, Len(more)) = HeadLines(segments, Len(segments))
             /\ e.kind = "heading" =>
                  /\ Trail(more, Len(more)) = e.path
                  /\ HeadLines(more, Len(more)) = HeadLines(segments, Len(segments)) \cup {e.first}
  <1> DEFINE n == Len(segments)
             more == Append(segments, e)
  <1>1. /\ n \in Nat /\ Len(more) = n + 1 /\ more[n + 1] = e
        /\ \A j \in 1 .. n : more[j] = segments[j]
    BY AppendIs
  <1> HIDE DEF more
  <1>2. HeadLines(more, n) = HeadLines(segments, n) /\ Trail(more, n) = Trail(segments, n)
    BY <1>1, HeadsBefore
  <1>3. n + 1 \in Nat \ {0} /\ (n + 1) - 1 = n
    BY <1>1
  <1>4. /\ e.kind # "heading" => /\ Trail(more, n + 1) = Trail(segments, n)
                                 /\ HeadLines(more, n + 1) = HeadLines(segments, n)
        /\ e.kind = "heading" => /\ Trail(more, n + 1) = e.path
                                 /\ HeadLines(more, n + 1) = HeadLines(segments, n) \cup {e.first}
    BY <1>1, <1>2, <1>3, TrailIs
  <1>5. ASSUME NEW k \in 1 .. n + 1
        PROVE  /\ Told(more[k])
               /\ more[k].kind = "heading" => HeadingRight(more, k, lines)
    <2>1. CASE k = n + 1
      BY <1>1, <1>2, <1>3, <1>4, <2>1 DEF HeadingRight
    <2>2. CASE k # n + 1
      <3>1. k \in 1 .. n /\ k \in Nat \ {0} /\ \A j \in 1 .. k : j \in 1 .. n
        BY <1>1, <2>2
      <3>2. \A j \in 1 .. k : more[j] = segments[j]
        BY <1>1, <3>1
      <3>3. HeadingRight(more, k, lines) <=> HeadingRight(segments, k, lines)
        BY <3>1, <3>2, HeadingBefore
      <3> QED BY <1>1, <3>1, <3>3 DEF Headed
    <2> QED BY <2>1, <2>2
  <1> QED BY <1>1, <1>4, <1>5 DEF Headed, more

-----------------------------------------------------------------------------
(* The stack of headings                                                   *)

LEMMA KeptIsBeginning ==
  ASSUME NEW S, NEW list \in Seq(S), NEW places, NEW m \in 0 .. Len(list),
         \A k \in 1 .. Len(list) : k \in places <=> k <= m
  PROVE  /\ Kept(list, places) \in Seq(S) /\ Len(Kept(list, places)) = m
         /\ \A j \in 1 .. m : Kept(list, places)[j] = list[j]
  <1> DEFINE n == Len(list)
             kept == KeptSoFar(list, places)
             Right(s, k) == Len(s) = k /\ \A j \in 1 .. k : s[j] = list[j]
             G == {k \in 0 .. n : /\ k <= m => Right(kept[k], k)
                                  /\ k > m => Right(kept[k], m)}
  <1>1. n \in Nat /\ m \in Nat /\ m <= n /\ \A k \in 1 .. n : list[k] \in S
    BY LenProperties, ElementOfSeq
  <1>2. /\ kept[0] = <<>> /\ Kept(list, places) = kept[n] /\ Kept(list, places) \in Seq(S)
        /\ \A k \in 0 .. n : kept[k] \in Seq(S)
        /\ \A k \in 1 .. n :
             kept[k] = IF k \in places THEN Append(kept[k - 1], list[k]) ELSE kept[k - 1]
    BY KeptGoes
  <1> HIDE DEF n, kept
  <1>3. 0 \in G
    <2>1. Len(<<>>) = 0 /\ \A j : j \notin 1 .. 0
      OBVIOUS
    <2>2. Right(kept[0], 0)
      BY <1>2, <2>1
    <2> HIDE DEF Right
    <2> QED BY <1>1, <2>2
  <1>4. ASSUME NEW k \in 1 .. n, k - 1 \in G PROVE k \in G
    <2>1. k \in 0 .. n /\ k - 1 \in 0 .. n /\ k \in Nat /\ kept[k - 1] \in Seq(S) /\ list[k] \in S
      BY <1>1, <1>2
    <2>2. CASE k <= m
      <3>1. Right(kept[k - 1], k - 1)
        <4>1. k - 1 <= m
          BY <1>1, <2>1, <2>2
        <4> HIDE DEF Right
        <4> QED BY <1>4, <4>1
      <3>2. kept[k] = Append(kept[k - 1], list[k])
        BY <1>2, <2>2 DEF n
      <3>3. /\ Len(kept[k]) = (k - 1) + 1 /\ kept[k][(k - 1) + 1] = list[k]
            /\ \A j \in 1 .. k - 1 : kept[k][j] = kept[k - 1][j]
        BY <2>1, <3>1, <3>2, AppendIs
      <3>4. (k - 1) + 1 = k /\ \A j \in 1 .. k : j \in 1 .. k - 1 \/ j = k
        BY <2>1
      <3>5. Right(kept[k], k)
        BY <3>1, <3>3, <3>4
      <3> HIDE DEF Right
      <3> QED BY <1>1, <2>1, <2>2, <3>5
    <2>3. CASE ~(k <= m)
      <3>1. kept[k] = kept[k - 1]
        BY <1>2, <2>3 DEF n
      <3>2. Right(kept[k - 1], m)
        <4> HIDE DEF Right
        <4>1. k - 1 = m \/ k - 1 > m
          BY <1>1, <2>1, <2>3
        <4>2. m <= m
          BY <1>1
        <4> QED BY <1>4, <4>1, <4>2
      <3> HIDE DEF Right
      <3> QED BY <2>1, <2>3, <3>1, <3>2
    <2> QED BY <2>2, <2>3
  <1>5. n \in G
    <2> HIDE DEF G
    <2>1. \A k \in 0 .. n : k \in G
      BY <1>1, <1>3, <1>4, UpTo
    <2> QED BY <1>1, <2>1
  <1>6. Right(kept[n], m)
    <2> HIDE DEF Right
    <2>1. n = m \/ n > m
      BY <1>1
    <2>2. n <= n
      BY <1>1
    <2> QED BY <1>5, <2>1, <2>2
  <1> QED BY <1>2, <1>6

StackRight(headings, heads, lines) ==
  /\ headings \in Seq(Heads)
  /\ \A j \in 1 .. Len(headings) :
       headings[j].title.marks = 0 /\ headings[j].level = lines[headings[j].title.unit].level
  /\ \A i, j \in 1 .. Len(headings) : i < j =>
       headings[i].title.unit < headings[j].title.unit /\ headings[i].level < headings[j].level
  /\ {headings[j].title.unit : j \in 1 .. Len(headings)} = Around(heads, lines)

LEMMA StackIs ==
  ASSUME NEW headings \in Seq(Heads)
  PROVE  /\ Len(headings) \in Nat
         /\ \A j \in 1 .. Len(headings) :
              /\ headings[j] \in Heads /\ headings[j].level \in Nat
              /\ headings[j].title \in Titles /\ headings[j].title.unit \in Nat
              /\ headings[j].title.marks \in Nat
  <1>1. Len(headings) \in Nat /\ \A j \in 1 .. Len(headings) : headings[j] \in Heads
    BY LenProperties, ElementOfSeq
  <1> QED BY <1>1 DEF Heads, Titles

LEMMA StackPath ==
  ASSUME NEW headings, NEW heads, NEW lines, StackRight(headings, heads, lines)
  PROVE  PathFor(HeadingPath(headings), heads, lines)
  <1> DEFINE n == Len(headings)
             path == HeadingPath(headings)
             unit(j) == headings[j].title.unit
  <1>1. headings \in Seq(Heads)
    BY DEF StackRight
  <1>2. /\ n \in Nat /\ path \in Paths /\ Len(path) = n /\ DOMAIN path = 1 .. n
        /\ \A j \in 1 .. n : path[j] = headings[j].title /\ headings[j].title \in Titles
    <2>1. path \in Paths /\ Len(path) = n /\ \A j \in 1 .. n : path[j] = headings[j].title
      BY <1>1, HeadingPathIs
    <2>2. DOMAIN path = 1 .. Len(path)
      <3> HIDE DEF path
      <3> QED BY <2>1, LenProperties DEF Paths
    <2> QED BY <1>1, <2>1, <2>2, StackIs
  <1> HIDE DEF path
  <1>3. \A j \in 1 .. n : path[j] = TitleOf(unit(j)) /\ path[j].unit = unit(j)
    BY <1>2 DEF StackRight, Titles, TitleOf
  <1>4. {unit(j) : j \in 1 .. n} = Around(heads, lines)
    BY DEF StackRight
  <1>5. \A i, j \in 1 .. n : i < j => unit(i) < unit(j)
    BY DEF StackRight
  <1> HIDE DEF unit, n
  <1>6. ToSet(path) = {TitleOf(unit(j)) : j \in 1 .. n}
    BY <1>2, <1>3 DEF ToSet
  <1>7. ToSet(path) = {TitleOf(h) : h \in Around(heads, lines)}
    BY <1>4, <1>6
  <1> QED BY <1>2, <1>3, <1>5, <1>7 DEF PathFor, path

(* A heading is put under the ones of a higher level.                      *)
LEMMA StackGrows ==
  ASSUME NEW headings, NEW heads, NEW lines, StackRight(headings, heads, lines),
         NEW k \in Nat \ {0}, heads \subseteq 1 .. k - 1, lines[k].level \in Nat
  PROVE  LET h == [level |-> lines[k].level, title |-> TitleOf(k)]
             under == Stacked(headings, h)
         IN  /\ StackRight(under, heads \cup {k}, lines)
             /\ Grown(HeadingPath(under), HeadingPath(headings), k)
  <1> DEFINE h == [level |-> lines[k].level, title |-> TitleOf(k)]
             n == Len(headings)
             level(j) == headings[j].level
             unit(j) == headings[j].title.unit
             places == {j \in DOMAIN headings : headings[j].level < h.level}
             kept == Kept(headings, places)
             under == Stacked(headings, h)
  <1>1. headings \in Seq(Heads)
    BY DEF StackRight
  <1>2. /\ n \in Nat /\ DOMAIN headings = 1 .. n
        /\ \A j \in 1 .. n : level(j) \in Nat /\ unit(j) \in Nat
    BY <1>1, StackIs, LenProperties
  <1>3. /\ \A j \in 1 .. n : headings[j].title.marks = 0 /\ level(j) = lines[unit(j)].level
        /\ \A i, j \in 1 .. n : i < j => unit(i) < unit(j) /\ level(i) < level(j)
        /\ {unit(j) : j \in 1 .. n} = Around(heads, lines)
    BY DEF StackRight
  <1>4. h \in Heads /\ h.level = lines[k].level /\ h.title = TitleOf(k)
        /\ h.title.unit = k /\ h.title.marks = 0
    BY DEF Heads, Titles, TitleOf
  <1>5. under = Append(kept, h)
    BY DEF Stacked
  <1>6. \A j \in 1 .. n : j \in places <=> level(j) < lines[k].level
    BY <1>2, <1>4
  <1> HIDE DEF n, places, h, level, unit
  <1>7. PICK m \in 0 .. n : \A j \in 1 .. n : j \in places <=> j <= m
    <2> DEFINE low == {j \in 0 .. n : j = 0 \/ j \in places}
    <2>1. low \subseteq 0 .. n /\ 0 \in low
      BY <1>2
    <2> HIDE DEF low
    <2>2. Max(low) \in low /\ \A j \in low : j <= Max(low)
      BY <1>2, <2>1, MaxIsMost
    <2> DEFINE top == Max(low)
    <2> HIDE DEF top
    <2>3. top \in 0 .. n /\ (top = 0 \/ top \in places) /\ \A j \in low : j <= top
      BY <2>2 DEF low, top
    <2>4. ASSUME NEW j \in 1 .. n PROVE j \in places <=> j <= top
      <3>1. j \in places => j <= top
        <4>1. j \in 0 .. n
          BY <1>2
        <4> QED BY <2>3, <4>1 DEF low
      <3>2. ASSUME j <= top PROVE j \in places
        <4>1. top \in 1 .. n /\ top \in places /\ (j = top \/ j < top)
          BY <1>2, <2>3, <3>2
        <4>2. CASE j < top
          <5>1. level(j) < level(top) /\ level(top) < lines[k].level
            BY <1>3, <1>6, <4>1, <4>2
          <5>2. level(j) \in Nat /\ level(top) \in Nat
            BY <1>2, <4>1
          <5>3. level(j) < lines[k].level
            BY <5>1, <5>2
          <5> QED BY <1>6, <5>3
        <4> QED BY <4>1, <4>2
      <3> QED BY <3>1, <3>2
    <2> QED BY <2>3, <2>4
  <1>8. kept \in Seq(Heads) /\ Len(kept) = m /\ \A j \in 1 .. m : kept[j] = headings[j]
    BY <1>1, <1>7, KeptIsBeginning DEF n
  <1> HIDE DEF kept, under
  <1>9. /\ under \in Seq(Heads) /\ Len(under) = m + 1 /\ under[m + 1] = h
        /\ \A j \in 1 .. m : under[j] = headings[j]
    BY <1>4, <1>5, <1>8, AppendIs
  <1>10. m \in Nat /\ m <= n /\ \A j \in 1 .. m + 1 : (j \in 1 .. m /\ j \in 1 .. n) \/ j = m + 1
    BY <1>2
  <1>11. ASSUME NEW j \in 1 .. m + 1
         PROVE  under[j].title.marks = 0 /\ under[j].level = lines[under[j].title.unit].level
    BY <1>3, <1>4, <1>9, <1>10 DEF level, unit
  <1>12. ASSUME NEW j \in 1 .. m
         PROVE  /\ under[j].title.unit = unit(j) /\ under[j].level = level(j)
                /\ unit(j) < k /\ level(j) < lines[k].level
    <2>1. j \in 1 .. n /\ j <= m
      BY <1>10
    <2>2. unit(j) \in 1 .. k - 1
      BY <1>3, <2>1 DEF Around
    <2> QED BY <1>6, <1>7, <1>9, <2>1, <2>2 DEF unit, level
  <1>13. ASSUME NEW i \in 1 .. m + 1, NEW j \in 1 .. m + 1, i < j
         PROVE  under[i].title.unit < under[j].title.unit /\ under[i].level < under[j].level
    <2>1. i \in 1 .. m /\ i \in 1 .. n
      BY <1>10, <1>13
    <2>2. CASE j = m + 1
      BY <1>4, <1>9, <1>12, <2>1, <2>2
    <2>3. CASE j # m + 1
      <3>1. j \in 1 .. m /\ j \in 1 .. n
        BY <1>10, <2>3
      <3> QED BY <1>3, <1>12, <1>13, <2>1, <3>1
    <2> QED BY <2>2, <2>3
  <1>14. {under[j].title.unit : j \in 1 .. m + 1} = Around(heads \cup {k}, lines)
    <2>1. \A g : g \in Around(heads \cup {k}, lines) <=>
            g = k \/ (g \in Around(heads, lines) /\ lines[k].level > lines[g].level)
      <3>1. \A g \in heads : g < k /\ k > g /\ ~(g > k)
        OBVIOUS
      <3>2. ~(k > k)
        OBVIOUS
      <3> QED BY <3>1, <3>2 DEF Around
    <2>2. ASSUME NEW g \in Around(heads \cup {k}, lines)
          PROVE  \E j \in 1 .. m + 1 : under[j].title.unit = g
      <3>1. CASE g = k
        <4>1. m + 1 \in 1 .. m + 1
          BY <1>10
        <4> QED BY <1>4, <1>9, <3>1, <4>1
      <3>2. CASE g \in Around(heads, lines) /\ lines[k].level > lines[g].level
        <4>1. PICK j \in 1 .. n : unit(j) = g
          BY <1>3, <3>2
        <4>2. level(j) < lines[k].level
          BY <1>2, <1>3, <3>2, <4>1
        <4>3. j \in 1 .. m /\ j \in 1 .. m + 1
          BY <1>6, <1>7, <1>10, <4>2
        <4> QED BY <1>12, <4>1, <4>3
      <3> QED BY <2>1, <2>2, <3>1, <3>2
    <2>3. ASSUME NEW j \in 1 .. m + 1 PROVE under[j].title.unit \in Around(heads \cup {k}, lines)
      <3>1. CASE j = m + 1
        BY <1>4, <1>9, <2>1, <3>1
      <3>2. CASE j # m + 1
        <4>1. j \in 1 .. m /\ j \in 1 .. n
          BY <1>10, <3>2
        <4>2. under[j].title.unit = unit(j) /\ level(j) < lines[k].level
          BY <1>12, <4>1
        <4>3. unit(j) \in Around(heads, lines) /\ level(j) = lines[unit(j)].level
          BY <1>3, <4>1
        <4>4. lines[k].level > lines[unit(j)].level
          BY <1>2, <4>1, <4>2, <4>3
        <4> QED BY <2>1, <4>2, <4>3, <4>4
      <3> QED BY <3>1, <3>2
    <2> QED BY <2>2, <2>3
  <1>15. StackRight(under, heads \cup {k}, lines)
    BY <1>9, <1>11, <1>13, <1>14 DEF StackRight
  <1>16. Grown(HeadingPath(under), HeadingPath(headings), k)
    <2>1. /\ Len(HeadingPath(under)) = m + 1
          /\ \A j \in 1 .. m + 1 : HeadingPath(under)[j] = under[j].title
      BY <1>9, HeadingPathIs
    <2>2. /\ Len(HeadingPath(headings)) = n
          /\ \A j \in 1 .. n : HeadingPath(headings)[j] = headings[j].title
      BY <1>1, HeadingPathIs DEF n
    <2>3. m + 1 \in 1 .. m + 1 /\ \A j \in 1 .. m : j \in 1 .. m + 1 /\ j \in 1 .. n
      BY <1>2, <1>10
    <2>4. HeadingPath(under)[m + 1] = TitleOf(k)
      BY <1>4, <1>9, <2>1, <2>3
    <2>5. \A j \in 1 .. m : HeadingPath(under)[j] = HeadingPath(headings)[j]
      BY <1>9, <2>1, <2>2, <2>3
    <2> QED BY <2>1, <2>2, <2>4, <2>5 DEF Grown
  <1> QED BY <1>15, <1>16 DEF under, h

-----------------------------------------------------------------------------
(* Line by line: the headings                                              *)

SegmentsHeaded(segments, headings, k, lines) ==
  /\ segments \in Seq(Segs)
  /\ StackRight(headings, HeadLines(segments, Len(segments)), lines)
  /\ HeadLines(segments, Len(segments)) \subseteq 1 .. k
  /\ HeadingPath(headings) = Trail(segments, Len(segments))
  /\ Headed(segments, lines)

LineHeaded(s, k, lines) ==
  /\ SegmentsHeaded(s.segments, s.headings, k, lines)
  /\ \A x \in Pending(s.lines) : x[1] \in s.first .. k

Unmarked(lines) == \A i \in 1 .. Len(lines) : lines[i].kind = "heading" => lines[i].marks = 0

LEMMA PendingIs ==
  ASSUME NEW list \in Seq(Text), NEW t \in Text
  PROVE  Pending(Append(list, t)) = Pending(list) \cup Seen(t) /\ Pending(<<>>) = {}
  <1> DEFINE new == Append(list, t)
             n == Len(list)
  <1>1. /\ new \in Seq(Text) /\ Len(new) = n + 1 /\ new[n + 1] = t /\ n \in Nat
        /\ \A k \in 1 .. n : new[k] = list[k]
    BY AppendIs
  <1> HIDE DEF new
  <1>2. DOMAIN list = 1 .. n /\ DOMAIN new = 1 .. n + 1
    BY <1>1, LenProperties
  <1>3. \A k : k \in 1 .. n + 1 <=> k \in 1 .. n \/ k = n + 1
    BY <1>1
  <1> HIDE DEF n
  <1>4. Pending(new) = Pending(list) \cup Seen(t)
    BY <1>1, <1>2, <1>3 DEF Pending
  <1>5. Pending(<<>>) = {}
    BY DEF Pending
  <1> QED BY <1>4, <1>5 DEF new

LEMMA BodyHeaded ==
  ASSUME NEW segments, NEW headings, NEW k, NEW lines, SegmentsHeaded(segments, headings, k, lines),
         NEW e \in Segs, e.kind # "heading", Told(e)
  PROVE  SegmentsHeaded(Append(segments, e), headings, k, lines)
  <1> DEFINE more == Append(segments, e)
  <1>1. segments \in Seq(Segs) /\ Headed(segments, lines)
    BY DEF SegmentsHeaded
  <1>2. more \in Seq(Segs)
    BY <1>1, AppendIs
  <1>3. /\ Headed(more, lines)
        /\ Trail(more, Len(more)) = Trail(segments, Len(segments))
        /\ HeadLines(more, Len(more)) = HeadLines(segments, Len(segments))
    BY <1>1, HeadedAppend
  <1> HIDE DEF more
  <1> QED BY <1>2, <1>3 DEF SegmentsHeaded, more

LEMMA CloseHeaded ==
  ASSUME NEW s \in LineState, NEW k \in Nat, NEW lines, LineHeaded(s, k, lines),
         NEW kind \in Bodies, NEW last \in Nat, k <= last
  PROVE  SegmentsHeaded(Close(s, kind, last).segments, s.headings, k, lines)
  <1> DEFINE e == Segment(kind, Join(s.lines), s.first, last, HeadingPath(s.headings))
             t == Close(s, kind, last)
  <1>1. s.lines \in Seq(Text) /\ s.first \in Nat
    BY DEF LineState
  <1>2. e \in Segs /\ t.segments = Append(s.segments, e)
    BY CloseIs
  <1>3. e.text = Join(s.lines) /\ e.first = s.first /\ e.last = last /\ e.kind = kind
    BY DEF Segment
  <1>4. Seen(Join(s.lines)) = Pending(s.lines)
    <2>1. DOMAIN s.lines = 1 .. Len(s.lines)
      BY <1>1, LenProperties
    <2> QED BY <1>1, <2>1, JoinIs DEF Pending
  <1> HIDE DEF e, t
  <1>5. Told(e)
    <2> SUFFICES ASSUME NEW x \in Seen(e.text) PROVE x[1] \in e.first .. e.last
      BY DEF Told
    <2>1. x[1] \in s.first .. k
      BY <1>3, <1>4 DEF LineHeaded
    <2> QED BY <1>1, <1>3, <2>1
  <1>6. e.kind # "heading"
    BY <1>3 DEF Bodies
  <1> QED BY <1>2, <1>5, <1>6, BodyHeaded DEF LineHeaded, t

LEMMA FlushHeaded ==
  ASSUME NEW s \in LineState, NEW k \in Nat, NEW lines, LineHeaded(s, k, lines)
  PROVE  SegmentsHeaded(FlushParagraph(s, k).segments, s.headings, k, lines)
  <1>1. CASE s.lines = <<>>
    BY <1>1, FlushIs DEF LineHeaded
  <1>2. CASE s.lines # <<>>
    <2>1. FlushParagraph(s, k) = Close(s, "paragraph", k) /\ "paragraph" \in Bodies /\ k <= k
      BY <1>2, FlushIs DEF Bodies
    <2> QED BY <2>1, CloseHeaded
  <1> QED BY <1>1, <1>2

LEMMA HeadedLater ==
  ASSUME NEW segments, NEW headings, NEW k \in Nat \ {0}, NEW lines,
         SegmentsHeaded(segments, headings, k - 1, lines)
  PROVE  SegmentsHeaded(segments, headings, k, lines)
  <1>1. 1 .. k - 1 \subseteq 1 .. k
    OBVIOUS
  <1> QED BY <1>1 DEF SegmentsHeaded

LEMMA AddHeadingHeaded ==
  ASSUME NEW lines \in Seq(Lines), Unmarked(lines), NEW k \in 1 .. Len(lines),
         lines[k].kind = "heading", NEW s \in LineState, LineHeaded(s, k - 1, lines)
  PROVE  LET t == AddHeading(s, k, lines[k])
         IN  SegmentsHeaded(t.segments, t.headings, k, lines)
  <1> DEFINE line == lines[k]
             f == FlushParagraph(s, k - 1)
             title == [unit |-> k, marks |-> line.marks]
             h == [level |-> line.level, title |-> title]
             under == Stacked(s.headings, h)
             e == Segment("heading", Word(k, 1), k, k, HeadingPath(under))
             t == AddHeading(s, k, line)
             heads == HeadLines(f.segments, Len(f.segments))
  <1>1. /\ k \in Nat \ {0} /\ k - 1 \in Nat /\ line \in Lines /\ line.marks = 0
        /\ line.level \in Nat
    <2>1. k \in Nat \ {0} /\ k - 1 \in Nat /\ line \in Lines /\ line.marks = 0
      BY LenProperties, ElementOfSeq DEF Unmarked
    <2> QED BY <2>1, LineIs
  <1>2. e \in Segs /\ t.segments = Append(f.segments, e) /\ t.headings = under
    BY <1>1, AddHeadingIs
  <1>3. /\ e.kind = "heading" /\ e.text = Word(k, 1) /\ e.first = k /\ e.last = k
        /\ e.path = HeadingPath(under)
    BY DEF Segment
  <1>4. h = [level |-> lines[k].level, title |-> TitleOf(k)]
    BY <1>1 DEF TitleOf
  <1>5. SegmentsHeaded(f.segments, s.headings, k - 1, lines)
    BY <1>1, FlushHeaded
  <1> HIDE DEF f, e, t, h
  <1>6. /\ StackRight(s.headings, heads, lines) /\ heads \subseteq 1 .. k - 1
        /\ HeadingPath(s.headings) = Trail(f.segments, Len(f.segments))
        /\ f.segments \in Seq(Segs) /\ Headed(f.segments, lines)
    BY <1>5 DEF SegmentsHeaded
  <1> HIDE DEF heads
  <1>7. /\ StackRight(under, heads \cup {k}, lines)
        /\ Grown(HeadingPath(under), HeadingPath(s.headings), k)
    <2>1. lines[k].level \in Nat
      BY <1>1
    <2> QED BY <1>1, <1>4, <1>6, <2>1, StackGrows
  <1> HIDE DEF under
  <1>8. PathFor(HeadingPath(under), heads \cup {k}, lines)
    BY <1>7, StackPath
  <1>9. Told(e) /\ Head(e.text)[1] = k
    <2>1. /\ \A c \in Seen(Word(k, 1)) : c[1] = k
          /\ Word(k, 1) \in Text /\ Len(Word(k, 1)) = 1 /\ Word(k, 1)[1][1] = k
      BY <1>1, OneLetter
    <2>2. Head(Word(k, 1)) = Word(k, 1)[1]
      <3>1. Word(k, 1) # <<>>
        BY <2>1, EmptySeq
      <3> QED BY <2>1, <3>1, HeadTailProperties DEF Text
    <2>3. k \in k .. k
      BY <1>1
    <2> QED BY <1>3, <2>1, <2>2, <2>3 DEF Told
  <1>10. /\ e.first = e.last /\ Head(e.text)[1] = e.first
         /\ PathFor(e.path, HeadLines(f.segments, Len(f.segments)) \cup {e.first}, lines)
         /\ Grown(e.path, Trail(f.segments, Len(f.segments)), e.first)
    BY <1>3, <1>6, <1>7, <1>8, <1>9 DEF heads
  <1>11. /\ Headed(t.segments, lines)
         /\ Trail(t.segments, Len(t.segments)) = e.path
         /\ HeadLines(t.segments, Len(t.segments)) = heads \cup {k}
    <2> DEFINE segments == f.segments
    <2>1. segments \in Seq(Segs) /\ Headed(segments, lines)
      BY <1>6
    <2>2. /\ e.first = e.last /\ Head(e.text)[1] = e.first
          /\ PathFor(e.path, HeadLines(segments, Len(segments)) \cup {e.first}, lines)
          /\ Grown(e.path, Trail(segments, Len(segments)), e.first)
      BY <1>10
    <2> HIDE DEF segments
    <2>3. LET more == Append(segments, e)
          IN  /\ Headed(more, lines)
              /\ Trail(more, Len(more)) = e.path
              /\ HeadLines(more, Len(more)) = HeadLines(segments, Len(segments)) \cup {e.first}
      BY <1>2, <1>3, <1>9, <2>1, <2>2, HeadedAppend
    <2> QED BY <1>2, <1>3, <2>3 DEF heads, segments
  <1>12. t.segments \in Seq(Segs)
    BY <1>2, <1>6, AppendIs
  <1>13. heads \cup {k} \subseteq 1 .. k
    BY <1>1, <1>6
  <1>14. SegmentsHeaded(t.segments, under, k, lines)
    BY <1>3, <1>7, <1>11, <1>12, <1>13 DEF SegmentsHeaded
  <1> QED BY <1>2, <1>14 DEF t

LEMMA ReadLineHeaded ==
  ASSUME NEW lines \in Seq(Lines), Unmarked(lines), NEW k \in 1 .. Len(lines),
         NEW s, LineHeld(s, k - 1, lines), LineHeaded(s, k - 1, lines)
  PROVE  LineHeaded(ReadLine(s, k, lines[k]), k, lines)
  <1> DEFINE line == lines[k]
             t == ReadLine(s, k, line)
             f == FlushParagraph(s, k - 1)
  <1>1. /\ k \in Nat \ {0} /\ k - 1 \in Nat /\ k - 1 <= k /\ k \in Nat /\ line \in Lines
        /\ s \in LineState /\ "code" \in Bodies
        /\ LineText(k, line) \in Text /\ \A c \in Seen(LineText(k, line)) : c[1] = k
    BY LenProperties, ElementOfSeq, LineTextIs DEF LineHeld, Bodies
  <1>2. s.lines \in Seq(Text) /\ s.first \in Nat /\ s.headings \in Seq(Heads) /\ s.segments \in Seq(Segs)
    BY <1>1 DEF LineState
  <1>3. /\ SegmentsHeaded(s.segments, s.headings, k - 1, lines)
        /\ \A x \in Pending(s.lines) : x[1] \in s.first .. k - 1
    BY DEF LineHeaded
  <1>4. SegmentsHeaded(f.segments, s.headings, k, lines)
    BY <1>1, FlushHeaded, HeadedLater
  <1>5. Pending(<<>>) = {}
    BY DEF Pending
  <1> SUFFICES LineHeaded(t, k, lines)
    OBVIOUS
  <1> HIDE DEF t
  <1>6. CASE s.fence # "none" /\ line.kind = "fence" /\ t = Close(s, "code", k)
    <2>1. t.lines = <<>> /\ t.headings = s.headings
      BY <1>1, <1>6, CloseIs
    <2>2. SegmentsHeaded(t.segments, s.headings, k - 1, lines)
      BY <1>1, <1>6, CloseHeaded
    <2>3. SegmentsHeaded(t.segments, s.headings, k, lines)
      BY <1>1, <2>2, HeadedLater
    <2> QED BY <1>5, <2>1, <2>3 DEF LineHeaded
  <1>7. CASE s.fence # "none" /\ t = [s EXCEPT !.lines = Append(@, LineText(k, line))]
    <2>1. /\ t.segments = s.segments /\ t.headings = s.headings /\ t.first = s.first
          /\ t.lines = Append(s.lines, LineText(k, line))
      <3> HIDE DEF line
      <3> QED BY <1>1, <1>7, InFenceIs
    <2>2. s.first \in 1 .. k - 1
      BY <1>7 DEF LineHeld, Opened
    <2>3. Pending(t.lines) = Pending(s.lines) \cup Seen(LineText(k, line))
      BY <1>1, <1>2, <2>1, PendingIs
    <2>4. ASSUME NEW x \in Pending(t.lines) PROVE x[1] \in t.first .. k
      <3>1. CASE x \in Pending(s.lines)
        <4>1. x[1] \in s.first .. k - 1
          BY <1>3, <3>1
        <4> QED BY <1>1, <1>2, <2>1, <4>1
      <3>2. CASE x \in Seen(LineText(k, line))
        <4>1. x[1] = k
          BY <1>1, <3>2
        <4> QED BY <1>1, <2>1, <2>2, <4>1
      <3> QED BY <2>3, <3>1, <3>2
    <2>5. SegmentsHeaded(t.segments, t.headings, k, lines)
      BY <1>1, <1>3, <2>1, HeadedLater
    <2> QED BY <2>4, <2>5 DEF LineHeaded
  <1>8. CASE s.fence = "none" /\ line.kind = "heading" /\ t = AddHeading(s, k, line)
    <2>1. SegmentsHeaded(t.segments, t.headings, k, lines)
      BY <1>1, <1>8, AddHeadingHeaded
    <2>2. t.lines = <<>>
      <3>1. t.lines = f.lines
        BY <1>1, <1>8, AddHeadingIs
      <3> QED BY <1>1, <3>1, FlushIs
    <2> QED BY <1>5, <2>1, <2>2 DEF LineHeaded
  <1>9. CASE s.fence = "none" /\ line.kind = "fence" /\ t = OpenFence(s, k, line)
    <2>1. t.segments = f.segments /\ t.headings = s.headings /\ t.lines = <<>>
      BY <1>1, <1>9, OpenFenceIs
    <2> QED BY <1>4, <1>5, <2>1 DEF LineHeaded
  <1>10. CASE s.fence = "none" /\ line.kind = "blank" /\ t = FlushParagraph(s, k - 1)
    <2>1. t.lines = <<>> /\ t.headings = s.headings
      BY <1>1, <1>10, FlushIs
    <2> QED BY <1>4, <1>5, <1>10, <2>1 DEF LineHeaded
  <1>11. CASE s.fence = "none" /\ line.kind = "text" /\ t = AddLine(s, k, line)
    <2>1. /\ t.segments = s.segments /\ t.headings = s.headings
          /\ t.lines = Append(s.lines, LineText(k, line))
          /\ t.first = IF s.lines = <<>> THEN k ELSE s.first
      <3> HIDE DEF line
      <3> QED BY <1>1, <1>11, AddLineIs
    <2>2. Pending(t.lines) = Pending(s.lines) \cup Seen(LineText(k, line))
      BY <1>1, <1>2, <2>1, PendingIs
    <2>3. ASSUME NEW x \in Pending(t.lines) PROVE x[1] \in t.first .. k
      <3>1. CASE s.lines = <<>>
        <4>1. x[1] = k /\ t.first = k
          BY <1>1, <1>5, <2>1, <2>2, <3>1
        <4> QED BY <1>1, <4>1
      <3>2. CASE s.lines # <<>>
        <4>1. s.first \in 1 .. k - 1 /\ t.first = s.first
          BY <2>1, <3>2 DEF LineHeld, Opened
        <4>2. CASE x \in Pending(s.lines)
          <5>1. x[1] \in s.first .. k - 1
            BY <1>3, <4>2
          <5> QED BY <1>1, <4>1, <5>1
        <4>3. CASE x \in Seen(LineText(k, line))
          <5>1. x[1] = k
            BY <1>1, <4>3
          <5> QED BY <1>1, <4>1, <5>1
        <4> QED BY <2>2, <4>2, <4>3
      <3> QED BY <3>1, <3>2
    <2>4. SegmentsHeaded(t.segments, t.headings, k, lines)
      BY <1>1, <1>3, <2>1, HeadedLater
    <2> QED BY <2>3, <2>4 DEF LineHeaded
  <1>12. \/ s.fence # "none" /\ line.kind = "fence" /\ t = Close(s, "code", k)
         \/ s.fence # "none" /\ t = [s EXCEPT !.lines = Append(@, LineText(k, line))]
         \/ s.fence = "none" /\ line.kind = "heading" /\ t = AddHeading(s, k, line)
         \/ s.fence = "none" /\ line.kind = "fence" /\ t = OpenFence(s, k, line)
         \/ s.fence = "none" /\ line.kind = "blank" /\ t = FlushParagraph(s, k - 1)
         \/ s.fence = "none" /\ line.kind = "text" /\ t = AddLine(s, k, line)
    <2> HIDE DEF line
    <2> QED BY <1>1, ReadLineIs DEF t
  <1> QED BY <1>6, <1>7, <1>8, <1>9, <1>10, <1>11, <1>12

LEMMA LineSegmentsHeaded ==
  ASSUME NEW lines \in Seq(Lines), Unmarked(lines)
  PROVE  Headed(LineSegments(lines), lines)
  <1> DEFINE n == Len(lines)
             read == LinesRead(lines)
             G == {k \in 0 .. n : LineHeld(read[k], k, lines) /\ LineHeaded(read[k], k, lines)}
             end == read[n]
  <1>1. n \in Nat
    BY LenProperties
  <1>2. 0 \in G
    <2>1. read[0] = LineStart /\ LineStart \in LineState
      BY LinesGo, EmptySeq DEF LineStart, LineState
    <2>2. /\ LineStart.segments = <<>> /\ LineStart.headings = <<>> /\ LineStart.lines = <<>>
          /\ ~Opened(LineStart) /\ Parted(<<>>, 0) /\ Len(<<>>) = 0 /\ Pending(<<>>) = {}
      BY EmptySeq DEF Parted, Opened, LineStart, Pending
    <2>3. 0 \in 0 .. n /\ (\A i : i \notin 1 .. 0)
      BY <1>1
    <2>4. LineHeld(LineStart, 0, lines)
      BY <2>1, <2>2, <2>3 DEF LineHeld
    <2>5. HeadLines(<<>>, 0) = {} /\ Trail(<<>>, 0) = <<>> /\ Around({}, lines) = {}
      BY <2>3 DEF HeadLines, HeadsOf, Trail, Around
    <2>6. HeadingPath(<<>>) = <<>>
      <3>1. <<>> \in Seq(Heads) /\ <<>> \in Paths
        BY EmptySeq DEF Paths
      <3>2. HeadingPath(<<>>) \in Paths /\ Len(HeadingPath(<<>>)) = 0
        BY <2>2, <3>1, HeadingPathIs
      <3> QED BY <3>2, EmptySeq DEF Paths
    <2>7. StackRight(<<>>, {}, lines)
      <3>1. <<>> \in Seq(Heads)
        BY EmptySeq
      <3> QED BY <2>2, <2>3, <2>5, <3>1 DEF StackRight
    <2>8. <<>> \in Seq(Segs) /\ Headed(<<>>, lines)
      BY <2>2, <2>3, EmptySeq DEF Headed
    <2>9. SegmentsHeaded(<<>>, <<>>, 0, lines)
      BY <2>2, <2>5, <2>6, <2>7, <2>8 DEF SegmentsHeaded
    <2>10. LineHeaded(LineStart, 0, lines)
      BY <2>2, <2>9 DEF LineHeaded
    <2> QED BY <2>1, <2>3, <2>4, <2>10
  <1>3. ASSUME NEW k \in 1 .. n, k - 1 \in G PROVE k \in G
    <2>1. k \in 0 .. n /\ read[k] = ReadLine(read[k - 1], k, lines[k])
      BY <1>1, LinesGo
    <2>2. LineHeld(read[k - 1], k - 1, lines) /\ LineHeaded(read[k - 1], k - 1, lines)
      BY <1>3
    <2>3. LineHeld(read[k], k, lines)
      BY <2>1, <2>2, ReadLineHolds
    <2>4. LineHeaded(read[k], k, lines)
      BY <2>1, <2>2, ReadLineHeaded
    <2> QED BY <2>1, <2>3, <2>4
  <1>4. \A k \in 0 .. n : k \in G
    <2> HIDE DEF G
    <2> QED BY <1>1, <1>2, <1>3, UpTo
  <1>5. end \in LineState /\ LineHeaded(end, n, lines)
    BY <1>1, <1>4 DEF LineHeld
  <1>6. LineSegments(lines) = IF end.fence = "none" THEN FlushParagraph(end, n).segments
                                                    ELSE Close(end, "code", n).segments
    BY DEF LineSegments, CloseFence
  <1> HIDE DEF n, end
  <1>7. "code" \in Bodies /\ n <= n
    BY <1>1 DEF Bodies
  <1>8. /\ SegmentsHeaded(FlushParagraph(end, n).segments, end.headings, n, lines)
        /\ SegmentsHeaded(Close(end, "code", n).segments, end.headings, n, lines)
    BY <1>1, <1>5, <1>7, FlushHeaded, CloseHeaded
  <1> QED BY <1>6, <1>8 DEF SegmentsHeaded

LEMMA MarkdownHeaded ==
  ASSUME NEW c \in Files("markdown"), "markdown" \in Format, Unmarked(c)
  PROVE  Headed(Extracted("markdown", c).segments, c)
  <1> DEFINE segments == LineSegments(c)
             out == Extracted("markdown", c)
  <1>1. c \in Seq(Lines)
    BY ContentIs, ItemsAre, SeqMonotonic
  <1>2. Headed(segments, c) /\ segments \in Seq(Segs)
    BY <1>1, LineSegmentsAre, LineSegmentsHeaded DEF Settled
  <1>3. out = LimitedLines(segments, LineChars(c))
    BY DEF Extracted
  <1> HIDE DEF segments, out
  <1>4. out.segments \in Seq(Segs) /\ Begins(out.segments, segments)
    BY <1>2, <1>3, LimitedLinesIs
  <1> QED BY <1>2, <1>4, BeginsHeaded DEF out

-----------------------------------------------------------------------------
(* The chunker's trail                                                     *)

(* A path whose titles hold no '>' has as many levels as titles.           *)
LEMMA PlainLevel ==
  ASSUME NEW path \in Paths, \A j \in 1 .. Len(path) : path[j].marks = 0
  PROVE  PathLevel(path) = Greatest(1, Len(path))
  <1> DEFINE n == Len(path)
             marks == [k \in DOMAIN path |-> path[k].marks]
             G == {k \in 0 .. n : Sums(marks)[k] = 0}
  <1>1. n \in Nat /\ DOMAIN path = 1 .. n
    BY LenProperties DEF Paths
  <1>2. marks \in Seq(Nat) /\ Len(marks) = n /\ \A k \in 1 .. n : marks[k] = 0
    <2>1. marks \in [1 .. n -> Nat] /\ DOMAIN marks = 1 .. n /\ \A k \in 1 .. n : marks[k] = 0
      BY <1>1
    <2> HIDE DEF marks
    <2>2. marks \in Seq(Nat)
      BY <1>1, <2>1, SeqDef
    <2> QED BY <1>1, <2>1, <2>2, LenProperties
  <1>3. PathLevel(path) = Greatest(1, n + Total(marks))
    BY DEF PathLevel
  <1> HIDE DEF marks
  <1>4. /\ Sums(marks)[0] = 0
        /\ \A k \in 1 .. n : Sums(marks)[k] = Sums(marks)[k - 1] + marks[k]
    BY <1>2, SumsIs
  <1> HIDE DEF n
  <1>5. 0 \in G
    BY <1>1, <1>4
  <1>6. ASSUME NEW k \in 1 .. n, k - 1 \in G PROVE k \in G
    <2>1. k \in 0 .. n
      BY <1>1
    <2> QED BY <1>2, <1>4, <1>6, <2>1
  <1>7. \A k \in 0 .. n : k \in G
    <2> HIDE DEF G
    <2> QED BY <1>1, <1>5, <1>6, UpTo
  <1>8. Total(marks) = 0
    BY <1>1, <1>2, <1>7 DEF Total
  <1> QED BY <1>1, <1>3, <1>8 DEF n

LEMMA TrailRight ==
  ASSUME NEW segments \in Seq(Segs), NEW lines, Headed(segments, lines), NEW k \in 0 .. Len(segments)
  PROVE  /\ PathFor(Trail(segments, k), HeadLines(segments, k), lines)
         /\ \A j \in 1 .. Len(Trail(segments, k)) : Trail(segments, k)[j].marks = 0
  <1> DEFINE heads == HeadsOf(segments, k)
  <1>0. Len(segments) \in Nat /\ k \in Nat
    BY LenProperties
  <1>1. CASE heads = {}
    <2>1. Trail(segments, k) = <<>> /\ HeadLines(segments, k) = {}
      BY <1>1 DEF Trail, HeadLines
    <2>2. Len(<<>>) = 0 /\ <<>> \in Paths /\ ToSet(<<>>) = {} /\ Around({}, lines) = {}
      BY EmptySeq DEF Paths, ToSet, Around
    <2>3. \A j : j \notin 1 .. 0
      OBVIOUS
    <2> QED BY <2>1, <2>2, <2>3 DEF PathFor
  <1>2. CASE heads # {}
    <2> DEFINE m == Max(heads)
    <2>1. heads \subseteq 0 .. k
      BY DEF HeadsOf
    <2>2. m \in heads /\ \A j \in heads : j <= m
      <3> HIDE DEF heads
      <3> QED BY <1>0, <1>2, <2>1, MaxIsMost
    <2>3. Trail(segments, k) = segments[m].path
      BY <1>2 DEF Trail
    <2> HIDE DEF m
    <2>4. m \in 1 .. k /\ m \in 1 .. Len(segments) /\ segments[m].kind = "heading"
      BY <1>0, <2>2 DEF HeadsOf
    <2>5. HeadsOf(segments, m) = heads
      <3>1. \A j \in heads : j \in 1 .. m
        BY <2>2, <2>4 DEF HeadsOf
      <3>2. \A j \in 1 .. m : j \in 1 .. k
        BY <1>0, <2>4
      <3> QED BY <3>1, <3>2 DEF HeadsOf
    <2>6. HeadLines(segments, m) = HeadLines(segments, k)
      BY <2>5 DEF HeadLines
    <2>7. PathFor(segments[m].path, HeadLines(segments, m), lines)
      BY <2>4 DEF Headed, HeadingRight
    <2>8. \A j \in 1 .. Len(segments[m].path) : segments[m].path[j].marks = 0
      <3> DEFINE path == segments[m].path
      <3>1. path \in Paths /\ \A t \in ToSet(path) : t.marks = 0
        BY <2>7 DEF PathFor, TitleOf
      <3> HIDE DEF path
      <3>2. \A j \in 1 .. Len(path) : path[j] \in ToSet(path)
        BY <3>1, LenProperties DEF ToSet, Paths
      <3> QED BY <3>1, <3>2 DEF path
    <2> QED BY <2>3, <2>6, <2>7, <2>8
  <1> QED BY <1>1, <1>2

(* The chunker's trail after a heading is the heading's path.              *)
LEMMA TrailGoes ==
  ASSUME NEW segments \in Seq(Segs), NEW lines, Headed(segments, lines),
         NEW k \in 1 .. Len(segments), segments[k].kind = "heading",
         NEW trail, trail = Trail(segments, k - 1), trail \in Paths
  PROVE  Append(SubSeq(trail, 1, Least(Len(trail), PathLevel(segments[k].path) - 1)), Title(segments[k]))
           = segments[k].path
  <1> DEFINE e == segments[k]
             path == e.path
             above == SubSeq(trail, 1, Least(Len(trail), PathLevel(path) - 1))
             own == {j \in DOMAIN path : path[j].unit = Head(e.text)[1]}
             new == Append(above, Title(e))
  <1>1. /\ e \in Segs /\ path \in Paths /\ Len(segments) \in Nat /\ k \in Nat \ {0}
        /\ e.first \in Nat
    BY SegmentsAre, LenProperties
  <1>2. HeadingRight(segments, k, lines)
    BY DEF Headed
  <1>3. /\ Head(e.text)[1] = e.first
        /\ \A i, j \in 1 .. Len(path) : i < j => path[i].unit < path[j].unit
    BY <1>2 DEF HeadingRight, PathFor
  <1>4. PICK m \in 0 .. Len(trail) : /\ Len(path) = m + 1 /\ path[m + 1] = TitleOf(e.first)
                                     /\ \A j \in 1 .. m : path[j] = trail[j]
    BY <1>2 DEF HeadingRight, Grown
  <1>5. Len(trail) \in Nat /\ m \in Nat /\ m <= Len(trail) /\ DOMAIN path = 1 .. m + 1
    <2>1. Len(trail) \in Nat
      BY LenProperties DEF Paths
    <2>2. DOMAIN path = 1 .. Len(path)
      <3> HIDE DEF path
      <3> QED BY <1>1, LenProperties DEF Paths
    <2> QED BY <1>4, <2>1, <2>2
  <1>6. \A j \in 1 .. Len(path) : path[j].marks = 0
    <2>1. k \in 0 .. Len(segments)
      BY <1>1
    <2>2. Trail(segments, k) = path
      BY <1>1, TrailIs
    <2> QED BY <2>1, <2>2, TrailRight
  <1>7. Title(e) = IF own = {} THEN [unit |-> Head(e.text)[1], marks |-> 0] ELSE path[Min(own)]
    BY DEF Title
  <1>8. own = {m + 1}
    <2>1. m + 1 \in 1 .. m + 1 /\ path[m + 1].unit = e.first
      BY <1>4, <1>5 DEF TitleOf
    <2>2. ASSUME NEW j \in 1 .. m + 1, j # m + 1 PROVE path[j].unit # e.first
      <3>1. j < m + 1
        BY <1>5, <2>2
      <3>2. path[j].unit < path[m + 1].unit
        BY <1>3, <1>4, <2>1, <3>1
      <3>3. path[j].unit \in Nat
        <4> HIDE DEF path
        <4>1. path[j] \in Titles
          BY <1>1, <1>4, ElementOfSeq DEF Paths
        <4> QED BY <4>1 DEF Titles
      <3> QED BY <1>1, <2>1, <3>2, <3>3
    <2> QED BY <1>3, <1>5, <2>1, <2>2
  <1> HIDE DEF own, path
  <1>9. Title(e) = TitleOf(e.first)
    <2>1. own \subseteq Nat /\ own # {}
      BY <1>5, <1>8
    <2>2. Min(own) \in own
      BY <2>1, MinIsLeast
    <2>3. Min(own) = m + 1
      BY <1>8, <2>2
    <2> QED BY <1>4, <1>7, <2>1, <2>3
  <1>10. PathLevel(path) - 1 = m
    <2>1. PathLevel(path) = Greatest(1, m + 1)
      BY <1>1, <1>4, <1>6, PlainLevel DEF path
    <2> QED BY <1>5, <2>1 DEF Greatest
  <1>11. /\ above \in Seq(Titles) /\ Len(above) = m
         /\ \A j \in 1 .. m : above[j] = trail[j]
    <2>1. above = SubSeq(trail, 1, Least(Len(trail), m))
      BY <1>10
    <2>2. Least(Len(trail), m) = m
      BY <1>5 DEF Least
    <2> DEFINE b == SubSeq(trail, 1, Least(Len(trail), m))
    <2>3. trail \in Seq(Titles)
      BY DEF Paths
    <2>4. b \in Seq(Titles) /\ Begins(b, trail) /\ Len(b) = Least(Len(trail), m)
      BY <1>5, <2>3, FirstIs
    <2> HIDE DEF above, b
    <2>5. Len(b) = m /\ \A j \in 1 .. Len(b) : b[j] = trail[j]
      BY <2>2, <2>4 DEF Begins
    <2> QED BY <2>1, <2>4, <2>5 DEF b
  <1> HIDE DEF above
  <1>12. TitleOf(e.first) \in Titles
    BY <1>1 DEF TitleOf, Titles
  <1>13. /\ new \in Seq(Titles) /\ Len(new) = m + 1 /\ new[m + 1] = TitleOf(e.first)
         /\ \A j \in 1 .. m : new[j] = trail[j]
    BY <1>9, <1>11, <1>12, AppendIs
  <1> HIDE DEF new
  <1>14. new = path
    <2>1. path \in Seq(Titles)
      BY <1>1 DEF Paths, path
    <2>2. \A j \in 1 .. m + 1 : new[j] = path[j]
      <3>1. \A j \in 1 .. m + 1 : j \in 1 .. m \/ j = m + 1
        BY <1>5
      <3> QED BY <1>4, <1>13, <3>1 DEF path
    <2> QED BY <1>4, <1>13, <2>1, <2>2, SeqEqual DEF path
  <1> QED BY <1>14 DEF new, above, path

(* The path of a section is the one its members stand under.               *)
Trailed(s, k, segments) ==
  /\ s.trail = Trail(segments, k)
  /\ \A m \in 1 .. Len(s.sections) : \A j \in 1 .. Len(s.sections[m].members) :
       s.sections[m].path = Trail(segments, s.sections[m].members[j])

LEMMA NextSectionTrailed ==
  ASSUME NEW segments \in Seq(Segs), NEW lines, Headed(segments, lines),
         NEW k \in 1 .. Len(segments), NEW s, Sectioned(s, k - 1), Trailed(s, k - 1, segments)
  PROVE  Trailed(NextSection(s, k, segments[k]), k, segments)
  <1> DEFINE segment == segments[k]
             t == NextSection(s, k, segment)
             n == Len(s.sections)
  <1>1. /\ s \in SectionState /\ s.sections \in Seq(Section) /\ n \in Nat /\ s.trail \in Paths
        /\ segment \in Segs /\ k \in Nat \ {0} /\ k - 1 \in Nat
        /\ \A m \in 1 .. n : s.sections[m] \in Section
    <2>1. s \in SectionState /\ s.sections \in Seq(Section) /\ s.trail \in Paths
      BY DEF Sectioned, SectionState
    <2> QED BY <2>1, SegmentsAre, LenProperties, ElementOfSeq
  <1>2. /\ s.trail = Trail(segments, k - 1)
        /\ \A m \in 1 .. n : \A j \in 1 .. Len(s.sections[m].members) :
             s.sections[m].path = Trail(segments, s.sections[m].members[j])
    BY DEF Trailed
  <1>3. Len(<<k>>) = 1 /\ <<k>>[1] = k /\ \A j \in 1 .. 1 : j = 1
    OBVIOUS
  (* A new section of one member, after the ones there are.                *)
  <1>4. ASSUME NEW new \in Section, new.members = <<k>>, new.path = Trail(segments, k), NEW u,
               u.sections = Append(s.sections, new), u.trail = Trail(segments, k)
        PROVE  Trailed(u, k, segments)
    <2>1. /\ Len(u.sections) = n + 1 /\ u.sections[n + 1] = new
          /\ \A m \in 1 .. n : u.sections[m] = s.sections[m]
      BY <1>1, <1>4, AppendIs
    <2>2. ASSUME NEW m \in 1 .. n + 1, NEW j \in 1 .. Len(u.sections[m].members)
          PROVE  u.sections[m].path = Trail(segments, u.sections[m].members[j])
      <3>1. CASE m = n + 1
        BY <1>3, <1>4, <2>1, <3>1
      <3>2. CASE m # n + 1
        <4>1. m \in 1 .. n
          BY <1>1, <3>2
        <4> QED BY <1>2, <2>1, <4>1
      <3> QED BY <3>1, <3>2
    <2> QED BY <1>4, <2>1, <2>2 DEF Trailed
  <1> SUFFICES Trailed(t, k, segments)
    OBVIOUS
  <1> HIDE DEF n
  <1>5. CASE segment.kind = "heading"
    <2>1. t = OpenSection(s, k, segment)
      BY <1>5 DEF NextSection
    <2>2. /\ [path |-> t.trail, members |-> <<k>>] \in Section
          /\ t.sections = Append(s.sections, [path |-> t.trail, members |-> <<k>>])
          /\ t.trail = Append(SubSeq(s.trail, 1, Least(Len(s.trail), PathLevel(segment.path) - 1)),
                              Title(segment))
      <3> HIDE DEF t, segment
      <3>1. s \in SectionState /\ k \in Nat \ {0} /\ segment \in Segs /\ segment.kind = "heading"
        BY <1>1, <1>5
      <3> DEFINE opened == OpenSection(s, k, segment)
      <3>2. /\ [path |-> opened.trail, members |-> <<k>>] \in Section
            /\ opened.sections = Append(s.sections, [path |-> opened.trail, members |-> <<k>>])
            /\ opened.trail = Append(SubSeq(s.trail, 1, Least(Len(s.trail), PathLevel(segment.path) - 1)),
                                     Title(segment))
        BY <3>1, OpenSectionIs
      <3> QED BY <2>1, <3>2
    <2>3. t.trail = segment.path
      <3> HIDE DEF t
      <3> QED BY <1>1, <1>2, <1>5, <2>2, TrailGoes
    <2>4. Trail(segments, k) = segment.path
      BY <1>1, <1>5, TrailIs
    <2> HIDE DEF t, segment
    <2> QED BY <1>4, <2>2, <2>3, <2>4
  <1>6. CASE segment.kind # "heading" /\ s.sections = <<>>
    <2> DEFINE new == [path |-> <<>>, members |-> <<k>>]
    <2>1. t = [s EXCEPT !.sections = <<new>>]
      BY <1>6 DEF NextSection, PutInSection
    <2>2. new \in Section /\ new.members = <<k>> /\ new.path = <<>>
      BY <1>1, OneMember, EmptySeq DEF Section, Paths
    <2> HIDE DEF new, t
    <2>3. <<new>> \in Seq(Section) /\ Append(s.sections, new) = <<new>>
      BY <1>6, <2>2
    <2>4. t.trail = s.trail /\ t.sections = Append(s.sections, new)
      BY <1>1, <2>1, <2>3 DEF SectionState
    <2>5. k - 1 = 0
      <3>1. ~(k - 1 > 0)
        BY <1>6 DEF Sectioned
      <3> QED BY <1>1, <3>1
    <2>6. Trail(segments, k) = Trail(segments, k - 1) /\ Trail(segments, k - 1) = <<>>
      BY <1>1, <1>6, <2>5, TrailIs
    <2> QED BY <1>2, <1>4, <2>2, <2>4, <2>6
  <1>7. CASE segment.kind # "heading" /\ s.sections # <<>>
    <2> DEFINE old == s.sections[n]
               members == old.members
               new == [old EXCEPT !.members = Append(@, k)]
    <2>0. n \in 1 .. n
      BY <1>1, <1>7, EmptySeq DEF n
    <2>1. t = [s EXCEPT !.sections = [s.sections EXCEPT ![n] = new]]
      BY <1>7 DEF NextSection, PutInSection, n
    <2>2. /\ old \in Section /\ Consecutive(members, k - 1) /\ members \in Seq(Nat)
          /\ Len(members) \in Nat /\ Len(members) \in 1 .. Len(members)
      <3>1. old \in Section /\ Consecutive(members, k - 1)
        BY <1>1, <2>0 DEF Sectioned, n
      <3>2. members \in Seq(Nat) /\ Len(members) >= 1
        BY <3>1 DEF Consecutive
      <3>3. Len(members) \in Nat
        BY <3>2, LenProperties
      <3> QED BY <3>1, <3>2, <3>3
    <2>3. old.path = Trail(segments, k)
      <3>1. k - 1 > 0
        <4>1. members[Len(members)] \in 1 .. k - 1
          BY <2>2 DEF Consecutive
        <4> QED BY <1>1, <4>1
      <3>2. members[Len(members)] = k - 1
        BY <3>1 DEF Sectioned, n
      <3>3. old.path = Trail(segments, members[Len(members)])
        BY <1>2, <2>0, <2>2
      <3>4. Trail(segments, k) = Trail(segments, k - 1)
        BY <1>1, <1>7, TrailIs
      <3> QED BY <3>2, <3>3, <3>4
    <2>4. /\ Len(Append(members, k)) = Len(members) + 1 /\ Append(members, k) \in Seq(Nat)
          /\ Append(members, k)[Len(members) + 1] = k
          /\ \A j \in 1 .. Len(members) : Append(members, k)[j] = members[j]
      <3>1. members \in Seq(Nat) /\ k \in Nat
        BY <1>1, <2>2
      <3> HIDE DEF members
      <3> QED BY <3>1, AppendIs
    <2>5. new \in Section /\ new.members = Append(members, k) /\ new.path = old.path
      <3>1. old \in Section /\ Append(old.members, k) \in Seq(Nat)
        BY <2>2, <2>4
      <3> HIDE DEF old
      <3> QED BY <3>1 DEF Section
    <2> HIDE DEF new, t
    <2>6. /\ Len([s.sections EXCEPT ![n] = new]) = n
          /\ \A m \in 1 .. n : [s.sections EXCEPT ![n] = new][m] = IF m = n THEN new ELSE s.sections[m]
      <3> DEFINE list == s.sections
      <3>1. list \in Seq(Section) /\ Len(list) = n
        BY <1>1 DEF n
      <3> HIDE DEF list
      <3>2. /\ Len([list EXCEPT ![n] = new]) = Len(list)
            /\ \A m \in 1 .. Len(list) : [list EXCEPT ![n] = new][m] = IF m = n THEN new ELSE list[m]
        BY <2>0, <2>5, <3>1, ExceptSeq
      <3> QED BY <3>1, <3>2 DEF list
    <2>7. /\ t.trail = s.trail /\ Len(t.sections) = n
          /\ \A m \in 1 .. n : t.sections[m] = IF m = n THEN new ELSE s.sections[m]
      BY <1>1, <2>1, <2>6 DEF SectionState
    <2>8. t.trail = Trail(segments, k)
      BY <1>1, <1>2, <1>7, <2>7, TrailIs
    <2> HIDE DEF old
    <2>9. ASSUME NEW m \in 1 .. n, NEW j \in 1 .. Len(t.sections[m].members)
          PROVE  t.sections[m].path = Trail(segments, t.sections[m].members[j])
      <3>1. CASE m = n
        <4>1. /\ t.sections[m].members = Append(members, k) /\ t.sections[m].path = old.path
              /\ s.sections[m] = old
          BY <2>5, <2>7, <3>1 DEF old
        <4>2. j \in 1 .. Len(members) + 1
          BY <2>4, <2>9, <4>1
        <4>3. CASE j = Len(members) + 1
          BY <2>3, <2>4, <4>1, <4>3
        <4>4. CASE j # Len(members) + 1
          <5>1. j \in 1 .. Len(members)
            BY <2>2, <4>2, <4>4
          <5>2. old.path = Trail(segments, members[j])
            BY <1>2, <4>1, <5>1
          <5> QED BY <2>4, <4>1, <5>1, <5>2
        <4> QED BY <4>3, <4>4
      <3>2. CASE m # n
        <4>1. t.sections[m] = s.sections[m]
          BY <2>7, <3>2
        <4>2. j \in 1 .. Len(s.sections[m].members)
          BY <2>9, <4>1
        <4> QED BY <1>2, <4>1, <4>2
      <3> QED BY <3>1, <3>2
    <2> QED BY <2>7, <2>8, <2>9 DEF Trailed
  <1> QED BY <1>5, <1>6, <1>7

LEMMA SectionsTrailed ==
  ASSUME NEW segments \in Seq(Segs), NEW lines, Headed(segments, lines)
  PROVE  LET sections == Sections(segments)
         IN  \A m \in 1 .. Len(sections) : \A j \in 1 .. Len(sections[m].members) :
               /\ sections[m].members[j] \in 1 .. Len(segments)
               /\ sections[m].path = Trail(segments, sections[m].members[j])
  <1> DEFINE n == Len(segments)
             read == SectionsRead(segments)
             G == {k \in 0 .. n : Trailed(read[k], k, segments)}
  <1>1. n \in Nat
    BY LenProperties
  <1>2. /\ read[0] = SectionStart
        /\ \A k \in 1 .. n : read[k] = NextSection(read[k - 1], k, segments[k])
        /\ \A k \in 0 .. n : Sectioned(read[k], k)
    BY SectionsGo
  <1> HIDE DEF read
  <1>3. 0 \in G
    <2>1. read[0].trail = <<>> /\ read[0].sections = <<>> /\ Len(<<>>) = 0
      BY <1>2 DEF SectionStart
    <2>2. (\A m : m \notin 1 .. 0) /\ 0 \in 0 .. n
      BY <1>1
    <2>3. Trail(segments, 0) = <<>>
      BY <2>2 DEF Trail, HeadsOf
    <2>4. Trailed(read[0], 0, segments)
      BY <2>1, <2>2, <2>3 DEF Trailed
    <2> QED BY <2>2, <2>4
  <1>4. ASSUME NEW k \in 1 .. n, k - 1 \in G PROVE k \in G
    <2>1. k \in 0 .. n /\ k - 1 \in 0 .. n
      BY <1>1
    <2>2. Sectioned(read[k - 1], k - 1) /\ Trailed(read[k - 1], k - 1, segments)
      BY <1>2, <1>4, <2>1
    <2>3. Trailed(read[k], k, segments)
      BY <1>2, <2>2, NextSectionTrailed
    <2> QED BY <2>1, <2>3
  <1>5. \A k \in 0 .. n : k \in G
    <2> HIDE DEF G
    <2> QED BY <1>1, <1>3, <1>4, UpTo
  <1>6. Trailed(read[n], n, segments) /\ Sectioned(read[n], n)
    BY <1>1, <1>2, <1>5
  <1>7. Sections(segments) = read[n].sections
    BY DEF Sections, read
  <1> HIDE DEF n
  <1>8. \A m \in 1 .. Len(read[n].sections) : Consecutive(read[n].sections[m].members, n)
    BY <1>6 DEF Sectioned
  <1> QED BY <1>6, <1>7, <1>8 DEF Trailed, Consecutive, n

(* The headings up to a line of a segment are those up to the segment.     *)
LEMMA HeadsUpTo ==
  ASSUME NEW segments \in Seq(Segs), NEW m \in Nat, Parted(segments, m),
         NEW lines, Headed(segments, lines), NEW k \in 1 .. Len(segments),
         NEW unit \in segments[k].first .. segments[k].last
  PROVE  HeadLines(segments, k)
           = {h \in 1 .. unit : \E j \in DOMAIN segments :
                segments[j].kind = "heading" /\ Head(segments[j].text)[1] = h}
  <1> DEFINE n == Len(segments)
             heads == {h \in 1 .. unit : \E j \in DOMAIN segments :
                         segments[j].kind = "heading" /\ Head(segments[j].text)[1] = h}
  <1>1. n \in Nat /\ DOMAIN segments = 1 .. n /\ k \in 1 .. n
    BY LenProperties
  <1>2. \A j \in 1 .. n : segments[j].first \in Nat /\ segments[j].last \in Nat
    BY SegmentsAre
  <1>3. \A j \in 1 .. n : segments[j].kind = "heading" => Head(segments[j].text)[1] = segments[j].first
    BY DEF Headed, HeadingRight
  <1>4. /\ \A j \in 1 .. n : 1 <= segments[j].first /\ segments[j].first <= segments[j].last
        /\ \A i, j \in 1 .. n : i < j => segments[i].last < segments[j].first
    BY DEF Parted
  <1> HIDE DEF n
  <1>5. unit \in Nat /\ segments[k].first <= unit /\ unit <= segments[k].last
    BY <1>1, <1>2
  <1>6. ASSUME NEW h \in HeadLines(segments, k) PROVE h \in heads
    <2>1. PICK j \in 1 .. k : segments[j].kind = "heading" /\ h = segments[j].first
      BY <1>6 DEF HeadLines, HeadsOf
    <2>2. j \in 1 .. n
      BY <1>1, <2>1
    <2>3. segments[j].first <= unit
      <3>1. CASE j = k
        BY <1>5, <3>1
      <3>2. CASE j # k
        <4>1. segments[j].last < segments[k].first
          BY <1>1, <1>4, <2>1, <2>2, <3>2
        <4>2. segments[j].first <= segments[j].last
          BY <1>4, <2>2
        <4>3. segments[j].first \in Nat /\ segments[j].last \in Nat /\ segments[k].first \in Nat
          BY <1>1, <1>2, <2>2
        <4> QED BY <1>5, <4>1, <4>2, <4>3
      <3> QED BY <3>1, <3>2
    <2>4. h \in 1 .. unit
      BY <1>2, <1>4, <1>5, <2>1, <2>2, <2>3
    <2> QED BY <1>1, <1>3, <2>1, <2>2, <2>4
  <1>7. ASSUME NEW h \in heads PROVE h \in HeadLines(segments, k)
    <2>1. PICK j \in 1 .. n : segments[j].kind = "heading" /\ Head(segments[j].text)[1] = h
      BY <1>1, <1>7
    <2>2. h = segments[j].first /\ h <= unit
      BY <1>3, <1>5, <1>7, <2>1
    <2>3. ~(k < j)
      <3> SUFFICES ASSUME k < j PROVE FALSE
        OBVIOUS
      <3>1. segments[k].last < segments[j].first
        BY <1>1, <1>4, <2>1
      <3>2. segments[j].first \in Nat /\ segments[k].last \in Nat
        BY <1>1, <1>2, <2>1
      <3> QED BY <1>5, <2>2, <3>1, <3>2
    <2>4. j \in 1 .. k
      BY <1>1, <2>1, <2>3
    <2> QED BY <2>1, <2>2, <2>4 DEF HeadLines, HeadsOf
  <1> QED BY <1>6, <1>7

(* A cut of a section carries the path of the segment it begins in.        *)
LEMMA CutTrailed ==
  ASSUME NEW segments \in Seq(Segs), NEW lines, Headed(segments, lines),
         NEW q \in 1 .. Len(Sections(segments)), NEW cut, cut.text \in Text,
         Seen(cut.text) # {}, OfSection(cut, Sections(segments)[q], segments)
  PROVE  \E k \in 1 .. Len(segments) :
           /\ Min({x[1] : x \in Seen(cut.text)}) \in segments[k].first .. segments[k].last
           /\ cut.path = Trail(segments, k)
  <1> DEFINE units == {x[1] : x \in Seen(cut.text)}
             section == Sections(segments)[q]
  <1>1. units \subseteq Nat /\ units # {}
    <2>1. \A x \in Seen(cut.text) : x \in Char
      BY SeenIs
    <2> QED BY <2>1, NewLineIs
  <1>2. Min(units) \in units
    <2> HIDE DEF units
    <2> QED BY <1>1, MinIsLeast
  <1>3. PICK x \in Seen(cut.text) : x[1] = Min(units)
    BY <1>2
  <1> HIDE DEF units
  <1>4. \A j \in 1 .. Len(section.members) :
          /\ section.members[j] \in 1 .. Len(segments)
          /\ section.path = Trail(segments, section.members[j])
    BY SectionsTrailed
  <1> HIDE DEF section
  <1>5. /\ cut.path = section.path
        /\ \E j \in 1 .. Len(section.members) : x \in Seen(segments[section.members[j]].text)
    BY DEF OfSection, section
  <1>6. PICK k \in 1 .. Len(segments) : /\ x \in Seen(segments[k].text)
                                        /\ section.path = Trail(segments, k)
    BY <1>4, <1>5
  <1>7. x[1] \in segments[k].first .. segments[k].last
    BY <1>6 DEF Headed, Told
  <1> QED BY <1>3, <1>5, <1>6, <1>7 DEF units

(* The chunks behind the document's are the ones of the sections.          *)
LEMMA SectionedChunks ==
  ASSUME NEW segments \in Seq(Segs), NEW m \in Nat, Parted(segments, m), NEW quality \in Qualities,
         \E k \in DOMAIN segments : segments[k].kind = "heading",
         NEW c \in 2 .. Len(Chunked(segments, quality))
  PROVE  LET cut == Chunked(segments, quality)[c]
         IN  /\ cut.text \in Text
             /\ \E q \in 1 .. Len(Sections(segments)) :
                  OfSection(cut, Sections(segments)[q], segments)
  <1> DEFINE document == DocumentChunk(segments, quality)
             rest == SectionChunks(segments, quality)
             all == Chunked(segments, quality)
             Of(cut) == \E q \in 1 .. Len(Sections(segments)) :
                          OfSection(cut, Sections(segments)[q], segments)
  <1>1. all = <<document>> \o rest
    BY DEF Chunked
  <1>2. document \in Cuts
    BY DocumentIs
  <1>3. rest \in Seq(Cuts) /\ \A p \in 1 .. Len(rest) : Of(rest[p])
    BY SectionChunksAre DEF CutFrom
  <1>4. c \in 2 .. Len(all)
    OBVIOUS
  <1> HIDE DEF document, rest, all, Of
  <1>5. Len(rest) \in Nat /\ Len(all) = 1 + Len(rest) /\ all[c] = rest[c - 1]
    <2>1. Len(<<document>>) = 1 /\ <<document>> \in Seq(Cuts)
      BY <1>2
    <2>2. /\ Len(rest) \in Nat /\ Len(all) = Len(<<document>>) + Len(rest)
          /\ \A p \in 1 .. Len(<<document>>) + Len(rest) :
               all[p] = IF p <= Len(<<document>>) THEN <<document>>[p]
                        ELSE rest[p - Len(<<document>>)]
      BY <1>1, <1>3, <2>1, ConcatProperties, LenProperties
    <2>3. c \in 1 .. Len(<<document>>) + Len(rest) /\ ~(c <= Len(<<document>>))
      BY <1>4, <2>1, <2>2
    <2> QED BY <2>1, <2>2, <2>3
  <1>6. c - 1 \in 1 .. Len(rest)
    BY <1>4, <1>5
  <1>7. rest[c - 1] \in Cuts /\ Of(rest[c - 1])
    BY <1>3, <1>6, ElementOfSeq
  <1> QED BY <1>5, <1>7 DEF Cuts, Of, all

LEMMA HeadedAfterReading ==
  ASSUME OnItsWay
  PROVE  UnderItsHeadings
  <1> SUFFICES ASSUME format = "markdown",
                      \E k \in DOMAIN output.segments : output.segments[k].kind = "heading",
                      \A i \in DOMAIN content :
                        content[i].kind = "heading" => content[i].marks = 0,
                      NEW c \in 2 .. Len(chunks), Seen(chunks[c].text) # {}
               PROVE  LET unit == Min({x[1] : x \in Seen(chunks[c].text)})
                          path == chunks[c].path
                      IN  /\ ToSet(path) = {[unit |-> h, marks |-> 0] : h \in Enclosing(unit)}
                          /\ \A i, j \in DOMAIN path : i < j => path[i].unit < path[j].unit
    BY DEF UnderItsHeadings
  <1> DEFINE segments == output.segments
             quality == Quality(format)
             cut == chunks[c]
             unit == Min({x[1] : x \in Seen(cut.text)})
  <1>1. stage = "chunked"
    <2>1. stage # "chunked" => Len(chunks) = 0
      BY DEF OnItsWay
    <2>2. \A i : i \notin 2 .. 0
      OBVIOUS
    <2> QED BY <2>1, <2>2
  <1>2. /\ "markdown" \in Format /\ content \in Files("markdown")
        /\ output = Extracted("markdown", content) /\ chunks = Chunked(segments, quality)
    BY <1>1 DEF OnItsWay
  <1>3. segments \in Seq(Segs) /\ \E m \in Nat : Parted(segments, m)
    BY <1>2, ExtractedIs
  <1>4. quality \in Qualities
    BY DEF Quality, Qualities
  <1>5. Headed(segments, content)
    <2>1. DOMAIN content = 1 .. Len(content)
      BY <1>2, ContentIs
    <2>2. Unmarked(content)
      BY <2>1 DEF Unmarked
    <2> QED BY <1>2, <2>2, MarkdownHeaded
  <1>6. DOMAIN segments = 1 .. Len(segments) /\ \E k \in DOMAIN segments : segments[k].kind = "heading"
    BY <1>3, LenProperties
  <1>7. PICK m \in Nat : Parted(segments, m)
    BY <1>3
  <1> HIDE DEF segments, quality
  <1>8. cut.text \in Text /\ \E q \in 1 .. Len(Sections(segments)) :
                               OfSection(cut, Sections(segments)[q], segments)
    <2>1. c \in 2 .. Len(Chunked(segments, quality)) /\ cut = Chunked(segments, quality)[c]
      BY <1>2
    <2> QED BY <1>3, <1>4, <1>6, <1>7, <2>1, SectionedChunks
  <1>9. PICK k \in 1 .. Len(segments) : /\ unit \in segments[k].first .. segments[k].last
                                        /\ cut.path = Trail(segments, k)
    BY <1>3, <1>5, <1>8, CutTrailed
  <1> HIDE DEF unit
  <1>10. HeadLines(segments, k)
           = {h \in 1 .. unit : \E j \in DOMAIN segments :
                segments[j].kind = "heading" /\ Head(segments[j].text)[1] = h}
    BY <1>3, <1>5, <1>7, <1>9, HeadsUpTo
  <1>11. Around(HeadLines(segments, k), content) = Enclosing(unit)
    BY <1>10 DEF Around, Enclosing, segments
  <1>12. PathFor(cut.path, HeadLines(segments, k), content)
    <2>1. k \in 0 .. Len(segments)
      BY <1>3, <1>9, LenProperties
    <2> QED BY <1>3, <1>5, <1>9, <2>1, TrailRight
  <1>13. /\ cut.path \in Paths /\ \A i, j \in 1 .. Len(cut.path) :
                                   i < j => cut.path[i].unit < cut.path[j].unit
         /\ ToSet(cut.path) = {TitleOf(h) : h \in Around(HeadLines(segments, k), content)}
    BY <1>12 DEF PathFor
  <1>14. ToSet(cut.path) = {[unit |-> h, marks |-> 0] : h \in Enclosing(unit)}
    BY <1>11, <1>13 DEF TitleOf
  <1>15. DOMAIN cut.path = 1 .. Len(cut.path)
    BY <1>13, LenProperties DEF Paths
  <1> QED BY <1>13, <1>14, <1>15 DEF unit

(* The extractor's stack of headings and the chunker's trail of titles end *)
(* up alike: a chunk of a Markdown file carries exactly the headings that  *)
(* enclose its first character, the outermost first, as long as no title   *)
(* holds the separator (markdown.rs:106-128, chunker.rs:99-137).           *)
THEOREM UnderHeadings == Spec => []UnderItsHeadings
  <1>1. OnItsWay => UnderItsHeadings
    BY HeadedAfterReading
  <1> QED BY <1>1, AlwaysOnItsWay, PTL
=============================================================================
