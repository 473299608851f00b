------------------------- MODULE SchedulerHost_proofs -------------------------
(***************************************************************************)
(* The safety of the scheduler host, for every number of rows, capacity,   *)
(* attempt limit and pattern of faults: HostInv is inductive, and every    *)
(* invariant the runs check follows from it.                               *)
(***************************************************************************)
EXTENDS SchedulerHost, SequenceTheorems, FiniteSetTheorems, TLAPS

-----------------------------------------------------------------------------
(* What inserting into a queue and serving from its back do to it. *)

(* What place n holds once e is inserted at p. *)
Shifted(s, p, e, n) == IF n < p THEN s[n] ELSE IF n = p THEN e ELSE s[n - 1]

(* InsertAt makes room at p and moves the rest one place to the back. *)
LEMMA InsertAtProperties ==
  ASSUME NEW S, NEW s \in Seq(S), NEW p \in 1 .. Len(s) + 1, NEW e \in S
  PROVE  /\ InsertAt(s, p, e) \in Seq(S)
         /\ Len(InsertAt(s, p, e)) = Len(s) + 1
         /\ \A n \in 1 .. Len(s) + 1 :
              InsertAt(s, p, e)[n] = Shifted(s, p, e, n)
<1> DEFINE front == SubSeq(s, 1, p - 1)
           back  == SubSeq(s, p, Len(s))
<1>1. Len(s) \in Nat /\ \A i \in 1 .. Len(s) : s[i] \in S
  BY ElementOfSeq, LenProperties
<1>2. /\ front \in Seq(S) /\ Len(front) = p - 1
      /\ \A i \in 1 .. p - 1 : front[i] = s[i]
  <2>1. \A i \in 1 .. p - 1 : s[i] \in S
    BY <1>1
  <2>2. QED
    BY <1>1, <2>1, SubSeqProperties
<1>3. /\ back \in Seq(S) /\ Len(back) = Len(s) - p + 1
      /\ \A i \in 1 .. Len(s) - p + 1 : back[i] = s[p + i - 1]
  <2>1. \A i \in p .. Len(s) : s[i] \in S
    BY <1>1
  <2>2. QED
    BY <1>1, <2>1, SubSeqProperties
<1>4. /\ <<e>> \in Seq(S) /\ Len(<<e>>) = 1 /\ <<e>>[1] = e
  OBVIOUS
<1> HIDE DEF front, back
<1>5. /\ front \o <<e>> \in Seq(S) /\ Len(front \o <<e>>) = p
      /\ \A i \in 1 .. p : (front \o <<e>>)[i] = IF i < p THEN front[i] ELSE e
  <2>1. /\ front \o <<e>> \in Seq(S) /\ Len(front \o <<e>>) = Len(front) + Len(<<e>>)
        /\ \A i \in 1 .. Len(front) + Len(<<e>>) :
             (front \o <<e>>)[i] = IF i <= Len(front) THEN front[i] ELSE <<e>>[i - Len(front)]
    BY <1>2, <1>4, ConcatProperties
  <2>2. \A i \in 1 .. p : ~(i < p) => i - (p - 1) = 1
    BY <1>1
  <2>3. QED
    BY <1>1, <1>2, <1>4, <2>1, <2>2, SMTT(30)
<1> DEFINE left == front \o <<e>>
<1>6. /\ left \o back \in Seq(S) /\ Len(left \o back) = Len(left) + Len(back)
      /\ \A i \in 1 .. Len(left) + Len(back) :
           (left \o back)[i] = IF i <= Len(left) THEN left[i] ELSE back[i - Len(left)]
  <2> HIDE DEF left
  <2>1. left \in Seq(S)
    BY <1>5 DEF left
  <2>2. QED
    BY <1>3, <2>1, ConcatProperties
<1>7. InsertAt(s, p, e) = left \o back
  BY DEF InsertAt, left, front, back
<1>8. Len(left) = p /\ \A i \in 1 .. p : left[i] = IF i < p THEN front[i] ELSE e
  BY <1>5
<1> HIDE DEF left
<1>9. \A n \in 1 .. Len(s) + 1 :
        InsertAt(s, p, e)[n] = IF n < p THEN s[n] ELSE IF n = p THEN e ELSE s[n - 1]
  <2> TAKE n \in 1 .. Len(s) + 1
  <2>1. InsertAt(s, p, e)[n] = IF n <= p THEN left[n] ELSE back[n - p]
    BY <1>1, <1>3, <1>6, <1>7, <1>8
  <2>2. n <= p => left[n] = IF n < p THEN s[n] ELSE e
    BY <1>1, <1>2, <1>8
  <2>3. n > p => back[n - p] = s[n - 1]
    <3>1. n > p => n - p \in 1 .. Len(s) - p + 1 /\ p + (n - p) - 1 = n - 1
      BY <1>1
    <3>2. QED
      BY <1>3, <3>1
  <2>4. QED
    BY <1>1, <2>1, <2>2, <2>3
<1>10. InsertAt(s, p, e) \in Seq(S) /\ Len(InsertAt(s, p, e)) = Len(s) + 1
  BY <1>1, <1>3, <1>6, <1>7, <1>8
<1>11. QED
  BY <1>9, <1>10 DEF Shifted

(* Front and Last: what pop_back leaves and what it returns. *)
LEMMA FrontProperties ==
  ASSUME NEW S, NEW s \in Seq(S), s # <<>>
  PROVE  /\ Len(s) \in Nat \ {0}
         /\ Front(s) \in Seq(S)
         /\ Len(Front(s)) = Len(s) - 1
         /\ \A n \in 1 .. Len(s) - 1 : Front(s)[n] = s[n]
         /\ Last(s) = s[Len(s)]
         /\ Last(s) \in S
<1>1. Len(s) \in Nat /\ \A i \in 1 .. Len(s) : s[i] \in S
  BY ElementOfSeq, LenProperties
<1>2. Len(s) \in Nat \ {0} /\ Len(s) - 1 \in Nat
  BY EmptySeq
<1>3. \A i \in 1 .. Len(s) - 1 : s[i] \in S
  BY <1>1
<1>4. /\ SubSeq(s, 1, Len(s) - 1) \in Seq(S)
      /\ Len(SubSeq(s, 1, Len(s) - 1)) = IF 1 <= Len(s) - 1 THEN Len(s) - 1 ELSE 0
      /\ \A i \in 1 .. Len(s) - 1 : SubSeq(s, 1, Len(s) - 1)[i] = s[i]
  BY <1>1, <1>3, SubSeqProperties
<1>5. Len(SubSeq(s, 1, Len(s) - 1)) = Len(s) - 1
  <2>1. \A n \in Nat : (IF 1 <= n THEN n ELSE 0) = n
    OBVIOUS
  <2>2. (IF 1 <= Len(s) - 1 THEN Len(s) - 1 ELSE 0) = Len(s) - 1
    BY <1>2, <2>1
  <2>3. QED
    BY <1>4, <2>2
<1>6. Front(s) = SubSeq(s, 1, Len(s) - 1)
  BY DEF Front
<1>7. Last(s) = s[Len(s)]
  BY DEF Last
<1>8. QED
  BY <1>1, <1>2, <1>4, <1>5, <1>6, <1>7

(* Where every job of the longer queue comes from, and where every job of  *)
(* the old one went.                                                       *)
LEMMA InsertAtElements ==
  ASSUME NEW S, NEW s \in Seq(S), NEW p \in 1 .. Len(s) + 1, NEW e \in S
  PROVE  /\ \A i \in DOMAIN InsertAt(s, p, e) :
              \/ i = p /\ InsertAt(s, p, e)[i] = e
              \/ i < p /\ i \in DOMAIN s /\ InsertAt(s, p, e)[i] = s[i]
              \/ i > p /\ i - 1 \in DOMAIN s /\ InsertAt(s, p, e)[i] = s[i - 1]
         /\ \A n \in DOMAIN s : \E i \in DOMAIN InsertAt(s, p, e) : InsertAt(s, p, e)[i] = s[n]
         /\ p \in DOMAIN InsertAt(s, p, e) /\ InsertAt(s, p, e)[p] = e
         /\ DOMAIN InsertAt(s, p, e) \subseteq Nat
<1> DEFINE t == InsertAt(s, p, e)
<1>1. Len(s) \in Nat /\ DOMAIN s = 1 .. Len(s)
  BY LenProperties
<1>2. t \in Seq(S) /\ Len(t) = Len(s) + 1
  BY InsertAtProperties
<1>3. \A n \in 1 .. Len(s) + 1 : t[n] = IF n < p THEN s[n] ELSE IF n = p THEN e ELSE s[n - 1]
  <2>1. \A n \in 1 .. Len(s) + 1 : t[n] = Shifted(s, p, e, n)
    BY InsertAtProperties
  <2>2. QED
    BY <2>1 DEF Shifted
<1> HIDE DEF t
<1>4. DOMAIN t = 1 .. Len(s) + 1
  BY <1>2, LenProperties
<1>5. ASSUME NEW i \in DOMAIN t
      PROVE  \/ i = p /\ t[i] = e
             \/ i < p /\ i \in DOMAIN s /\ t[i] = s[i]
             \/ i > p /\ i - 1 \in DOMAIN s /\ t[i] = s[i - 1]
  BY <1>1, <1>3, <1>4, <1>5
<1>6. ASSUME NEW n \in DOMAIN s PROVE \E i \in DOMAIN t : t[i] = s[n]
  <2>1. CASE n < p
    BY <1>1, <1>3, <1>4, <2>1
  <2>2. CASE n >= p
    <3>1. n + 1 \in DOMAIN t /\ t[n + 1] = s[(n + 1) - 1] /\ (n + 1) - 1 = n
      BY <1>1, <1>3, <1>4, <2>2
    <3>2. QED
      BY <3>1
  <2>3. QED
    BY <1>1, <2>1, <2>2
<1>7. p \in DOMAIN t /\ t[p] = e
  BY <1>1, <1>3, <1>4
<1>8. DOMAIN t \subseteq Nat
  BY <1>1, <1>4
<1>9. QED
  BY <1>5, <1>6, <1>7, <1>8 DEF t

LEMMA FrontElements ==
  ASSUME NEW S, NEW s \in Seq(S), s # <<>>
  PROVE  /\ \A i \in DOMAIN Front(s) : i \in DOMAIN s /\ i # Len(s) /\ Front(s)[i] = s[i]
         /\ \A i \in DOMAIN s : i = Len(s) \/ i \in DOMAIN Front(s)
         /\ Len(s) \in DOMAIN s
         /\ Last(s) = s[Len(s)]
<1>1. Len(s) \in Nat \ {0}
  BY EmptySeq
<1>2. DOMAIN s = 1 .. Len(s)
  BY LenProperties
<1>3. DOMAIN Front(s) = 1 .. Len(s) - 1
  BY FrontProperties, LenProperties
<1>4. \A n \in 1 .. Len(s) - 1 : Front(s)[n] = s[n]
  BY FrontProperties
<1>5. \A i \in 1 .. Len(s) - 1 : i \in 1 .. Len(s) /\ i # Len(s)
  BY <1>1
<1>6. \A i \in 1 .. Len(s) : i = Len(s) \/ i \in 1 .. Len(s) - 1
  BY <1>1
<1>7. Len(s) \in 1 .. Len(s)
  BY <1>1
<1>8. Last(s) = s[Len(s)]
  BY DEF Last
<1>9. QED
  BY <1>2, <1>3, <1>4, <1>5, <1>6, <1>7, <1>8

-----------------------------------------------------------------------------
(* The same of a family of queues, one per kind, whose jobs have ids. *)

LEMMA IdsOfMember ==
  ASSUME NEW q, NEW j
  PROVE  j \in IdsOf(q) <=> \E k \in Kind : \E i \in DOMAIN q[k] : q[k][i].id = j
BY DEF IdsOf

(* A job put into one queue: every job there is the new one or an old one, *)
(* the ids grow by its id, and they stay distinct if it was not there.     *)
LEMMA PushProperties ==
  ASSUME NEW S, NEW q \in [Kind -> Seq(S)], NEW k \in Kind, NEW job \in S,
         NEW p \in 1 .. Len(q[k]) + 1, NEW r, r = Pushed(q, k, p, job)
  PROVE  /\ r \in [Kind -> Seq(S)]
         /\ Len(r[k]) = Len(q[k]) + 1
         /\ \A other \in Kind \ {k} : r[other] = q[other]
         /\ \A i \in DOMAIN r[k] : r[k][i] = job \/ \E n \in DOMAIN q[k] : r[k][i] = q[k][n]
         /\ IdsOf(r) = IdsOf(q) \union {job.id}
         /\ \A except : DistinctIds(q, except) /\ (job.id \in IdsOf(q) => job.id \in except)
                          => DistinctIds(r, except)
<1> DEFINE t == InsertAt(q[k], p, job)
<1>1. q[k] \in Seq(S)
  OBVIOUS
<1>2. /\ DOMAIN r = Kind /\ r[k] = t
      /\ r = [other \in Kind |-> r[other]]
      /\ \A other \in Kind \ {k} : r[other] = q[other]
  BY DEF Pushed
<1>3. t \in Seq(S) /\ Len(t) = Len(q[k]) + 1
  BY <1>1, InsertAtProperties
<1>4. /\ \A i \in DOMAIN t : \/ i = p /\ t[i] = job
                             \/ i < p /\ i \in DOMAIN q[k] /\ t[i] = q[k][i]
                             \/ i > p /\ i - 1 \in DOMAIN q[k] /\ t[i] = q[k][i - 1]
      /\ \A n \in DOMAIN q[k] : \E i \in DOMAIN t : t[i] = q[k][n]
      /\ p \in DOMAIN t /\ t[p] = job
      /\ DOMAIN t \subseteq Nat
  BY <1>1, InsertAtElements
<1> HIDE DEF t
<1>5. r \in [Kind -> Seq(S)]
  BY <1>2, <1>3
<1>6. Len(r[k]) = Len(q[k]) + 1
  BY <1>2, <1>3
<1>7. ASSUME NEW j \in IdsOf(r) PROVE j \in IdsOf(q) \union {job.id}
  <2>1. PICK c \in Kind : \E i \in DOMAIN r[c] : r[c][i].id = j
    BY <1>7, IdsOfMember
  <2>2. CASE c = k
    <3>1. PICK i \in DOMAIN t : t[i].id = j
      BY <1>2, <2>1, <2>2
    <3>2. t[i] = job \/ \E m \in DOMAIN q[k] : t[i] = q[k][m]
      BY <1>4
    <3>3. QED
      BY <3>1, <3>2, IdsOfMember
  <2>3. CASE c # k
    BY <1>2, <2>1, <2>3, IdsOfMember
  <2>4. QED
    BY <2>2, <2>3
<1>8. ASSUME NEW j \in IdsOf(q) PROVE j \in IdsOf(r)
  <2>1. PICK c \in Kind : \E i \in DOMAIN q[c] : q[c][i].id = j
    BY <1>8, IdsOfMember
  <2>2. CASE c = k
    BY <1>2, <1>4, <2>1, <2>2, IdsOfMember
  <2>3. CASE c # k
    BY <1>2, <2>1, <2>3, IdsOfMember
  <2>4. QED
    BY <2>2, <2>3
<1>9. job.id \in IdsOf(r)
  BY <1>2, <1>4, IdsOfMember
<1>10. ASSUME NEW except, DistinctIds(q, except),
              job.id \in IdsOf(q) => job.id \in except
       PROVE  DistinctIds(r, except)
  <2>1. \A n \in DOMAIN q[k] : q[k][n].id = job.id => job.id \in except
    BY <1>10, IdsOfMember
  <2>2. \A m, n \in DOMAIN q[k] : q[k][m].id = q[k][n].id => m = n \/ q[k][m].id \in except
    BY <1>10 DEF DistinctIds
  <2>3. ASSUME NEW a \in DOMAIN t, NEW b \in DOMAIN t, t[a].id = t[b].id
        PROVE  a = b \/ t[a].id \in except
    <3>1. a \in Nat /\ b \in Nat
      BY <1>4
    <3>2. CASE a = p \/ b = p
      BY <1>4, <2>1, <2>3, <3>1, <3>2
    <3>3. CASE a # p /\ b # p /\ t[a].id \notin except
      <4>1. PICK m \in DOMAIN q[k] : t[a] = q[k][m] /\ ((a < p /\ m = a) \/ (a > p /\ m = a - 1))
        BY <1>4, <3>3
      <4>2. PICK n \in DOMAIN q[k] : t[b] = q[k][n] /\ ((b < p /\ n = b) \/ (b > p /\ n = b - 1))
        BY <1>4, <3>3
      <4>3. m = n
        BY <2>2, <2>3, <3>3, <4>1, <4>2
      <4>4. QED
        BY <3>1, <4>1, <4>2, <4>3
    <3>4. QED
      BY <3>2, <3>3
  <2>4. QED
    BY <1>2, <1>10, <2>3 DEF DistinctIds
<1>11. \A i \in DOMAIN r[k] : r[k][i] = job \/ \E n \in DOMAIN q[k] : r[k][i] = q[k][n]
  BY <1>2, <1>4
<1>12. IdsOf(r) = IdsOf(q) \union {job.id}
  BY <1>7, <1>8, <1>9
<1>13. QED
  BY <1>2, <1>5, <1>6, <1>10, <1>11, <1>12

(* The job at the back of one queue taken out of it. *)
LEMMA PopProperties ==
  ASSUME NEW S, NEW q \in [Kind -> Seq(S)], NEW k \in Kind, q[k] # <<>>,
         NEW r, r = Popped(q, k)
  PROVE  /\ Last(q[k]) \in S
         /\ \E i \in DOMAIN q[k] : Last(q[k]) = q[k][i]
         /\ r \in [Kind -> Seq(S)]
         /\ Len(r[k]) = Len(q[k]) - 1
         /\ \A other \in Kind \ {k} : r[other] = q[other]
         /\ \A i \in DOMAIN r[k] : i \in DOMAIN q[k] /\ r[k][i] = q[k][i]
         /\ IdsOf(q) = IdsOf(r) \union {Last(q[k]).id}
         /\ \A except : DistinctIds(q, except) =>
              /\ DistinctIds(r, except)
              /\ \A i \in DOMAIN r[k] : r[k][i].id = Last(q[k]).id => Last(q[k]).id \in except
<1> DEFINE t == Front(q[k])
           n == Len(q[k])
<1>1. q[k] \in Seq(S)
  OBVIOUS
<1>2. /\ DOMAIN r = Kind /\ r[k] = t
      /\ r = [other \in Kind |-> r[other]]
      /\ \A other \in Kind \ {k} : r[other] = q[other]
  BY DEF Popped
<1>3. t \in Seq(S) /\ Len(t) = Len(q[k]) - 1 /\ Last(q[k]) \in S
  BY <1>1, FrontProperties
<1>4. /\ \A i \in DOMAIN t : i \in DOMAIN q[k] /\ i # n /\ t[i] = q[k][i]
      /\ \A i \in DOMAIN q[k] : i = n \/ i \in DOMAIN t
      /\ n \in DOMAIN q[k]
      /\ Last(q[k]) = q[k][n]
  BY <1>1, FrontElements
<1>5. r \in [Kind -> Seq(S)]
  BY <1>2, <1>3
<1>6. Len(r[k]) = Len(q[k]) - 1
  BY <1>2, <1>3
<1> HIDE DEF t, n
<1>7. ASSUME NEW j \in IdsOf(q) PROVE j \in IdsOf(r) \union {Last(q[k]).id}
  <2>1. PICK c \in Kind : \E i \in DOMAIN q[c] : q[c][i].id = j
    BY <1>7, IdsOfMember
  <2>2. CASE c = k
    BY <1>2, <1>4, <2>1, <2>2, IdsOfMember, SMTT(30)
  <2>3. CASE c # k
    BY <1>2, <2>1, <2>3, IdsOfMember
  <2>4. QED
    BY <2>2, <2>3
<1>8. ASSUME NEW j \in IdsOf(r) PROVE j \in IdsOf(q)
  <2>1. PICK c \in Kind : \E i \in DOMAIN r[c] : r[c][i].id = j
    BY <1>8, IdsOfMember
  <2>2. CASE c = k
    BY <1>2, <1>4, <2>1, <2>2, IdsOfMember
  <2>3. CASE c # k
    BY <1>2, <2>1, <2>3, IdsOfMember
  <2>4. QED
    BY <2>2, <2>3
<1>9. Last(q[k]).id \in IdsOf(q)
  BY <1>4, IdsOfMember
<1>10. ASSUME NEW except, DistinctIds(q, except)
       PROVE  /\ DistinctIds(r, except)
              /\ \A i \in DOMAIN r[k] : r[k][i].id = Last(q[k]).id => Last(q[k]).id \in except
  <2>1. \A a, b \in DOMAIN q[k] : q[k][a].id = q[k][b].id => a = b \/ q[k][a].id \in except
    BY <1>10 DEF DistinctIds
  <2>2. \A a, b \in DOMAIN t : t[a].id = t[b].id => a = b \/ t[a].id \in except
    BY <1>4, <2>1
  <2>3. DistinctIds(r, except)
    BY <1>2, <1>10, <2>2 DEF DistinctIds
  <2>4. \A i \in DOMAIN t : t[i].id = Last(q[k]).id => Last(q[k]).id \in except
    BY <1>4, <2>1
  <2>5. QED
    BY <1>2, <2>3, <2>4
<1>11. IdsOf(q) = IdsOf(r) \union {Last(q[k]).id}
  BY <1>7, <1>8, <1>9
<1>12. \E i \in DOMAIN q[k] : Last(q[k]) = q[k][i]
  BY <1>4
<1>13. \A i \in DOMAIN r[k] : i \in DOMAIN q[k] /\ r[k][i] = q[k][i]
  BY <1>2, <1>4
<1>14. QED
  BY <1>2, <1>3, <1>5, <1>6, <1>10, <1>11, <1>12, <1>13

-----------------------------------------------------------------------------
(* LoadedOnce of the next state, one part at a time. *)
LEMMA LoadedOnceNext ==
  ASSUME \A j \in Job :
           \/ status'[j] \in {"unborn", "paused", "blocked"}
           \/ status'[j] = "queued" /\ j \notin known'
           \/ pc' = "down"
           => j \in unchecked' \union misfiled' \/ failures'[j] = 0,
         \A a \in DOMAIN todo' :
           \/ pc' = "loadQueued" /\ todo'[a] \notin known'
           \/ pc' = "loadBlocked"
           => todo'[a] \in unchecked' \union misfiled' \/ failures'[todo'[a]] = 0
  PROVE  LoadedOnce'
BY DEF LoadedOnce, Untried

LEMMA InitHostInv == Init => HostInv
<1> SUFFICES ASSUME Init PROVE HostInv
  OBVIOUS
<1>1. Waiting = {}
  BY DEF Init, Waiting, IdsOf
<1>2. TypeOK
  <2>1. queues \in [Kind -> Seq(IndexJob)]
    BY EmptySeq DEF Init
  <2>2. \A k \in Kind : Len(queues[k]) <= Capacity[k]
    BY HostAssumption, EmptySeq DEF Init
  <2>3. sourceOf \in [Job -> Source]
    BY HostAssumption DEF Init
  <2>4. kindOf \in [Job -> Kind] /\ todo \in Seq(Job) /\ failures \in [Job -> Nat]
    BY EmptySeq DEF Init, Kind
  <2>5. QED
    BY <2>1, <2>2, <2>3, <2>4 DEF Init, TypeOK, Status, Mode
<1>3. CopiesSound /\ ListSound /\ RunningRowSound /\ RetryHasRoom
  BY DEF Init, CopiesSound, ListSound, RunningRowSound, RetryHasRoom
<1>4. OneCopyPerRow
  BY <1>1 DEF Init, OneCopyPerRow, DistinctIds
<1>5. NoQueuedRowOrphaned
  BY <1>1 DEF Init, NoQueuedRowOrphaned
<1>6. AttemptsBounded
  BY HostAssumption DEF Init, AttemptsBounded
<1>7. LoadedOnce
  BY DEF Init, LoadedOnce, Untried
<1>8. ModeSound /\ NothingWhileDown /\ EmbeddingYields /\ TrimSparesChunking
  BY DEF Init, ModeSound, NothingWhileDown, EmbeddingYields, TrimSparesChunking
<1>9. QED
  BY <1>2, <1>3, <1>4, <1>5, <1>6, <1>7, <1>8 DEF HostInv

(* A row appears that the loop has no copy of. *)
LEMMA InsertKeepsInv ==
  ASSUME HostInv, NEW j \in Job, NEW k \in Kind, NEW s \in Source, Insert(j, k, s),
         pc = "trim" => k \notin {"chunk", "keyword"},
         UNCHANGED <<memoryVars, pc, historyVars>>
  PROVE  HostInv'
<1> USE DEF HostInv, memoryVars, historyVars
<1>1. /\ status[j] = "unborn" /\ status' = [status EXCEPT ![j] = "queued"]
      /\ kindOf' = [kindOf EXCEPT ![j] = k]
      /\ sourceOf' = [sourceOf EXCEPT ![j] = s]
      /\ live' = live
  BY DEF Insert, NextRow
<1>2. Waiting' = Waiting /\ InHand' = InHand
  BY DEF Waiting, InHand
<1>3. TypeOK'
  BY <1>1 DEF TypeOK, Status
<1>4. CopiesSound'
  BY <1>1 DEF CopiesSound, CopyOf, TypeOK
<1>5. ListSound'
  BY <1>1, <1>2 DEF ListSound, TypeOK
<1>6. RunningRowSound' /\ RetryHasRoom' /\ AttemptsBounded'
  BY <1>1 DEF RunningRowSound, RetryHasRoom, AttemptsBounded, TypeOK
<1>7. OneCopyPerRow'
  BY <1>1, <1>2 DEF OneCopyPerRow, TypeOK
<1>8. NoQueuedRowOrphaned'
  BY <1>1, <1>2 DEF NoQueuedRowOrphaned, CopiesSound, TypeOK
<1>9. ModeSound' /\ NothingWhileDown' /\ EmbeddingYields' 
  BY DEF ModeSound, NothingWhileDown, EmbeddingYields
<1>10. TrimSparesChunking'
  BY <1>1 DEF TrimSparesChunking, TypeOK
<1>11. LoadedOnce'
  BY <1>1 DEF LoadedOnce, Untried, TypeOK
<1>12. QED
  BY <1>3, <1>4, <1>5, <1>6, <1>7, <1>8, <1>9, <1>10, <1>11

(* Rows go, whatever the loop holds of them. *)
LEMMA DeletionKeepsInv ==
  ASSUME HostInv, NEW gone \in SUBSET Job,
         \A j \in gone : status[j] # "unborn",
         status' = [j \in Job |-> IF j \in gone THEN "gone" ELSE status[j]],
         live' \subseteq live, UNCHANGED <<kindOf, sourceOf, memoryVars, pc, historyVars>>
  PROVE  HostInv'
<1> USE DEF HostInv, memoryVars, historyVars
<1>1. Waiting' = Waiting /\ InHand' = InHand
  BY DEF Waiting, InHand
<1>2. TypeOK'
  BY DEF TypeOK, Status
<1>3. CopiesSound'
  <2>1. \A j \in Job : status[j] # "unborn" => status'[j] # "unborn"
    OBVIOUS
  <2>2. \A copy \in IndexJob : \A k \in Kind : CopyOf(copy, k) => CopyOf(copy, k)'
    BY <2>1 DEF CopyOf, IndexJob
  <2>3. \A k \in Kind : \A i \in DOMAIN queues[k] : queues[k][i] \in IndexJob
    BY LenProperties, ElementOfSeq DEF TypeOK
  <2>4. pc \in {"check", "run"} => cur \in IndexJob /\ cur.kind \in Kind
    BY DEF TypeOK, IndexJob
  <2>5. QED
    BY <2>1, <2>2, <2>3, <2>4 DEF CopiesSound, TypeOK
<1>4. ListSound'
  BY <1>1 DEF ListSound, TypeOK
<1>5. RunningRowSound' /\ RetryHasRoom' /\ AttemptsBounded'
  BY DEF RunningRowSound, RetryHasRoom, AttemptsBounded, TypeOK, IndexJob
<1>6. OneCopyPerRow'
  BY <1>1 DEF OneCopyPerRow, TypeOK
<1>7. NoQueuedRowOrphaned'
  BY <1>1 DEF NoQueuedRowOrphaned, TypeOK
<1>8. ModeSound' /\ NothingWhileDown' /\ EmbeddingYields'
  BY DEF ModeSound, NothingWhileDown, EmbeddingYields
<1>9. TrimSparesChunking'
  BY DEF TrimSparesChunking, TypeOK, Unfinished
<1>10. LoadedOnce'
  BY DEF LoadedOnce, Untried, TypeOK
<1>11. QED
  BY <1>2, <1>3, <1>4, <1>5, <1>6, <1>7, <1>8, <1>9, <1>10

LEMMA WindowKeepsInv == HostInv /\ Window => HostInv'
<1> SUFFICES ASSUME HostInv, Window PROVE HostInv'
  OBVIOUS
<1>1. ASSUME NEW j \in Job, NEW k \in Kind, NEW s \in Source, WindowQueues(j, k, s)
      PROVE  HostInv'
  <2>1. k \notin {"chunk", "keyword"}
    BY <1>1, HostAssumption DEF WindowQueues
  <2>2. QED
    BY <1>1, <2>1, InsertKeepsInv DEF WindowQueues
<1>2. ASSUME NEW s \in Source, WindowRemovesSource(s) PROVE HostInv'
  <2> DEFINE gone == {j \in Job : status[j] # "unborn" /\ sourceOf[j] = s}
  <2>1. status' = [j \in Job |-> IF j \in gone THEN "gone" ELSE status[j]]
    BY <1>2 DEF WindowRemovesSource
  <2>2. live' \subseteq live /\ UNCHANGED <<kindOf, sourceOf, memoryVars, pc, historyVars>>
    BY <1>2 DEF WindowRemovesSource
  <2>3. gone \in SUBSET Job /\ \A j \in gone : status[j] # "unborn"
    OBVIOUS
  <2> HIDE DEF gone
  <2>4. QED
    BY <2>1, <2>2, <2>3, DeletionKeepsInv
<1>3. ASSUME NEW j \in Job, FileErased(j) PROVE HostInv'
  <2>1. status' = [i \in Job |-> IF i \in {j} THEN "gone" ELSE status[i]]
    BY <1>3 DEF FileErased, HostInv, TypeOK
  <2>2. live' \subseteq live /\ UNCHANGED <<kindOf, sourceOf, memoryVars, pc, historyVars>>
    BY <1>3 DEF FileErased
  <2>3. {j} \in SUBSET Job /\ \A i \in {j} : status[i] # "unborn"
    BY <1>3 DEF FileErased
  <2>4. QED
    BY <2>1, <2>2, <2>3, DeletionKeepsInv
<1>4. QED
  BY <1>1, <1>2, <1>3 DEF Window

-----------------------------------------------------------------------------
(* The steps of the loop that leave the queues alone *)

LEMMA StartKeepsInv ==
  ASSUME HostInv, NEW enabled \in BOOLEAN, Start(enabled)
  PROVE  HostInv'
<1> USE DEF HostInv
<1>1. Waiting' = Waiting /\ InHand' = {} /\ InHand = {}
  BY DEF Start, ResumeOrPause, Waiting, InHand
<1>2. /\ status' \in [Job -> Status]
      /\ \A j \in Job : status'[j] = "unborn" <=> status[j] = "unborn"
      /\ \A j \in Job : status'[j] = "blocked" <=> status[j] = "blocked"
  BY DEF Start, ResumeOrPause, MayFail, TypeOK, Status
<1>3. known = {} /\ pc = "down" /\ pc' = "top" /\ mode' \in {"Normal", "Paused"}
  BY DEF Start, ResumeOrPause, NothingWhileDown
<1>4. TypeOK'
  BY <1>2, <1>3 DEF Start, ResumeOrPause, TypeOK, Mode, historyVars, NoJob
<1>5. CopiesSound'
  <2>1. \A copy \in IndexJob : \A k \in Kind : CopyOf(copy, k) => CopyOf(copy, k)'
    BY <1>2 DEF Start, ResumeOrPause, CopyOf, IndexJob, historyVars
  <2>2. \A k \in Kind : \A i \in DOMAIN queues[k] : queues[k][i] \in IndexJob
    BY LenProperties, ElementOfSeq DEF TypeOK
  <2>3. QED
    BY <1>3, <2>1, <2>2 DEF Start, ResumeOrPause, CopiesSound, TypeOK
<1>6. ListSound' /\ RunningRowSound' /\ RetryHasRoom' /\ AttemptsBounded'
  BY <1>3 DEF Start, ResumeOrPause, historyVars, ListSound, RunningRowSound, RetryHasRoom, AttemptsBounded
<1>7. OneCopyPerRow'
  BY <1>1, <1>2 DEF Start, ResumeOrPause, historyVars, OneCopyPerRow
<1>8. NoQueuedRowOrphaned'
  BY <1>3 DEF Start, ResumeOrPause, NoQueuedRowOrphaned
<1>9. ModeSound' /\ NothingWhileDown' /\ EmbeddingYields' /\ TrimSparesChunking'
  BY <1>3 DEF ModeSound, NothingWhileDown, EmbeddingYields, TrimSparesChunking
<1>10. LoadedOnce'
  BY <1>3 DEF Start, ResumeOrPause, historyVars, LoadedOnce, Untried
<1>11. QED
  BY <1>4, <1>5, <1>6, <1>7, <1>8, <1>9, <1>10

LEMMA StopKeepsInv == HostInv /\ Stop => HostInv'
<1> SUFFICES ASSUME HostInv, Stop PROVE HostInv'
  OBVIOUS
<1> USE DEF HostInv
<1>1. /\ pc' = "down" /\ known' = {} /\ mode' = "Normal" /\ cur' = NoJob /\ todo' = <<>>
      /\ queues' = [k \in Kind |-> <<>>]
      /\ UNCHANGED <<status, kindOf, sourceOf, live>>
      /\ failures' = [j \in Job |-> 0]
      /\ unrecorded' = {} /\ misfiled' = {} /\ unchecked' = {}
      /\ userActive' = FALSE /\ onBattery' = FALSE /\ trimmed' = FALSE
  BY DEF Stop, catalogVars
<1>2. Waiting' = {} /\ InHand' = {}
  BY <1>1 DEF Waiting, InHand, IdsOf
<1>3. TypeOK'
  <2>1. queues' \in [Kind -> Seq(IndexJob)] /\ todo' \in Seq(Job)
    BY <1>1, EmptySeq
  <2>2. \A k \in Kind : Len(queues'[k]) <= Capacity[k]
    BY <1>1, HostAssumption, EmptySeq
  <2>3. QED
    BY <1>1, <2>1, <2>2 DEF TypeOK, Mode
<1>4. CopiesSound' /\ ListSound' /\ RunningRowSound' /\ RetryHasRoom'
  BY <1>1 DEF CopiesSound, ListSound, RunningRowSound, RetryHasRoom
<1>5. OneCopyPerRow'
  BY <1>1, <1>2 DEF OneCopyPerRow, DistinctIds
<1>6. NoQueuedRowOrphaned'
  BY <1>1 DEF NoQueuedRowOrphaned
<1>7. AttemptsBounded' /\ LoadedOnce'
  BY <1>1, HostAssumption DEF AttemptsBounded, LoadedOnce, Untried
<1>8. ModeSound' /\ NothingWhileDown' /\ EmbeddingYields' /\ TrimSparesChunking'
  BY <1>1 DEF ModeSound, NothingWhileDown, EmbeddingYields, TrimSparesChunking
<1>9. QED
  BY <1>3, <1>4, <1>5, <1>6, <1>7, <1>8

LEMMA ObserveKeepsInv == HostInv /\ Observe => HostInv'
<1> SUFFICES ASSUME HostInv, Observe PROVE HostInv'
  OBVIOUS
<1> USE DEF HostInv
<1>1. /\ pc = "top" /\ pc' = "tick"
      /\ mode' = DerivedMode(userActive', onBattery' /\ PauseOnBattery)
      /\ UNCHANGED <<status, kindOf, sourceOf, live, queues, known, cur, todo, trimmed,
                     failures, unrecorded, misfiled, unchecked>>
  BY DEF Observe, catalogVars, historyVars
<1>2. userActive' \in BOOLEAN /\ onBattery' \in BOOLEAN
  BY HostAssumption DEF Observe
<1>3. mode' \in Mode /\ ModeSound'
  BY <1>1, <1>2, HostAssumption DEF DerivedMode, Mode, ModeSound
<1>4. Waiting' = Waiting /\ InHand' = InHand
  BY <1>1 DEF Waiting, InHand
<1>5. TypeOK'
  BY <1>1, <1>2, <1>3 DEF TypeOK
<1>6. CopiesSound' /\ ListSound' /\ RunningRowSound' /\ RetryHasRoom' /\ AttemptsBounded'
      /\ LoadedOnce'
  BY <1>1 DEF CopiesSound, CopyOf, ListSound, RunningRowSound, RetryHasRoom, AttemptsBounded,
                   LoadedOnce, Untried
<1>7. OneCopyPerRow' /\ NoQueuedRowOrphaned'
  BY <1>1, <1>4 DEF OneCopyPerRow, NoQueuedRowOrphaned
<1>8. NothingWhileDown' /\ EmbeddingYields' /\ TrimSparesChunking'
  BY <1>1 DEF NothingWhileDown, EmbeddingYields, TrimSparesChunking
<1>9. QED
  BY <1>3, <1>5, <1>6, <1>7, <1>8

(* The lists rehydrate reads are lists of rows, none of them twice. *)
LEMMA ListingsProperties ==
  ASSUME NEW s, NEW list \in Listings(s)
  PROVE  /\ list \in Seq(Job)
         /\ \A a, b \in DOMAIN list : list[a] = list[b] => a = b
         /\ \A a \in DOMAIN list : list[a] \in Job /\ status[list[a]] = s
<1> DEFINE rows == RowsWith(s)
           n    == Cardinality(rows)
<1>1. rows \subseteq Job
  BY DEF RowsWith
<1>2. n \in Nat
  <2>1. IsFiniteSet(Job)
    BY HostAssumption, FS_Interval DEF Job
  <2>2. IsFiniteSet(rows)
    BY <1>1, <2>1, FS_Subset
  <2>3. QED
    BY <2>2, FS_CardinalityType
<1>3. /\ list \in [1 .. n -> rows]
      /\ \A a, b \in DOMAIN list : a < b => list[a] < list[b]
  BY DEF Listings
<1>4. \A a \in DOMAIN list : list[a] \in Job /\ status[list[a]] = s
  BY <1>1, <1>3 DEF RowsWith
<1> HIDE DEF rows, n
<1>5. list \in Seq(Job)
  BY <1>1, <1>2, <1>3
<1>6. ASSUME NEW a \in DOMAIN list, NEW b \in DOMAIN list, list[a] = list[b]
      PROVE  a = b
  <2>1. a \in Int /\ b \in Int /\ list[a] \in Int /\ list[b] \in Int
    BY <1>1, <1>2, <1>3, <1>4, HostAssumption DEF Job
  <2>2. ~(a < b) /\ ~(b < a)
    BY <1>3, <1>6, <2>1
  <2>3. QED
    BY <2>1, <2>2
<1>7. QED
  BY <1>4, <1>5, <1>6

(* The steps that only move the loop along, with a fresh list or none. *)
LEMMA ControlKeepsInv ==
  ASSUME HostInv, UNCHANGED <<catalogVars, queues, known, mode, userActive, onBattery,
                              cur, failures, unrecorded, misfiled, unchecked>>,
         trimmed' \in BOOLEAN, todo' \in Seq(Job),
         pc \notin {"down", "check", "run"},
         pc' \in {"top", "loadQueued", "loadBlocked", "retick", "trim"},
         pc' \in {"loadQueued", "loadBlocked", "retick"} => pc \in {"tick", "loadQueued", "loadBlocked"},
         pc' \in {"loadQueued", "loadBlocked"} =>
           \A a, b \in DOMAIN todo' : todo'[a] = todo'[b] => a = b,
         pc' = "loadQueued" => \A a \in DOMAIN todo' : status[todo'[a]] = "queued",
         pc' = "loadBlocked" => \A a \in DOMAIN todo' : todo'[a] \in Job /\ status[todo'[a]] = "blocked",
         pc' = "trim" => \A j \in Job : status[j] \notin Unfinished
  PROVE  HostInv'
<1> USE DEF HostInv, catalogVars
<1>1. Waiting' = Waiting /\ InHand' = {} /\ InHand = {}
  BY DEF Waiting, InHand
<1>2. TypeOK'
  BY DEF TypeOK
<1>3. CopiesSound'
  BY DEF CopiesSound, CopyOf
<1>4. ListSound'
  BY <1>1 DEF ListSound, OneCopyPerRow
<1>5. RunningRowSound' /\ RetryHasRoom' /\ AttemptsBounded'
  BY DEF RunningRowSound, RetryHasRoom, AttemptsBounded
<1>6. OneCopyPerRow' /\ NoQueuedRowOrphaned'
  BY <1>1 DEF OneCopyPerRow, NoQueuedRowOrphaned
<1>7. ModeSound' /\ NothingWhileDown' /\ EmbeddingYields' /\ TrimSparesChunking'
  BY DEF ModeSound, NothingWhileDown, EmbeddingYields, TrimSparesChunking
<1>8. LoadedOnce'
  <2>1. \A a \in DOMAIN todo' : todo'[a] \in Job
    BY LenProperties, ElementOfSeq
  <2>2. QED
    BY <2>1 DEF LoadedOnce, Untried
<1>9. QED
  BY <1>2, <1>3, <1>4, <1>5, <1>6, <1>7, <1>8

LEMMA MoveOnKeepsInv ==
  ASSUME HostInv,
         \/ TickFindsNothing \/ QueuedRowsDone \/ BlockedRowsDone
         \/ FindIdle \/ TrimExtractionCache
  PROVE  HostInv'
<1> USE DEF historyVars, memoryVars
<1>1. todo \in Seq(Job) /\ trimmed \in BOOLEAN
  BY DEF HostInv, TypeOK
<1>2. CASE TickFindsNothing
  <2>1. todo' \in Seq(Job)
    BY <1>1, <1>2, ListingsProperties DEF TickFindsNothing
  <2>2. pc' = "loadQueued" => /\ \A a, b \in DOMAIN todo' : todo'[a] = todo'[b] => a = b
                              /\ \A a \in DOMAIN todo' : status[todo'[a]] = "queued"
    BY <1>2, ListingsProperties DEF TickFindsNothing
  <2>3. QED
    BY <1>1, <1>2, <2>1, <2>2, ControlKeepsInv DEF TickFindsNothing
<1>3. CASE QueuedRowsDone
  <2>1. todo' \in Seq(Job)
    BY <1>1, <1>3, ListingsProperties DEF QueuedRowsDone, BlockedRows
  <2>2. pc' = "loadBlocked" => /\ \A a, b \in DOMAIN todo' : todo'[a] = todo'[b] => a = b
                               /\ \A a \in DOMAIN todo' : todo'[a] \in Job /\ status[todo'[a]] = "blocked"
    BY <1>3, ListingsProperties DEF QueuedRowsDone, BlockedRows
  <2>3. QED
    BY <1>1, <1>3, <2>1, <2>2, ControlKeepsInv DEF QueuedRowsDone
<1>4. CASE BlockedRowsDone
  BY <1>1, <1>4, ControlKeepsInv DEF BlockedRowsDone
<1>5. CASE FindIdle
  BY <1>1, <1>5, ControlKeepsInv, EmptySeq DEF FindIdle, IndexingIsIdle
<1>6. CASE TrimExtractionCache
  BY <1>1, <1>6, ControlKeepsInv DEF TrimExtractionCache
<1>7. QED
  BY <1>2, <1>3, <1>4, <1>5, <1>6

-----------------------------------------------------------------------------
(* The job in hand *)

(* What the invariant says of the job in hand. *)
LEMMA InHandFacts ==
  ASSUME HostInv, pc \in {"check", "run"}
  PROVE  /\ cur \in IndexJob /\ cur.id \in Job /\ cur.kind \in Kind /\ cur.source \in Source
         /\ cur.priority \in Priority /\ cur.attempts \in 0 .. MaxAttempts
         /\ CopyOf(cur, cur.kind)
         /\ cur.id \in misfiled \/ cur.id \notin Waiting
BY DEF HostInv, TypeOK, IndexJob, CopiesSound, OneCopyPerRow, InHand

(* Copies in the queues are jobs. *)
LEMMA QueuedFacts ==
  ASSUME HostInv, NEW k \in Kind, NEW i \in DOMAIN queues[k]
  PROVE  /\ queues[k][i] \in IndexJob /\ queues[k][i].id \in Job
         /\ queues[k][i].id \in Waiting /\ CopyOf(queues[k][i], k)
<1>1. queues[k] \in Seq(IndexJob)
  BY DEF HostInv, TypeOK
<1>2. queues[k][i] \in IndexJob
  BY <1>1, LenProperties, ElementOfSeq
<1>3. queues[k][i].id \in Job
  BY <1>2 DEF IndexJob
<1>4. QED
  BY <1>2, <1>3, IdsOfMember DEF HostInv, CopiesSound, Waiting

LEMMA DispatchKeepsInv == HostInv /\ Dispatch => HostInv'
<1> SUFFICES ASSUME HostInv, Dispatch PROVE HostInv'
  OBVIOUS
<1> USE DEF HostInv
<1>1. /\ pc = "check" /\ pc' = "run" /\ status[cur.id] = "queued"
      /\ UNCHANGED <<status, kindOf, sourceOf, live, queues, known, mode, userActive,
                     onBattery, cur, todo, trimmed, failures, unrecorded, misfiled, unchecked>>
  BY DEF Dispatch, catalogVars, memoryVars, historyVars
<1>2. Waiting' = Waiting /\ InHand' = InHand
  BY <1>1 DEF Waiting, InHand
<1>3. TypeOK'
  BY <1>1 DEF TypeOK
<1>4. CopiesSound' /\ ListSound' /\ RunningRowSound' /\ RetryHasRoom' /\ AttemptsBounded'
      /\ LoadedOnce'
  BY <1>1 DEF CopiesSound, CopyOf, ListSound, RunningRowSound, RetryHasRoom, AttemptsBounded,
                   LoadedOnce, Untried
<1>5. OneCopyPerRow' /\ NoQueuedRowOrphaned'
  BY <1>1, <1>2 DEF OneCopyPerRow, NoQueuedRowOrphaned
<1>6. ModeSound' /\ NothingWhileDown' /\ EmbeddingYields' /\ TrimSparesChunking'
  BY <1>1 DEF ModeSound, NothingWhileDown, EmbeddingYields, TrimSparesChunking
<1>7. QED
  BY <1>3, <1>4, <1>5, <1>6

(* The job in hand is let go of: skipped, or run to an end that is not     *)
(* tried again.  Its row may be set to s, its id forgotten, a failure      *)
(* counted; a row left queued is either noted as unchecked and forgotten,  *)
(* or noted as unrecorded.                                                 *)
LEMMA LetGoKeepsInv ==
  ASSUME HostInv, pc \in {"check", "run"}, pc' = "top", cur' = NoJob,
         UNCHANGED <<kindOf, sourceOf, live, queues, mode, userActive, onBattery,
                     todo, trimmed, misfiled>>,
         NEW s \in {"succeeded", "failed"}, SetStatus(cur.id, s) \/ UNCHANGED status,
         known' = known \/ known' = known \ {cur.id},
         unrecorded' = unrecorded \/ unrecorded' = unrecorded \union {cur.id},
         unchecked' = unchecked \/ unchecked' = unchecked \union {cur.id},
         UNCHANGED failures \/ (pc = "run" /\ CountFailure),
         \/ status'[cur.id] # "queued"
         \/ cur.id \notin known' /\ cur.id \in unchecked'
         \/ cur.id \in unrecorded' /\ known' = known
  PROVE  HostInv'
<1> USE DEF HostInv
<1>1. /\ cur.id \in Job /\ CopyOf(cur, cur.kind)
      /\ cur.id \in misfiled \/ cur.id \notin Waiting
  BY InHandFacts
<1>2. Waiting' = Waiting /\ InHand' = {} /\ InHand = {cur.id}
  BY DEF Waiting, InHand
<1>3. /\ status' \in [Job -> Status]
      /\ \A j \in Job : status'[j] = "unborn" <=> status[j] = "unborn"
      /\ \A j \in Job : status'[j] = "blocked" => status[j] = "blocked"
      /\ \A j \in Job : status'[j] = "queued" => status[j] = "queued"
      /\ \A j \in Job \ {cur.id} : status'[j] = status[j]
      /\ status'[cur.id] \in {"unborn", "paused", "blocked"} => status'[cur.id] = status[cur.id]
  BY <1>1 DEF SetStatus, TypeOK, Status, CopyOf
<1>4. /\ failures' \in [Job -> Nat]
      /\ \A j \in Job \ {cur.id} : failures'[j] = failures[j]
      /\ failures'[cur.id] \in {failures[cur.id], failures[cur.id] + 1}
  BY <1>1 DEF CountFailure, TypeOK
<1>5. TypeOK'
  BY <1>1, <1>3, <1>4 DEF TypeOK
<1>6. CopiesSound'
  <2>1. ASSUME NEW k \in Kind, NEW i \in DOMAIN queues[k] PROVE CopyOf(queues[k][i], k)'
    <3>1. /\ queues[k][i].id \in Job /\ queues[k][i].id \in Waiting
          /\ CopyOf(queues[k][i], k)
      BY QueuedFacts
    <3>2. CASE queues[k][i].id = cur.id
      BY <1>1, <1>3, <3>1, <3>2 DEF CopyOf
    <3>3. CASE queues[k][i].id # cur.id
      BY <1>1, <1>3, <1>4, <3>1, <3>3 DEF CopyOf
    <3>4. QED
      BY <3>2, <3>3
  <2>2. \A j \in known' : status'[j] # "unborn"
    BY <1>3 DEF CopiesSound, TypeOK
  <2>3. QED
    BY <2>1, <2>2 DEF CopiesSound
<1>7. ListSound' /\ RunningRowSound' /\ RetryHasRoom'
  BY DEF ListSound, RunningRowSound, RetryHasRoom
<1>8. OneCopyPerRow'
  BY <1>2, <1>3 DEF OneCopyPerRow
<1>9. NoQueuedRowOrphaned'
  BY <1>2, <1>3 DEF NoQueuedRowOrphaned
<1>10. AttemptsBounded'
  <2>1. cur.id \notin unchecked \union misfiled => failures[cur.id] + 1 <= MaxAttempts
    BY <1>1, InHandFacts, HostAssumption DEF CopyOf
  <2>2. failures[cur.id] \in Nat
    BY <1>1 DEF TypeOK
  <2>3. QED
    BY <1>4, <2>1, <2>2, HostAssumption DEF AttemptsBounded
<1>11. ModeSound' /\ NothingWhileDown' /\ EmbeddingYields' /\ TrimSparesChunking'
  BY DEF ModeSound, NothingWhileDown, EmbeddingYields, TrimSparesChunking
<1>12. LoadedOnce'
  <2>1. \A j \in Job \ {cur.id} : Untried(j) => Untried(j)'
    BY <1>4 DEF Untried
  <2> DEFINE Fresh(j) == j \in unchecked' \union misfiled \/ failures'[j] = 0
  <2>2. ASSUME status'[cur.id] \in {"unborn", "paused", "blocked"}
        PROVE  Fresh(cur.id)
    <3>1. UNCHANGED failures
      BY <1>3, <2>2 DEF RunningRowSound
    <3>2. Untried(cur.id)
      BY <1>1, <1>3, <2>2 DEF LoadedOnce
    <3>3. QED
      BY <3>1, <3>2 DEF Untried
  <2>3. ASSUME status'[cur.id] = "queued", cur.id \notin known'
        PROVE  Fresh(cur.id)
    BY <1>1, <2>3 DEF CopyOf
  <2>4. \A j \in Job : Untried(j)' <=> Fresh(j)
    BY DEF Untried
  <2> HIDE DEF Fresh
  <2>5. \A j \in Job : \/ status'[j] \in {"unborn", "paused", "blocked"}
                       \/ status'[j] = "queued" /\ j \notin known'
                       => Fresh(j)
    <3>1. ASSUME NEW j \in Job \ {cur.id},
                 \/ status'[j] \in {"unborn", "paused", "blocked"}
                 \/ status'[j] = "queued" /\ j \notin known'
          PROVE  Untried(j)
      BY <1>3, <3>1 DEF LoadedOnce
    <3>2. QED
      BY <2>1, <2>2, <2>3, <2>4, <3>1
  <2>6. pc' \notin {"down", "loadQueued", "loadBlocked"}
    OBVIOUS
  <2>7. \A i \in Job : \/ status'[i] \in {"unborn", "paused", "blocked"}
                       \/ status'[i] = "queued" /\ i \notin known'
                       \/ pc' = "down"
                       => i \in unchecked' \union misfiled' \/ failures'[i] = 0
    BY <2>5, <2>6 DEF Fresh
  <2>8. \A a \in DOMAIN todo' : \/ pc' = "loadQueued" /\ todo'[a] \notin known'
                                \/ pc' = "loadBlocked"
                                => todo'[a] \in unchecked' \union misfiled' \/ failures'[todo'[a]] = 0
    BY <2>6
  <2>9. QED
    BY <2>7, <2>8, LoadedOnceNext
<1>13. QED
  BY <1>5, <1>6, <1>7, <1>8, <1>9, <1>10, <1>11, <1>12

LEMMA EndKeepsInv == HostInv /\ (SkipStale \/ Complete \/ FailForGood) => HostInv'
<1> SUFFICES ASSUME HostInv, SkipStale \/ Complete \/ FailForGood PROVE HostInv'
  OBVIOUS
<1> USE DEF historyVars, catalogVars
<1>1. CASE SkipStale
  <2>1. /\ pc = "check" /\ pc' = "top" /\ cur' = NoJob /\ known' = known \ {cur.id}
        /\ UNCHANGED <<status, kindOf, sourceOf, live, queues, mode, userActive, onBattery,
                       todo, trimmed, failures, unrecorded, misfiled>>
        /\ \/ status[cur.id] # "queued" /\ unchecked' = unchecked
           \/ unchecked' = unchecked \union {cur.id}
    BY <1>1 DEF SkipStale, Forget
  <2>2. QED
    BY <2>1, LetGoKeepsInv
<1>2. CASE Complete
  <2>1. cur.id \in Job /\ status \in [Job -> Status]
    BY <1>2, InHandFacts DEF Complete, HostInv, TypeOK
  <2>2. SetStatus(cur.id, "succeeded") => status'[cur.id] # "queued"
    BY <2>1 DEF SetStatus
  <2>3. /\ pc = "run" /\ pc' = "top" /\ cur' = NoJob
        /\ UNCHANGED <<kindOf, sourceOf, live, queues, mode, userActive, onBattery,
                       todo, trimmed, failures, misfiled, unchecked>>
        /\ \/ /\ SetStatus(cur.id, "succeeded") /\ known' = known \ {cur.id}
              /\ UNCHANGED unrecorded
           \/ /\ UNCHANGED <<status, known>>
              /\ unrecorded' = unrecorded \union {cur.id}
    BY <1>2 DEF Complete, Forget, KeepKnown, MayFail
  <2>4. QED
    BY <2>2, <2>3, LetGoKeepsInv
<1>3. CASE FailForGood
  <2>1. cur.id \in Job /\ status \in [Job -> Status]
    BY <1>3, InHandFacts DEF FailForGood, HostInv, TypeOK
  <2>2. SetStatus(cur.id, "failed") => status'[cur.id] # "queued"
    BY <2>1 DEF SetStatus
  <2>3. QED
    BY <1>3, <2>2, LetGoKeepsInv DEF FailForGood, KeepKnown, MayFail
<1>4. QED
  BY <1>1, <1>2, <1>3

-----------------------------------------------------------------------------
(* The steps that take a job out of the queues and put one in *)

LEMMA TakeKeepsInv ==
  ASSUME HostInv, TakeNext, pc \in {"tick", "retick"}, pc' = "check",
         UNCHANGED <<catalogVars, known, mode, userActive, onBattery, historyVars>>,
         trimmed' \in BOOLEAN, todo' \in Seq(Job)
  PROVE  HostInv'
<1> USE DEF HostInv, catalogVars, historyVars
<1>1. PICK k \in Kind : /\ IsNextKind(queues, mode, k)
                        /\ cur' = Last(queues[k])
                        /\ queues' = Popped(queues, k)
  BY DEF TakeNext
<1>2. /\ queues[k] # <<>> /\ mode # "Paused"
      /\ k = "embedding" => mode \notin {"UserActive", "LowImpact"}
  BY <1>1 DEF IsNextKind, Servable, YieldingModes
<1>3. queues \in [Kind -> Seq(IndexJob)]
  BY DEF TypeOK
<1>4. PICK n \in DOMAIN queues[k] : cur' = queues[k][n]
  BY <1>1, <1>2, <1>3, PopProperties
<1>5. /\ cur' \in IndexJob /\ cur'.id \in Job /\ CopyOf(cur', k) /\ cur'.kind = k
  BY <1>4, QueuedFacts DEF CopyOf
<1>6. /\ queues' \in [Kind -> Seq(IndexJob)]
      /\ \A other \in Kind \ {k} : queues'[other] = queues[other]
      /\ \A i \in DOMAIN queues'[k] : i \in DOMAIN queues[k] /\ queues'[k][i] = queues[k][i]
  BY <1>1, <1>2, <1>3, PopProperties, SMTT(30)
<1>7. Len(queues'[k]) = Len(queues[k]) - 1 /\ Len(queues[k]) \in Nat
  BY <1>1, <1>2, <1>3, PopProperties, LenProperties, SMTT(30)
<1>8. Waiting = Waiting' \union {cur'.id} /\ InHand = {} /\ InHand' = {cur'.id}
  BY <1>1, <1>2, <1>3, PopProperties, SMTT(15), ZenonT(30) DEF Waiting, InHand
<1>9. TypeOK'
  <2>1. Len(queues[k]) <= Capacity[k] /\ Capacity[k] \in Nat
    BY HostAssumption DEF TypeOK
  <2>2. Len(queues'[k]) <= Capacity[k]
    BY <1>7, <2>1
  <2>3. QED
    BY <1>5, <1>6, <2>2 DEF TypeOK
<1>10. CopiesSound'
  <2>1. ASSUME NEW c \in Kind, NEW i \in DOMAIN queues'[c] PROVE CopyOf(queues[c][i], c)'
    <3>1. i \in DOMAIN queues[c] /\ queues'[c][i] = queues[c][i]
      BY <1>6, <2>1
    <3>2. CopyOf(queues[c][i], c)
      BY <3>1, QueuedFacts
    <3>3. QED
      BY <3>1, <3>2 DEF CopyOf
  <2>2. QED
    BY <1>5, <2>1 DEF CopiesSound, CopyOf
<1>11. OneCopyPerRow'
  <2>1. DistinctIds(queues, misfiled)
    BY DEF OneCopyPerRow
  <2>2. /\ DistinctIds(queues', misfiled)
        /\ \A i \in DOMAIN queues'[k] : queues'[k][i].id = cur'.id => cur'.id \in misfiled
    BY <1>1, <1>2, <1>3, <2>1, PopProperties
  <2>3. \A c \in Kind \ {k} : \A i \in DOMAIN queues'[c] : queues'[c][i].id # cur'.id
    BY <1>5, <1>6, QueuedFacts, SMTT(30) DEF CopyOf
  <2>4. cur'.id \in Waiting' => cur'.id \in misfiled
    BY <2>2, <2>3, IdsOfMember DEF Waiting
  <2>5. QED
    BY <1>8, <2>2, <2>4 DEF OneCopyPerRow
<1>12. NoQueuedRowOrphaned'
  BY <1>8 DEF NoQueuedRowOrphaned
<1>13. RetryHasRoom'
  BY <1>5, <1>7, HostAssumption DEF RetryHasRoom, TypeOK
<1>14. ListSound' /\ RunningRowSound' /\ AttemptsBounded' /\ LoadedOnce'
  BY DEF ListSound, RunningRowSound, AttemptsBounded, LoadedOnce, Untried
<1>15. ModeSound' /\ NothingWhileDown' /\ EmbeddingYields' /\ TrimSparesChunking'
  BY <1>2, <1>5 DEF ModeSound, NothingWhileDown, EmbeddingYields, TrimSparesChunking
<1>16. QED
  BY <1>9, <1>10, <1>11, <1>12, <1>13, <1>14, <1>15

(* A copy pushed into the queue of its kind: what becomes of the parts of  *)
(* the invariant that speak of the queues.                                 *)
LEMMA PushFacts ==
  ASSUME HostInv, NEW k \in Kind, NEW copy \in IndexJob,
         NEW p \in 1 .. Len(queues[k]) + 1, queues' = Pushed(queues, k, p, copy),
         HasRoom(queues[k], Capacity[k]),
         copy.id \in Waiting => copy.id \in misfiled,
         misfiled \subseteq misfiled'
  PROVE  /\ queues' \in [Kind -> Seq(IndexJob)]
         /\ \A c \in Kind : Len(queues'[c]) <= Capacity[c]
         /\ Waiting' = Waiting \union {copy.id}
         /\ DistinctIds(queues, misfiled)'
         /\ \A c \in Kind : \A i \in DOMAIN queues'[c] :
              \/ c = k /\ queues'[c][i] = copy
              \/ \E n \in DOMAIN queues[c] : queues'[c][i] = queues[c][n]
<1>1. queues \in [Kind -> Seq(IndexJob)] /\ \A c \in Kind : Len(queues[c]) <= Capacity[c]
  BY DEF HostInv, TypeOK
<1>2. /\ queues' \in [Kind -> Seq(IndexJob)]
      /\ \A c \in Kind \ {k} : queues'[c] = queues[c]
      /\ \A i \in DOMAIN queues'[k] :
           queues'[k][i] = copy \/ \E n \in DOMAIN queues[k] : queues'[k][i] = queues[k][n]
  BY <1>1, PushProperties
<1>3. Waiting' = Waiting \union {copy.id}
  BY <1>1, PushProperties DEF Waiting
<1>4. DistinctIds(queues', misfiled)
  BY <1>1, PushProperties DEF HostInv, OneCopyPerRow, Waiting
<1>5. DistinctIds(queues', misfiled')
  BY <1>4 DEF DistinctIds
<1>6. \A c \in Kind : Len(queues'[c]) <= Capacity[c]
  <2>1. Len(queues'[k]) = Len(queues[k]) + 1
    BY <1>1, PushProperties
  <2>2. Len(queues[k]) \in Nat /\ Len(queues[k]) < Capacity[k]
    BY <1>1, LenProperties DEF HasRoom
  <2>3. Len(queues'[k]) <= Capacity[k]
    BY <2>1, <2>2, HostAssumption
  <2>4. QED
    BY <1>1, <1>2, <2>3
<1>7. QED
  BY <1>2, <1>3, <1>5, <1>6 DEF DistinctIds

(* One row further down the list. *)
LEMMA WalkFacts ==
  ASSUME HostInv, pc \in {"loadQueued", "loadBlocked"}, todo # <<>>, todo' = Tail(todo)
  PROVE  /\ Head(todo) \in Job
         /\ todo' \in Seq(Job)
         /\ \E first \in DOMAIN todo : todo[first] = Head(todo)
         /\ \A a, b \in DOMAIN todo' : todo'[a] = todo'[b] => a = b
         /\ \A a \in DOMAIN todo' : /\ todo'[a] # Head(todo)
                                    /\ \E b \in DOMAIN todo : todo'[a] = todo[b]
<1>1. todo \in Seq(Job)
  BY DEF HostInv, TypeOK
<1>2. \A a, b \in DOMAIN todo : todo[a] = todo[b] => a = b
  BY DEF HostInv, ListSound
<1>3. Len(todo) \in Nat \ {0} /\ DOMAIN todo = 1 .. Len(todo)
  BY <1>1, EmptySeq, LenProperties
<1>4. Head(todo) = todo[1] /\ 1 \in DOMAIN todo
  BY <1>3
<1>5. /\ Head(todo) \in Job /\ todo' \in Seq(Job) /\ Len(todo') = Len(todo) - 1
      /\ \A i \in 1 .. Len(todo') : todo'[i] = todo[i + 1]
  BY <1>1, HeadTailProperties
<1>6. DOMAIN todo' = 1 .. Len(todo) - 1
  BY <1>5, LenProperties
<1>7. ASSUME NEW a \in DOMAIN todo'
      PROVE  a \in Nat /\ a + 1 \in DOMAIN todo /\ a + 1 # 1 /\ todo'[a] = todo[a + 1]
  <2>1. \A n \in Nat : a \in 1 .. n - 1 => a \in Nat /\ a + 1 \in 1 .. n /\ a + 1 # 1
    OBVIOUS
  <2>2. a \in 1 .. Len(todo')
    BY <1>5, <1>6
  <2>3. QED
    BY <1>3, <1>5, <1>6, <2>1, <2>2
<1>8. ASSUME NEW a \in DOMAIN todo', NEW b \in DOMAIN todo', todo'[a] = todo'[b]
      PROVE  a = b
  <2>1. a + 1 = b + 1
    BY <1>2, <1>7, <1>8
  <2>2. QED
    BY <1>7, <2>1
<1>9. ASSUME NEW a \in DOMAIN todo'
      PROVE  todo'[a] # Head(todo) /\ \E b \in DOMAIN todo : todo'[a] = todo[b]
  BY <1>2, <1>4, <1>7
<1>10. QED
  BY <1>4, <1>5, <1>8, <1>9

(* A row of the list is loaded, and set back to queued unless that fails. *)
LEMMA LoadKeepsInv ==
  ASSUME HostInv, pc \in {"loadQueued", "loadBlocked"}, pc' = pc,
         todo # <<>>, todo' = Tail(todo), NEW j, j = Head(todo),
         RoomFor(j), Load(j), Untried(j), j \in Waiting => j \in misfiled,
         status[j] \in {"queued", "blocked", "gone"},
         SetStatus(j, "queued") \/ UNCHANGED status,
         misfiled' = misfiled \/ misfiled' = misfiled \union {j},
         status'[j] = "blocked" => j \in misfiled',
         UNCHANGED <<kindOf, sourceOf, live, mode, userActive, onBattery, cur, trimmed,
                     failures, unrecorded, unchecked>>
  PROVE  HostInv'
<1> USE DEF HostInv
<1>1. PICK k, copy : /\ k = kindOf[j]
                     /\ copy = [id |-> j, kind |-> k, source |-> sourceOf[j],
                                priority |-> DefaultPriority[k], attempts |-> 0]
  OBVIOUS
<1>2. /\ j \in Job /\ todo' \in Seq(Job)
      /\ \E first \in DOMAIN todo : todo[first] = j
      /\ \A a, b \in DOMAIN todo' : todo'[a] = todo'[b] => a = b
      /\ \A a \in DOMAIN todo' : todo'[a] # j /\ \E b \in DOMAIN todo : todo'[a] = todo[b]
  BY WalkFacts
<1>3. k \in Kind
  BY <1>1, <1>2 DEF TypeOK
<1>4. copy \in IndexJob /\ copy.id = j
  <2>1. DefaultPriority[k] \in Priority /\ 0 \in 0 .. MaxAttempts
    BY <1>3, HostAssumption DEF DefaultPriority, Priority
  <2>2. QED
    BY <1>1, <1>2, <1>3, <2>1 DEF IndexJob, TypeOK
<1>5. PICK p \in 1 .. Len(queues[k]) + 1 : queues' = Pushed(queues, k, p, copy)
  BY <1>1 DEF Load, JobFromRow
<1>6. known' = known \union {j}
  BY DEF Load
<1>8. HasRoom(queues[k], Capacity[k])
  BY <1>1 DEF RoomFor
<1>9. /\ queues' \in [Kind -> Seq(IndexJob)]
      /\ \A c \in Kind : Len(queues'[c]) <= Capacity[c]
      /\ Waiting' = Waiting \union {j}
      /\ DistinctIds(queues, misfiled)'
      /\ \A c \in Kind : \A i \in DOMAIN queues'[c] :
           \/ c = k /\ queues'[c][i] = copy
           \/ \E n \in DOMAIN queues[c] : queues'[c][i] = queues[c][n]
  BY <1>3, <1>4, <1>5, <1>8, PushFacts
<1>10. InHand = {} /\ InHand' = {}
  BY DEF InHand
<1>11. /\ status' \in [Job -> Status]
       /\ \A i \in Job : status'[i] = "unborn" <=> status[i] = "unborn"
       /\ \A i \in Job \ {j} : status'[i] = status[i]
       /\ status'[j] \in {status[j], "queued"}
  BY <1>2 DEF SetStatus, TypeOK, Status
<1>12. TypeOK'
  BY <1>2, <1>6, <1>9, <1>11 DEF TypeOK
<1>13. CopiesSound'
  <2>1. /\ copy.kind = k /\ copy.attempts = 0
    BY <1>1
  <2>2. j \in unchecked \union misfiled \/ failures[j] = 0
    BY DEF Untried
  <2>3. CopyOf(copy, k)'
    BY <1>1, <1>2, <1>4, <1>6, <1>11, <2>1, <2>2, HostAssumption DEF CopyOf
  <2>4. ASSUME NEW c \in Kind, NEW n \in DOMAIN queues[c], NEW old, old = queues[c][n]
        PROVE  CopyOf(old, c)'
    <3>1. old.id \in Job /\ CopyOf(old, c)
      BY <2>4, QueuedFacts
    <3>2. QED
      BY <1>6, <1>11, <3>1 DEF CopyOf
  <2>5. \A c \in Kind : \A i \in DOMAIN queues'[c] : CopyOf(queues[c][i], c)'
    BY <1>9, <2>3, <2>4
  <2>6. \A i \in known' : status'[i] # "unborn"
    BY <1>2, <1>6, <1>11 DEF CopiesSound, TypeOK
  <2>7. QED
    BY <2>5, <2>6 DEF CopiesSound
<1>14. ListSound'
  <2>1. \A a \in DOMAIN todo' : todo'[a] \in Job
    BY <1>2 DEF TypeOK
  <2>2. pc = "loadQueued" => \A a \in DOMAIN todo' : status'[todo'[a]] \in {"queued", "gone"}
    BY <1>2, <1>11, <2>1 DEF ListSound
  <2>3. pc = "loadBlocked" => \A a \in DOMAIN todo' :
          /\ status'[todo'[a]] \in {"blocked", "gone"}
          /\ todo'[a] \in misfiled' \/ todo'[a] \notin Waiting'
    BY <1>2, <1>9, <1>11, <2>1 DEF ListSound
  <2>4. QED
    BY <1>2, <2>2, <2>3 DEF ListSound
<1>15. OneCopyPerRow'
  BY <1>9, <1>10, <1>11 DEF OneCopyPerRow
<1>16. NoQueuedRowOrphaned'
  BY <1>6, <1>9, <1>10, <1>11 DEF NoQueuedRowOrphaned
<1>17. RunningRowSound' /\ RetryHasRoom'
  BY DEF RunningRowSound, RetryHasRoom
<1>18. AttemptsBounded'
  BY DEF AttemptsBounded
<1>19. ModeSound' /\ NothingWhileDown' /\ EmbeddingYields' /\ TrimSparesChunking'
  BY DEF ModeSound, NothingWhileDown, EmbeddingYields, TrimSparesChunking
<1>20. LoadedOnce'
  <2>1. \A i \in Job : Untried(i) => Untried(i)'
    BY DEF Untried
  <2>2. ASSUME NEW i \in Job,
               \/ status'[i] \in {"unborn", "paused", "blocked"}
               \/ status'[i] = "queued" /\ i \notin known'
        PROVE  Untried(i)
    BY <1>6, <1>11, <2>2 DEF LoadedOnce
  <2>3. ASSUME NEW a \in DOMAIN todo', pc = "loadQueued" => todo'[a] \notin known'
        PROVE  todo'[a] \in Job /\ Untried(todo'[a])
    BY <1>2, <1>6, <2>3 DEF LoadedOnce, TypeOK
  <2>4. pc # "down" /\ pc' = pc
    OBVIOUS
  <2>5. \A i \in Job : \/ status'[i] \in {"unborn", "paused", "blocked"}
                       \/ status'[i] = "queued" /\ i \notin known'
                       \/ pc' = "down"
                       => Untried(i)'
    BY <2>1, <2>2, <2>4
  <2>6. \A i \in Job : Untried(i) => i \in unchecked' \union misfiled' \/ failures'[i] = 0
    BY DEF Untried
  <2>7. ASSUME NEW a \in DOMAIN todo', pc' = "loadQueued" => todo'[a] \notin known'
        PROVE  todo'[a] \in unchecked' \union misfiled' \/ failures'[todo'[a]] = 0
    BY <2>3, <2>4, <2>6, <2>7
  <2>8. \A a \in DOMAIN todo' : \/ pc' = "loadQueued" /\ todo'[a] \notin known'
                                \/ pc' = "loadBlocked"
                                => todo'[a] \in unchecked' \union misfiled' \/ failures'[todo'[a]] = 0
    BY <2>7
  <2>9. \A i \in Job : \/ status'[i] \in {"unborn", "paused", "blocked"}
                       \/ status'[i] = "queued" /\ i \notin known'
                       \/ pc' = "down"
                       => i \in unchecked' \union misfiled' \/ failures'[i] = 0
    BY <2>5 DEF Untried
  <2>10. QED
    BY <2>8, <2>9, LoadedOnceNext
<1>21. QED
  BY <1>12, <1>13, <1>14, <1>15, <1>16, <1>17, <1>18, <1>19, <1>20

(* A row of the list is passed over, or marked blocked. *)
LEMMA PassKeepsInv ==
  ASSUME HostInv, pc \in {"loadQueued", "loadBlocked"}, pc' = pc,
         todo # <<>>, todo' = Tail(todo),
         \/ UNCHANGED status
         \/ SetStatus(Head(todo), "blocked") /\ pc = "loadQueued" /\ Head(todo) \notin known,
         UNCHANGED <<kindOf, sourceOf, live, queues, known, mode, userActive, onBattery, cur,
                     trimmed, failures, unrecorded, misfiled, unchecked>>
  PROVE  HostInv'
<1> DEFINE j == Head(todo)
<1> USE DEF HostInv
<1>1. /\ j \in Job /\ todo' \in Seq(Job)
      /\ \A a, b \in DOMAIN todo' : todo'[a] = todo'[b] => a = b
      /\ \A a \in DOMAIN todo' : todo'[a] # j /\ \E b \in DOMAIN todo : todo'[a] = todo[b]
      /\ \E first \in DOMAIN todo : todo[first] = j
  BY WalkFacts
<1>2. Waiting' = Waiting /\ InHand = {} /\ InHand' = {}
  BY DEF Waiting, InHand
<1>3. pc = "loadQueued" => status[j] \in {"queued", "gone"}
  BY <1>1 DEF ListSound
<1>4. j \notin known /\ j \notin misfiled => j \notin Waiting
  <2>1. ASSUME j \in Waiting PROVE j \in known \union misfiled
    <3>1. PICK k \in Kind : \E i \in DOMAIN queues[k] : queues[k][i].id = j
      BY <2>1, IdsOfMember DEF Waiting
    <3>2. QED
      BY <3>1, QueuedFacts DEF CopyOf
  <2>2. QED
    BY <2>1
<1> HIDE DEF j
<1>5. /\ status' \in [Job -> Status]
      /\ \A i \in Job : status'[i] = "unborn" <=> status[i] = "unborn"
      /\ \A i \in Job \ {j} : status'[i] = status[i]
      /\ status'[j] \in {status[j], "blocked"}
      /\ status'[j] # status[j] => j \notin known
  BY <1>1, <1>3 DEF SetStatus, TypeOK, Status, j
<1>6. TypeOK'
  BY <1>1, <1>5 DEF TypeOK
<1>7. CopiesSound'
  <2>1. ASSUME NEW k \in Kind, NEW i \in DOMAIN queues[k] PROVE CopyOf(queues[k][i], k)'
    <3>1. queues[k][i].id \in Job /\ CopyOf(queues[k][i], k)
      BY QueuedFacts
    <3>2. QED
      BY <1>5, <3>1 DEF CopyOf
  <2>2. \A i \in known' : status'[i] # "unborn"
    BY <1>5 DEF CopiesSound, TypeOK
  <2>3. QED
    BY <2>1, <2>2 DEF CopiesSound
<1>8. ListSound'
  <2>1. \A a \in DOMAIN todo' : todo'[a] \in Job
    BY <1>1 DEF TypeOK
  <2>2. QED
    BY <1>1, <1>2, <1>5, <2>1 DEF ListSound
<1>9. OneCopyPerRow'
  BY <1>2, <1>4, <1>5 DEF OneCopyPerRow
<1>10. NoQueuedRowOrphaned'
  BY <1>2, <1>5 DEF NoQueuedRowOrphaned
<1>11. RunningRowSound' /\ RetryHasRoom' /\ AttemptsBounded'
  BY DEF RunningRowSound, RetryHasRoom, AttemptsBounded
<1>12. ModeSound' /\ NothingWhileDown' /\ EmbeddingYields' /\ TrimSparesChunking'
  BY DEF ModeSound, NothingWhileDown, EmbeddingYields, TrimSparesChunking
<1>13. LoadedOnce'
  <2>1. \A i \in Job : Untried(i) <=> Untried(i)'
    BY DEF Untried
  <2>2. status'[j] # status[j] => Untried(j)
    BY <1>1, <1>5 DEF LoadedOnce, j
  <2>3. ASSUME NEW a \in DOMAIN todo', pc = "loadQueued" => todo'[a] \notin known
        PROVE  todo'[a] \in Job /\ Untried(todo'[a])
    BY <1>1, <2>3 DEF LoadedOnce, TypeOK
  <2>4. QED
    BY <1>5, <2>1, <2>2, <2>3 DEF LoadedOnce
<1>14. QED
  BY <1>6, <1>7, <1>8, <1>9, <1>10, <1>11, <1>12, <1>13

LEMMA WalkKeepsInv == HostInv /\ (LoadQueuedRow \/ LoadBlockedRow) => HostInv'
<1> SUFFICES ASSUME HostInv, LoadQueuedRow \/ LoadBlockedRow PROVE HostInv'
  OBVIOUS
<1> DEFINE j == Head(todo)
<1>1. pc \in {"loadQueued", "loadBlocked"} /\ todo # <<>> /\ todo' = Tail(todo) /\ pc' = pc
  BY DEF LoadQueuedRow, LoadBlockedRow
<1>2. /\ j \in Job
      /\ pc = "loadQueued" => status[j] \in {"queued", "gone"}
      /\ pc = "loadBlocked" => /\ status[j] \in {"blocked", "gone"}
                               /\ j \in misfiled \/ j \notin Waiting
  BY <1>1, WalkFacts DEF HostInv, ListSound
<1>3. j \in Waiting => j \in known \union misfiled
  <2>1. ASSUME j \in Waiting PROVE j \in known \union misfiled
    <3>1. PICK k \in Kind : \E i \in DOMAIN queues[k] : queues[k][i].id = j
      BY <2>1, IdsOfMember DEF Waiting
    <3>2. QED
      BY <3>1, QueuedFacts DEF CopyOf
  <2>2. QED
    BY <2>1
<1>4. (pc = "loadQueued" => j \notin known) => Untried(j)
  BY <1>1, WalkFacts DEF HostInv, LoadedOnce
<1>5. CASE LoadQueuedRow
  <2>1. CASE UNCHANGED <<status, queues, known>>
    BY <1>1, <1>5, <2>1, PassKeepsInv DEF LoadQueuedRow
  <2>2. CASE j \notin known /\ RoomFor(j) /\ Load(j) /\ UNCHANGED status
    BY <1>1, <1>2, <1>3, <1>4, <1>5, <2>2, LoadKeepsInv DEF LoadQueuedRow
  <2>3. CASE /\ j \notin known
             /\ SetStatus(j, "blocked") \/ MayFail("block")
             /\ UNCHANGED <<queues, known>>
    BY <1>1, <1>5, <2>3, PassKeepsInv DEF LoadQueuedRow, MayFail
  <2>4. QED
    BY <1>5, <2>1, <2>2, <2>3 DEF LoadQueuedRow
<1>6. CASE LoadBlockedRow
  <2>1. CASE UNCHANGED <<status, queues, known, misfiled>>
    BY <1>1, <1>6, <2>1, PassKeepsInv DEF LoadBlockedRow
  <2>2. CASE RoomFor(j) /\ Load(j) /\ SetStatus(j, "queued") /\ UNCHANGED misfiled
    <3>1. status'[j] # "blocked"
      BY <1>2, <2>2 DEF SetStatus, HostInv, TypeOK
    <3>2. QED
      BY <1>1, <1>2, <1>4, <1>6, <2>2, <3>1, LoadKeepsInv DEF LoadBlockedRow
  <2>3. CASE /\ RoomFor(j) /\ Load(j)
             /\ MayFail("unblock") /\ misfiled' = misfiled \union {j}
    BY <1>1, <1>2, <1>4, <1>6, <2>3, LoadKeepsInv DEF LoadBlockedRow, MayFail
  <2>4. QED
    BY <1>6, <2>1, <2>2, <2>3 DEF LoadBlockedRow
<1>7. QED
  BY <1>5, <1>6

LEMMA RetryKeepsInv == HostInv /\ Retry => HostInv'
<1> SUFFICES ASSUME HostInv, Retry PROVE HostInv'
  OBVIOUS
<1> USE DEF HostInv
<1>1. /\ pc = "run" /\ pc' = "top" /\ cur' = NoJob
      /\ UNCHANGED <<kindOf, sourceOf, live, known, mode, userActive, onBattery,
                     todo, trimmed, unrecorded, misfiled, unchecked>>
      /\ CountFailure
      /\ MayRetry([cur EXCEPT !.attempts = @ + 1].attempts)
  BY DEF Retry, KeepKnown
<1>2. /\ cur \in IndexJob /\ cur.id \in Job /\ cur.kind \in Kind /\ cur.source \in Source
      /\ cur.priority \in Priority /\ cur.attempts \in 0 .. MaxAttempts
      /\ CopyOf(cur, cur.kind)
      /\ cur.id \in misfiled \/ cur.id \notin Waiting
  BY <1>1, InHandFacts
<1>3. HasRoom(queues[cur.kind], Capacity[cur.kind])
  BY <1>1 DEF RetryHasRoom, HasRoom
<1>4. SetStatus(cur.id, "queued") \/ UNCHANGED status
  BY <1>3 DEF Retry, MayFail
<1>5. PICK again : again = [cur EXCEPT !.attempts = @ + 1]
  OBVIOUS
<1>6. /\ again \in IndexJob /\ again.id = cur.id /\ again.kind = cur.kind
      /\ again.attempts = cur.attempts + 1 /\ again.attempts < MaxAttempts
  <2>1. cur.attempts + 1 < MaxAttempts
    BY <1>1, <1>2 DEF MayRetry, IndexJob
  <2>2. cur.attempts + 1 \in 0 .. MaxAttempts
    BY <1>2, <2>1, HostAssumption
  <2>3. QED
    BY <1>2, <1>5, <2>1, <2>2 DEF IndexJob
<1>7. PICK p \in 1 .. Len(queues[cur.kind]) + 1 : queues' = Pushed(queues, cur.kind, p, again)
  BY <1>3, <1>5 DEF Retry
<1>8. /\ queues' \in [Kind -> Seq(IndexJob)]
      /\ \A c \in Kind : Len(queues'[c]) <= Capacity[c]
      /\ Waiting' = Waiting \union {cur.id}
      /\ DistinctIds(queues, misfiled)'
      /\ \A c \in Kind : \A i \in DOMAIN queues'[c] :
           \/ c = cur.kind /\ queues'[c][i] = again
           \/ \E n \in DOMAIN queues[c] : queues'[c][i] = queues[c][n]
  BY <1>1, <1>2, <1>3, <1>6, <1>7, PushFacts
<1>9. InHand = {cur.id} /\ InHand' = {}
  BY <1>1 DEF InHand
<1>10. status'[cur.id] \in {"queued", "gone"} /\ status[cur.id] \in {"queued", "gone"}
  BY <1>1, <1>2, <1>4 DEF RunningRowSound, SetStatus, TypeOK
<1>11. /\ status' \in [Job -> Status]
       /\ \A i \in Job : status'[i] = "unborn" <=> status[i] = "unborn"
       /\ \A i \in Job \ {cur.id} : status'[i] = status[i]
  BY <1>2, <1>4, <1>10 DEF SetStatus, TypeOK, Status
<1>12. /\ failures' \in [Job -> Nat]
       /\ \A i \in Job \ {cur.id} : failures'[i] = failures[i]
       /\ failures[cur.id] \in Nat
       /\ cur.id \notin unchecked \union misfiled => failures'[cur.id] = cur.attempts + 1
  <2>1. failures' = [failures EXCEPT ![cur.id] = IF @ > MaxAttempts THEN @ ELSE @ + 1]
    BY <1>1 DEF CountFailure
  <2>2. cur.id \notin unchecked \union misfiled => failures[cur.id] = cur.attempts
    BY <1>2 DEF CopyOf
  <2>3. ~(cur.attempts > MaxAttempts)
    BY <1>2, HostAssumption
  <2>4. QED
    BY <1>2, <2>1, <2>2, <2>3 DEF TypeOK
<1>13. TypeOK'
  BY <1>1, <1>8, <1>11, <1>12 DEF TypeOK
<1>14. CopiesSound'
  <2>1. ASSUME NEW c, c = cur.kind PROVE CopyOf(again, c)'
    BY <1>1, <1>2, <1>6, <1>11, <1>12, <2>1 DEF CopyOf
  <2>2. ASSUME NEW c \in Kind, NEW n \in DOMAIN queues[c], NEW old, old = queues[c][n]
        PROVE  CopyOf(old, c)'
    <3>1. old.id \in Job /\ CopyOf(old, c) /\ old.id \in Waiting
      BY <2>2, QueuedFacts
    <3>2. QED
      BY <1>1, <1>2, <1>11, <1>12, <3>1 DEF CopyOf
  <2>3. ASSUME NEW c \in Kind, NEW i \in DOMAIN queues'[c] PROVE CopyOf(queues[c][i], c)'
    BY <1>8, <2>1, <2>2
  <2>4. \A i \in known' : status'[i] # "unborn"
    BY <1>1, <1>11 DEF CopiesSound, TypeOK
  <2>5. QED
    BY <1>1, <2>3, <2>4 DEF CopiesSound
<1>15. OneCopyPerRow'
  BY <1>1, <1>8, <1>9, <1>10, <1>11 DEF OneCopyPerRow
<1>16. NoQueuedRowOrphaned'
  BY <1>1, <1>8, <1>9, <1>11 DEF NoQueuedRowOrphaned
<1>17. AttemptsBounded'
  <2>1. cur.id \notin unchecked \union misfiled => failures'[cur.id] <= MaxAttempts
    BY <1>6, <1>12, HostAssumption DEF IndexJob
  <2>2. QED
    BY <1>1, <1>12, <2>1 DEF AttemptsBounded
<1>18. ListSound' /\ RunningRowSound' /\ RetryHasRoom'
  BY <1>1 DEF ListSound, RunningRowSound, RetryHasRoom
<1>19. ModeSound' /\ NothingWhileDown' /\ EmbeddingYields' /\ TrimSparesChunking'
  BY <1>1 DEF ModeSound, NothingWhileDown, EmbeddingYields, TrimSparesChunking
<1>20. LoadedOnce'
  <2>1. \A i \in Job \ {cur.id} : Untried(i) => Untried(i)'
    BY <1>1, <1>12 DEF Untried
  <2>2. cur.id \in known \union misfiled
    BY <1>2 DEF CopyOf
  <2>3. ASSUME NEW i \in Job,
               \/ status'[i] \in {"unborn", "paused", "blocked"}
               \/ status'[i] = "queued" /\ i \notin known
        PROVE  Untried(i)'
    <3>1. CASE i = cur.id
      BY <1>1, <1>10, <2>2, <2>3, <3>1 DEF Untried
    <3>2. CASE i # cur.id
      BY <1>11, <2>1, <2>3, <3>2 DEF LoadedOnce
    <3>3. QED
      BY <3>1, <3>2
  <2>4. pc' \notin {"down", "loadQueued", "loadBlocked"} /\ known' = known
    BY <1>1
  <2>5. \A i \in Job : \/ status'[i] \in {"unborn", "paused", "blocked"}
                       \/ status'[i] = "queued" /\ i \notin known'
                       \/ pc' = "down"
                       => i \in unchecked' \union misfiled' \/ failures'[i] = 0
    BY <2>3, <2>4 DEF Untried
  <2>6. \A a \in DOMAIN todo' : \/ pc' = "loadQueued" /\ todo'[a] \notin known'
                                \/ pc' = "loadBlocked"
                                => todo'[a] \in unchecked' \union misfiled' \/ failures'[todo'[a]] = 0
    BY <2>4
  <2>7. QED
    BY <2>5, <2>6, LoadedOnceNext
<1>21. QED
  BY <1>13, <1>14, <1>15, <1>16, <1>17, <1>18, <1>19, <1>20

-----------------------------------------------------------------------------
(* The invariant *)

LEMMA StepKeepsInv == HostInv /\ [Next]_vars => HostInv'
<1> SUFFICES ASSUME HostInv, [Next]_vars PROVE HostInv'
  OBVIOUS
<1>1. CASE Window
  BY <1>1, WindowKeepsInv
<1>2. ASSUME NEW enabled \in BOOLEAN, Start(enabled) PROVE HostInv'
  BY <1>2, StartKeepsInv
<1>3. CASE Stop
  BY <1>3, StopKeepsInv
<1>4. CASE LoopStep
  <2>1. todo \in Seq(Job)
    BY DEF HostInv, TypeOK
  <2>2. CASE Tick
    BY <2>1, <2>2, TakeKeepsInv DEF Tick
  <2>3. CASE Retick
    BY <2>3, TakeKeepsInv, EmptySeq DEF Retick
  <2>4. QED
    BY <1>4, <2>2, <2>3, ObserveKeepsInv, MoveOnKeepsInv, WalkKeepsInv, DispatchKeepsInv,
       EndKeepsInv, RetryKeepsInv DEF LoopStep, Rehydrate, RunJob
<1>5. ASSUME NEW j \in Job, NEW s \in Source, Backfill(j, s) PROVE HostInv'
  BY <1>5, InsertKeepsInv DEF Backfill, Kind
<1>6. ASSUME NEW j \in Job, NEW k \in Kind, WorkerQueues(j, k) PROVE HostInv'
  <2>1. cur.source \in Source
    BY <1>6, InHandFacts DEF WorkerQueues
  <2>2. QED
    BY <1>6, <2>1, InsertKeepsInv DEF WorkerQueues
<1>7. CASE UNCHANGED vars
  <2>1. UNCHANGED <<status, kindOf, sourceOf, live, queues, known, mode, userActive,
                    onBattery, cur, todo, trimmed, pc, failures, unrecorded, misfiled, unchecked>>
    BY <1>7 DEF vars, catalogVars, memoryVars, historyVars
  <2>2. Waiting' = Waiting /\ InHand' = InHand
    BY <2>1 DEF Waiting, InHand
  <2>3. QED
    BY <2>1, <2>2 DEF HostInv, TypeOK, CopiesSound, CopyOf, ListSound, RunningRowSound,
      OneCopyPerRow, RetryHasRoom, NoQueuedRowOrphaned, AttemptsBounded, LoadedOnce, Untried, ModeSound,
      NothingWhileDown, EmbeddingYields, TrimSparesChunking
<1>8. QED
  BY <1>1, <1>2, <1>3, <1>4, <1>5, <1>6, <1>7 DEF Next

(* Every reachable state of the host satisfies the inductive invariant,    *)
(* for any table, any capacities and any pattern of failing statements.    *)
THEOREM HostInvariant == Spec => []HostInv
BY InitHostInv, StepKeepsInv, PTL DEF Spec

(* Types hold and no queue outgrows its capacity (limits.rs:30-58,         *)
(* queue.rs:50): what Scheduler::is_full guards at every insertion.        *)
THEOREM TypeCorrect == Spec => []TypeOK
<1>1. HostInv => TypeOK
  BY DEF HostInv
<1>2. QED
  BY <1>1, HostInvariant, PTL

(* A row that rehydrate skips as known is in a queue or in hand, or the    *)
(* write of its outcome failed (scheduler_host.rs:784-801).                *)
THEOREM QueuedRowsKept == Spec => []NoQueuedRowOrphaned
<1>1. HostInv => NoQueuedRowOrphaned
  BY DEF HostInv
<1>2. QED
  BY <1>1, HostInvariant, PTL

(* No row has two copies in memory, nor a copy while blocked, unless the   *)
(* write that unblocks a reloaded row failed (scheduler_host.rs:814-842).  *)
THEOREM SingleCopy == Spec => []OneCopyPerRow
<1>1. HostInv => OneCopyPerRow
  BY DEF HostInv
<1>2. QED
  BY <1>1, HostInvariant, PTL

(* The blocked branch of Scheduler::fail (dispatch.rs:346) is never taken  *)
(* by this loop, and within a session a row fails at most MAX_JOB_ATTEMPTS *)
(* times, unless a lookup of it failed, after which it is loaded and       *)
(* counted anew, or it has a second copy.  A restart counts anew.          *)
THEOREM RetriesBounded == Spec => [](RetryHasRoom /\ AttemptsBounded)
<1>1. HostInv => RetryHasRoom /\ AttemptsBounded
  BY DEF HostInv
<1>2. QED
  BY <1>1, HostInvariant, PTL

(* Embedding waits while the user is active or the battery is spared, and  *)
(* the extraction cache is not trimmed under a chunk job                   *)
(* (dispatch.rs:110-139, scheduler_host.rs:908-934).                       *)
THEOREM BackgroundYields == Spec => [](EmbeddingYields /\ TrimSparesChunking)
<1>1. HostInv => EmbeddingYields /\ TrimSparesChunking
  BY DEF HostInv
<1>2. QED
  BY <1>1, HostInvariant, PTL

-----------------------------------------------------------------------------
(* A session started with background_indexing off runs nothing and stays   *)
(* paused until it ends (dispatch.rs:145-163).                             *)
THEOREM PauseIsKept == Spec => PauseHolds
<1>1. HostInv /\ [Next]_vars
        => [mode = "Paused" => pc' \notin {"check", "run"} /\ (mode' = "Paused" \/ pc' = "down")]_vars
  <2> SUFFICES ASSUME HostInv, [Next]_vars, mode = "Paused", ~UNCHANGED vars
               PROVE  pc' \notin {"check", "run"} /\ (mode' = "Paused" \/ pc' = "down")
    OBVIOUS
  <2>1. pc \notin {"down", "check", "run"}
    BY DEF HostInv, ModeSound, NothingWhileDown
  <2>2. ~TakeNext
    BY DEF TakeNext, IsNextKind, Servable
  <2>3. CASE Window \/ Stop \/ \E j \in Job, s \in Source : Backfill(j, s)
    BY <2>1, <2>3 DEF Window, WindowQueues, WindowRemovesSource, FileErased, Stop,
       Backfill, memoryVars
  <2>4. CASE LoopStep
    BY <2>1, <2>2, <2>4 DEF LoopStep, Observe, DerivedMode, Tick, TickFindsNothing, Rehydrate,
       LoadQueuedRow, QueuedRowsDone, LoadBlockedRow, BlockedRowsDone, Retick, FindIdle,
       TrimExtractionCache, Dispatch, SkipStale, RunJob, Complete, Retry, FailForGood, memoryVars
  <2>5. CASE \/ \E enabled \in BOOLEAN : Start(enabled)
             \/ \E j \in Job, k \in Kind : WorkerQueues(j, k)
    BY <2>1, <2>5 DEF Start, ResumeOrPause, WorkerQueues
  <2>6. QED
    BY <2>3, <2>4, <2>5 DEF Next
<1>2. QED
  BY <1>1, HostInvariant, PTL DEF Spec, PauseHolds

-----------------------------------------------------------------------------
(* The ledger *)

LEMMA InitLedger == Init => Ledger!Init
BY DEF Init, Ledger!Init, Entry, Working, Unfinished

(* Steps that neither finish a row nor start or end work. *)
LEMMA StutterInLedger ==
  ASSUME HostInv,
         \A j \in Job : \/ status'[j] = status[j]
                        \/ status[j] \in Unfinished /\ status'[j] \in Unfinished,
         \/ pc # "run" /\ pc' # "run"
         \/ pc = "run" /\ pc' = "run" /\ cur' = cur
  PROVE  UNCHANGED <<Entry, Working>>
BY DEF Entry, Working

LEMMA InsertIsSubmit ==
  ASSUME HostInv, NEW j \in Job, NEW k \in Kind, NEW s \in Source, Insert(j, k, s),
         UNCHANGED <<pc, cur>>
  PROVE  Ledger!Submit(j)
<1>1. status[j] = "unborn" /\ status' = [status EXCEPT ![j] = "queued"]
  BY DEF Insert, NextRow
<1>2. Entry[j] = "unborn" /\ Entry' = [Entry EXCEPT ![j] = "pending"]
  BY <1>1 DEF Entry, Unfinished, HostInv, TypeOK
<1>3. QED
  BY <1>2 DEF Ledger!Submit, Working

LEMMA WindowInLedger ==
  HostInv /\ Window =>
    \/ \E j \in Job : Ledger!Submit(j)
    \/ \E gone \in SUBSET Job : Ledger!Delete(gone)
<1> SUFFICES ASSUME HostInv, Window
             PROVE  \/ \E j \in Job : Ledger!Submit(j)
                    \/ \E gone \in SUBSET Job : Ledger!Delete(gone)
  OBVIOUS
<1>1. ASSUME NEW j \in Job, NEW k \in Kind, NEW s \in Source, WindowQueues(j, k, s)
      PROVE  Ledger!Submit(j)
  BY <1>1, InsertIsSubmit DEF WindowQueues, memoryVars
<1>2. ASSUME NEW gone \in SUBSET Job, \A j \in gone : status[j] # "unborn",
             status' = [j \in Job |-> IF j \in gone THEN "gone" ELSE status[j]],
             UNCHANGED <<pc, cur>>
      PROVE  Ledger!Delete(gone)
  <2>1. \A j \in gone : Entry[j] # "unborn"
    BY <1>2 DEF Entry
  <2>2. Entry' = [j \in Job |-> IF j \in gone THEN "gone" ELSE Entry[j]]
    BY <1>2 DEF Entry, Unfinished
  <2>3. QED
    BY <1>2, <2>1, <2>2 DEF Ledger!Delete, Working
<1>3. ASSUME NEW s \in Source, WindowRemovesSource(s)
      PROVE  Ledger!Delete({j \in Job : status[j] # "unborn" /\ sourceOf[j] = s})
  <2> DEFINE gone == {j \in Job : status[j] # "unborn" /\ sourceOf[j] = s}
  <2>1. status' = [j \in Job |-> IF j \in gone THEN "gone" ELSE status[j]]
    BY <1>3 DEF WindowRemovesSource
  <2>2. gone \in SUBSET Job /\ (\A j \in gone : status[j] # "unborn") /\ UNCHANGED <<pc, cur>>
    BY <1>3 DEF WindowRemovesSource, memoryVars
  <2> HIDE DEF gone
  <2>3. Ledger!Delete(gone)
    BY <1>2, <2>1, <2>2
  <2>4. QED
    BY <2>3 DEF gone
<1>4. ASSUME NEW j \in Job, FileErased(j) PROVE Ledger!Delete({j})
  <2>1. status' = [i \in Job |-> IF i \in {j} THEN "gone" ELSE status[i]]
    BY <1>4 DEF FileErased, HostInv, TypeOK
  <2>2. {j} \in SUBSET Job /\ (\A i \in {j} : status[i] # "unborn") /\ UNCHANGED <<pc, cur>>
    BY <1>4 DEF FileErased, memoryVars
  <2>3. QED
    BY <1>2, <2>1, <2>2
<1>5. QED
  BY <1>1, <1>3, <1>4 DEF Window

LEMMA RunInLedger ==
  HostInv /\ (Dispatch \/ RunJob) =>
    \/ \E j \in Job : Ledger!Begin(j) \/ Ledger!Settle(j)
    \/ Ledger!GiveBack
<1> SUFFICES ASSUME HostInv, Dispatch \/ RunJob
             PROVE  \/ \E j \in Job : Ledger!Begin(j) \/ Ledger!Settle(j)
                    \/ Ledger!GiveBack
  OBVIOUS
<1>1. CASE Dispatch
  <2>1. cur.id \in Job /\ status[cur.id] = "queued" /\ pc = "check" /\ pc' = "run"
    BY <1>1, InHandFacts DEF Dispatch
  <2>2. Ledger!Begin(cur.id)
    BY <1>1, <2>1 DEF Dispatch, Ledger!Begin, Entry, Working, Unfinished, catalogVars, memoryVars
  <2>3. QED
    BY <2>1, <2>2
<1>2. CASE RunJob
  <2>1. cur.id \in Job /\ pc = "run" /\ pc' = "top"
    BY <1>2, InHandFacts DEF RunJob, Complete, Retry, FailForGood
  <2>2. Working = {cur.id} /\ Working' = {} /\ status[cur.id] \in {"queued", "gone"}
    BY <2>1 DEF Working, HostInv, RunningRowSound
  <2>3. ASSUME UNCHANGED status PROVE Ledger!GiveBack
    BY <2>2, <2>3 DEF Ledger!GiveBack, Entry
  <2>4. ASSUME NEW s \in {"queued", "blocked"}, SetStatus(cur.id, s) PROVE Ledger!GiveBack
    <3>1. UNCHANGED Entry
      BY <2>1, <2>2, <2>4 DEF Entry, SetStatus, Unfinished, HostInv, TypeOK
    <3>2. QED
      BY <2>2, <3>1 DEF Ledger!GiveBack
  <2>5. ASSUME NEW s \in {"succeeded", "failed"}, SetStatus(cur.id, s)
        PROVE  Ledger!Settle(cur.id)
    <3>1. Entry' = [Entry EXCEPT ![cur.id] = IF @ = "gone" THEN "gone" ELSE s]
      BY <2>1, <2>2, <2>5 DEF Entry, SetStatus, Unfinished, HostInv, TypeOK
    <3>2. QED
      BY <2>2, <3>1 DEF Ledger!Settle, Ledger!Settled
  <2>6. CASE Complete
    BY <2>1, <2>3, <2>5, <2>6 DEF Complete, MayFail
  <2>7. CASE Retry
    BY <2>3, <2>4, <2>7 DEF Retry, MayFail
  <2>8. CASE FailForGood
    BY <2>1, <2>3, <2>5, <2>8 DEF FailForGood, MayFail
  <2>9. QED
    BY <1>2, <2>6, <2>7, <2>8 DEF RunJob
<1>3. QED
  BY <1>1, <1>2

LEMMA StepInLedger == HostInv /\ [Next]_vars => [Ledger!Next]_<<Entry, Working>>
<1> SUFFICES ASSUME HostInv, [Next]_vars PROVE [Ledger!Next]_<<Entry, Working>>
  OBVIOUS
<1> USE DEF Ledger!Next
<1>1. status \in [Job -> Status]
  BY DEF HostInv, TypeOK
<1>2. CASE Window
  BY <1>2, WindowInLedger
<1>3. ASSUME NEW enabled \in BOOLEAN, Start(enabled) PROVE UNCHANGED <<Entry, Working>>
  BY <1>1, <1>3, StutterInLedger DEF Start, ResumeOrPause, MayFail, Unfinished
<1>4. CASE Stop
  <2>1. UNCHANGED status /\ pc' = "down"
    BY <1>4 DEF Stop, catalogVars
  <2>2. UNCHANGED Entry /\ Working' = {}
    BY <2>1 DEF Entry, Working
  <2>3. Working = {} \/ Ledger!GiveBack
    BY <2>2 DEF Ledger!GiveBack
  <2>4. QED
    BY <2>2, <2>3
<1>5. CASE Dispatch \/ RunJob
  BY <1>5, RunInLedger
<1>6. CASE Observe \/ Tick \/ TickFindsNothing \/ Retick \/ FindIdle
           \/ TrimExtractionCache \/ SkipStale \/ QueuedRowsDone \/ BlockedRowsDone
  <2>1. UNCHANGED status /\ pc # "run" /\ pc' # "run"
    BY <1>6 DEF Observe, Tick, TickFindsNothing, Retick, FindIdle, TrimExtractionCache,
       SkipStale, QueuedRowsDone, BlockedRowsDone, catalogVars
  <2>2. QED
    BY <2>1, StutterInLedger
<1>7. CASE LoadQueuedRow \/ LoadBlockedRow
  <2>1. Head(todo) \in Job /\ status[Head(todo)] \in {"queued", "blocked", "gone"}
    BY <1>7, WalkFacts DEF LoadQueuedRow, LoadBlockedRow, HostInv, ListSound
  <2>2. pc # "run" /\ pc' # "run"
    BY <1>7 DEF LoadQueuedRow, LoadBlockedRow
  <2>3. \/ UNCHANGED status
        \/ \E s \in {"queued", "blocked"} : SetStatus(Head(todo), s)
    BY <1>7 DEF LoadQueuedRow, LoadBlockedRow, MayFail
  <2>4. \A j \in Job : \/ status'[j] = status[j]
                       \/ status[j] \in Unfinished /\ status'[j] \in Unfinished
    BY <1>1, <2>1, <2>3 DEF SetStatus, Unfinished
  <2>5. QED
    BY <2>2, <2>4, StutterInLedger
<1>8. ASSUME NEW j \in Job, NEW s \in Source, Backfill(j, s) PROVE Ledger!Submit(j)
  BY <1>8, InsertIsSubmit DEF Backfill, Kind, memoryVars
<1>9. ASSUME NEW j \in Job, NEW k \in Kind, WorkerQueues(j, k) PROVE Ledger!Submit(j)
  <2>1. cur.source \in Source
    BY <1>9, InHandFacts DEF WorkerQueues
  <2>2. QED
    BY <1>9, <2>1, InsertIsSubmit DEF WorkerQueues, memoryVars
<1>10. CASE UNCHANGED vars
  BY <1>10 DEF vars, catalogVars, memoryVars, Entry, Working
<1>11. QED
  BY <1>2, <1>3, <1>4, <1>5, <1>6, <1>7, <1>8, <1>9, <1>10 DEF Next, LoopStep, Rehydrate

(* The table and the loop implement the job ledger: whatever copies are in *)
(* memory, only a pending row is run, one at a time, and a finished or     *)
(* deleted one never is again (scheduler_host.rs:577-592).                 *)
THEOREM HostImplementsLedger == Spec => ImplementsLedger
BY InitLedger, StepInLedger, HostInvariant, PTL DEF Spec, ImplementsLedger, Ledger!Spec
=============================================================================
