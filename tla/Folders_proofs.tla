--------------------------- MODULE Folders_proofs ---------------------------
(***************************************************************************)
(* Proofs about Folders, for any tree of folders and files, any number of  *)
(* requests and crashes: every file belongs to one folder, rows are only   *)
(* kept for what an added folder covers, and what was prepared stays.      *)
(***************************************************************************)
EXTENDS Folders, FiniteSetTheorems, WellFoundedInduction, TLAPS

-----------------------------------------------------------------------------
(* Paths *)

LEMMA Paths ==
  ASSUME NEW p \in Folder \union File
  PROVE  p \in Seq(STRING) /\ Len(p) \in Nat
  BY FoldersAssumption

(* A prefix agrees position by position. *)
LEMMA PrefixAgrees ==
  ASSUME NEW p \in Seq(STRING), NEW q \in Seq(STRING)
  PROVE  IsPrefix(p, q) <=> Len(p) <= Len(q) /\ \A i \in 1 .. Len(p) : p[i] = q[i]
  <1>1. ASSUME Len(p) <= Len(q)
        PROVE  /\ SubSeq(p, 1, Len(p)) \in Seq(STRING)
               /\ Len(SubSeq(p, 1, Len(p))) = Len(p)
               /\ \A i \in 1 .. Len(p) : SubSeq(p, 1, Len(p))[i] = p[i]
               /\ SubSeq(q, 1, Len(p)) \in Seq(STRING)
               /\ Len(SubSeq(q, 1, Len(p))) = Len(p)
               /\ \A i \in 1 .. Len(p) : SubSeq(q, 1, Len(p))[i] = q[i]
    BY <1>1
  <1>2. ASSUME NEW a \in Seq(STRING), NEW b \in Seq(STRING), Len(a) = Len(b),
               \A i \in 1 .. Len(a) : a[i] = b[i]
        PROVE  a = b
    BY <1>2, SMTT(30)
  <1>3. ASSUME Len(p) <= Len(q), \A i \in 1 .. Len(p) : p[i] = q[i]
        PROVE  SubSeq(p, 1, Len(p)) = SubSeq(q, 1, Len(p))
    BY <1>1, <1>2, <1>3
  <1> QED BY <1>1, <1>3 DEF IsPrefix

LEMMA PrefixTransitive ==
  ASSUME NEW p \in Seq(STRING), NEW q \in Seq(STRING), NEW r \in Seq(STRING),
         IsStrictPrefix(p, q), IsStrictPrefix(q, r)
  PROVE  IsStrictPrefix(p, r)
  <1>1. Len(p) <= Len(q) /\ \A i \in 1 .. Len(p) : p[i] = q[i]
    BY PrefixAgrees DEF IsStrictPrefix
  <1>2. Len(q) <= Len(r) /\ \A i \in 1 .. Len(q) : q[i] = r[i]
    BY PrefixAgrees DEF IsStrictPrefix
  <1>3. IsPrefix(p, r)
    BY <1>1, <1>2, PrefixAgrees
  <1>4. CASE p = r
    <2>1. Len(p) = Len(q)
      BY <1>1, <1>2, <1>4
    <2>2. p = q
      BY <1>1, <2>1
    <2> QED BY <2>2 DEF IsStrictPrefix
  <1> QED BY <1>3, <1>4 DEF IsStrictPrefix

(* A strict prefix is shorter. *)
LEMMA PrefixShorter ==
  ASSUME NEW p \in Seq(STRING), NEW q \in Seq(STRING), IsStrictPrefix(p, q)
  PROVE  Len(p) < Len(q)
  <1>1. Len(p) <= Len(q) /\ \A i \in 1 .. Len(p) : p[i] = q[i]
    BY PrefixAgrees DEF IsStrictPrefix
  <1>2. CASE Len(p) = Len(q)
    <2>1. p = q BY <1>1, <1>2
    <2> QED BY <2>1 DEF IsStrictPrefix
  <1> QED BY <1>1, <1>2

(* Two prefixes of one path are one and the same, or one above the other.  *)
LEMMA PrefixesCompare ==
  ASSUME NEW p \in Seq(STRING), NEW q \in Seq(STRING), NEW r \in Seq(STRING),
         IsPrefix(p, r), IsPrefix(q, r), p # q
  PROVE  IsStrictPrefix(p, q) \/ IsStrictPrefix(q, p)
  <1>1. Len(p) <= Len(r) /\ \A i \in 1 .. Len(p) : p[i] = r[i]
    BY PrefixAgrees
  <1>2. Len(q) <= Len(r) /\ \A i \in 1 .. Len(q) : q[i] = r[i]
    BY PrefixAgrees
  <1>3. CASE Len(p) <= Len(q)
    <2>1. IsPrefix(p, q) BY <1>1, <1>2, <1>3, PrefixAgrees
    <2> QED BY <2>1 DEF IsStrictPrefix
  <1>4. CASE Len(q) <= Len(p)
    <2>1. IsPrefix(q, p) BY <1>1, <1>2, <1>4, PrefixAgrees
    <2> QED BY <2>1 DEF IsStrictPrefix
  <1> QED BY <1>3, <1>4

-----------------------------------------------------------------------------
(* Copies *)

LEMMA HighestIsThere ==
  ASSUME NEW copies \in SUBSET Folder, copies # {}
  PROVE  Highest(copies) \in copies
  <1> DEFINE lengths == {Len(s) : s \in copies}
  <1>1. lengths \subseteq Nat /\ lengths # {}
    BY Paths
  <1>2. IsWellFoundedOn({nm \in Nat \X Nat : nm[1] < nm[2]}, Nat)
    BY NatLessThanWellFounded DEF OpToRel
  <1>3. PICK n \in lengths : \A m \in lengths : ~(m < n)
    <2> DEFINE less == {nm \in Nat \X Nat : nm[1] < nm[2]}
    <2>1. \E n \in lengths : \A m \in lengths : <<m, n>> \notin less
      <3> HIDE DEF lengths, less
      <3> QED BY <1>1, <1>2, WFMin DEF less
    <2>2. \A m, n \in Nat : <<m, n>> \notin less <=> ~(m < n)
      OBVIOUS
    <2> QED BY <1>1, <2>1, <2>2
  <1>4. PICK s \in copies : Len(s) = n
    BY <1>3
  <1>5. \A t \in copies : Len(s) <= Len(t)
    BY <1>1, <1>3, <1>4
  <1> QED BY <1>5 DEF Highest

(* The copy kept is one that holds the file, and a prepared one if any is. *)
LEMMA KeptCopyIsHeld ==
  ASSUME NEW copies \in SUBSET Folder, NEW f \in File,
         {s \in copies : row[s][f] # "none"} # {}
  PROVE  /\ KeptCopy(copies, f) \in copies
         /\ row[KeptCopy(copies, f)][f] # "none"
         /\ (\E s \in copies : row[s][f] = "indexed")
              => row[KeptCopy(copies, f)][f] = "indexed"
  <1> DEFINE held == {s \in copies : row[s][f] # "none"}
             prepared == {s \in held : row[s][f] = "indexed"}
  <1>1. CASE prepared # {}
    <2>1. Highest(prepared) \in prepared BY <1>1, HighestIsThere
    <2> QED BY <1>1, <2>1 DEF KeptCopy
  <1>2. CASE prepared = {}
    <2>1. Highest(held) \in held BY HighestIsThere
    <2> QED BY <1>2, <2>1 DEF KeptCopy
  <1> QED BY <1>1, <1>2

-----------------------------------------------------------------------------
(* The invariant *)

(* A scan is queued for added folders only.                                *)
QueueAdded == jobs \subseteq Added

(* A scan is live while its folder is added, and walks below it; the row   *)
(* it has read is there.                                                   *)
ScanSound ==
  /\ scan.live => scan.folder \in Added
  /\ scan.folder = None => ~scan.live /\ scan.todo = {} /\ scan.file = None
  /\ \A f \in File : f \in scan.todo \/ f = scan.file => IsStrictPrefix(scan.folder, f)
  /\ scan.row # None => row[scan.row][scan.file] # "none"

(* While a folder is being added it has no rows and no scan, and what it   *)
(* is to take in lies below it.                                            *)
AddSound ==
  window.at \in {"absorb", "undo"} =>
    /\ window.folder \in Added /\ mode[window.folder] = "deep"
    /\ \A t \in window.inside : IsStrictPrefix(window.folder, t)
    /\ \A f \in File : row[window.folder][f] = "none"
    /\ window.folder \notin jobs
    /\ scan.folder = window.folder => ~scan.live
    /\ scan.row # window.folder

QueueSound == window.at = "queue" => window.folder \in Added

CatalogSound ==
  /\ TypeOK /\ RowsAreCovered /\ QueueAdded /\ ScanSound /\ AddSound /\ QueueSound

(* No folder lies in another that covers it, but those about to be taken in. *)
NoOverlap ==
  ~untidy =>
    /\ window.at \in {"idle", "queue"} => \A s, t \in Added : ~CoveredBy(t, s)
    /\ window.at \in {"absorb", "undo"} =>
         \A s, t \in Added : CoveredBy(t, s) => s = window.folder /\ t \in window.inside

FoldersInv == CatalogSound /\ NoOverlap

ScanType ==
  [folder : Folder \union {None}, live : BOOLEAN, todo : SUBSET File,
   file : File \union {None}, known : BOOLEAN, row : Folder \union {None}]
WindowType ==
  [at : {"idle", "absorb", "undo", "queue", "combine"},
   folder : Folder \union {None}, inside : SUBSET Folder]

LEMMA IdleTyped == Idle \in WindowType /\ NoScan \in ScanType
  BY DEF Idle, NoScan, WindowType, ScanType

-----------------------------------------------------------------------------
(* What deleting and taking in do *)

LEMMA RowsTyped ==
  ASSUME row \in [Folder -> [File -> Status]], NEW s \in Folder, NEW f \in File
  PROVE  row[s][f] \in Status
  OBVIOUS

LEMMA DeletedSound ==
  ASSUME CatalogSound, NEW s \in Folder, Deleted(s)
  PROVE  /\ mode' \in [Folder -> {"none", "deep", "top"}]
         /\ row' \in [Folder -> [File -> Status]]
         /\ seen' \subseteq Folder \X File /\ jobs' \subseteq Folder
         /\ scan' \in ScanType
         /\ scan'.file = None => scan'.row = None /\ ~scan'.known
         /\ RowsAreCovered' /\ QueueAdded' /\ ScanSound'
         /\ Added' = Added \ {s}
         /\ \A t \in Folder \ {s} : mode'[t] = mode[t]
  <1> USE DEF CatalogSound, TypeOK, ScanType
  <1>1. /\ mode' = [mode EXCEPT ![s] = "none"]
        /\ row' = [row EXCEPT ![s] = [f \in File |-> "none"]]
        /\ seen' = {p \in seen : p[1] # s}
        /\ jobs' = jobs \ {s}
    BY DEF Deleted
  <1>2. /\ mode' \in [Folder -> {"none", "deep", "top"}]
        /\ row' \in [Folder -> [File -> Status]]
        /\ seen' \subseteq Folder \X File /\ jobs' \subseteq Folder
    BY <1>1 DEF Status
  <1>3. Added' = Added \ {s}
    BY <1>1 DEF Added
  <1>4. /\ scan' \in ScanType
        /\ scan'.live <=> scan.live /\ scan.folder # s
        /\ scan'.folder = scan.folder /\ scan'.todo = scan.todo
        /\ scan'.file = scan.file /\ scan'.known = scan.known
        /\ scan'.row = IF scan.row = s THEN None ELSE scan.row
    BY DEF Deleted, ScanLoses
  <1>5. RowsAreCovered'
    BY <1>1, <1>3 DEF RowsAreCovered, Holds, Added
  <1>6. scan'.row # None => row'[scan'.row][scan'.file] # "none"
    BY <1>1, <1>4 DEF ScanSound
  <1>7. QueueAdded' /\ ScanSound'
    BY <1>1, <1>3, <1>4, <1>6 DEF QueueAdded, ScanSound
  <1> QED BY <1>1, <1>2, <1>3, <1>4, <1>5, <1>7

LEMMA AbsorbSound ==
  ASSUME CatalogSound, NEW outer \in Added, NEW inside \in SUBSET Folder,
         \A t \in inside : IsStrictPrefix(outer, t), AbsorbIn(outer, inside)
  PROVE  /\ mode' \in [Folder -> {"none", "deep", "top"}]
         /\ row' \in [Folder -> [File -> Status]]
         /\ seen' \subseteq Folder \X File /\ jobs' \subseteq Folder
         /\ scan' \in ScanType
         /\ scan'.file = None => scan'.row = None /\ ~scan'.known
         /\ RowsAreCovered' /\ QueueAdded' /\ ScanSound'
         /\ Added' = Added \ inside /\ outer \in Added'
         /\ \A t \in Folder \ (inside \union {outer}) : mode'[t] = mode[t]
         /\ \A f \in File : Prepared(f) => Prepared(f)'
  <1> USE DEF CatalogSound, TypeOK, ScanType
  <1> DEFINE copies == {outer} \union inside
             held(f) == {s \in copies : row[s][f] # "none"}
             kept(f) == IF held(f) = {} THEN None ELSE KeptCopy(copies, f)
  <1>1. outer \in Folder /\ outer \notin inside /\ copies \in SUBSET Folder
    BY DEF Added, IsStrictPrefix
  <1>2. /\ mode' = [s \in Folder |-> IF s \in inside THEN "none"
                                     ELSE IF s = outer THEN "deep" ELSE mode[s]]
        /\ row' = [s \in Folder |-> [f \in File |->
                     IF s \in inside THEN "none"
                     ELSE IF s = outer /\ held(f) # {} THEN row[kept(f)][f]
                     ELSE row[s][f]]]
        /\ seen' = {p \in seen : p[1] \notin copies \/ (p[1] = outer /\ kept(p[2]) = outer)}
        /\ jobs' = jobs \ inside
        /\ scan' = [ScanLoses(inside) EXCEPT
                     !.row = IF @ \notin copies THEN @
                             ELSE IF kept(scan.file) = @ THEN outer ELSE None]
    BY DEF AbsorbIn
  <1>3. ASSUME NEW f \in File, held(f) # {}
        PROVE  /\ kept(f) \in copies /\ kept(f) \in Folder
               /\ row[kept(f)][f] # "none" /\ row[kept(f)][f] \in Status
               /\ (\E s \in copies : row[s][f] = "indexed") => row[kept(f)][f] = "indexed"
    <2>1. /\ KeptCopy(copies, f) \in copies /\ row[KeptCopy(copies, f)][f] # "none"
          /\ (\E s \in copies : row[s][f] = "indexed")
               => row[KeptCopy(copies, f)][f] = "indexed"
      BY <1>1, <1>3, KeptCopyIsHeld
    <2> QED BY <1>1, <1>3, <2>1, RowsTyped
  <1> HIDE DEF kept
  <1>4. /\ mode' \in [Folder -> {"none", "deep", "top"}]
        /\ seen' \subseteq Folder \X File /\ jobs' \subseteq Folder
    BY <1>2
  <1>5. row' \in [Folder -> [File -> Status]]
    <2>1. ASSUME NEW s \in Folder, NEW f \in File
          PROVE  (IF s \in inside THEN "none"
                  ELSE IF s = outer /\ held(f) # {} THEN row[kept(f)][f]
                  ELSE row[s][f]) \in Status
      BY <1>3, RowsTyped DEF Status
    <2> HIDE DEF held
    <2> QED BY <1>2, <2>1
  <1>6. Added' = Added \ inside /\ outer \in Added'
    BY <1>1, <1>2 DEF Added
  <1>7. /\ scan' \in ScanType
        /\ scan'.live <=> scan.live /\ scan.folder \notin inside
        /\ scan'.folder = scan.folder /\ scan'.todo = scan.todo
        /\ scan'.file = scan.file /\ scan'.known = scan.known
        /\ scan'.row = IF scan.row \notin copies THEN scan.row
                       ELSE IF kept(scan.file) = scan.row THEN outer ELSE None
    BY <1>1, <1>2, SMTT(15), ZenonT(30) DEF ScanLoses
  <1>8. scan'.file = None => scan'.row = None /\ ~scan'.known
    BY <1>1, <1>7, FoldersAssumption
  <1>9. QueueAdded' /\ ScanSound'
    <2>1. ASSUME scan'.row # None
          PROVE  row'[scan'.row][scan'.file] # "none"
      <3>1. scan.row \in Folder /\ scan.file \in File /\ row[scan.row][scan.file] # "none"
        BY <1>1, <1>7, <2>1, FoldersAssumption DEF ScanSound
      <3>2. CASE scan.row \notin copies
        BY <1>2, <1>7, <3>1, <3>2, SMTT(15), ZenonT(30)
      <3>3. CASE scan.row \in copies
        <4>1. kept(scan.file) = scan.row /\ scan'.row = outer
          BY <1>7, <2>1, <3>3
        <4>2. held(scan.file) # {}
          BY <3>1, <3>3
        <4> QED BY <1>1, <1>2, <1>7, <3>1, <4>1, <4>2, SMTT(15), ZenonT(30)
      <3> QED BY <3>2, <3>3
    <2> QED BY <1>2, <1>6, <1>7, <2>1, SMTT(15), ZenonT(30) DEF QueueAdded, ScanSound
  <1>10. RowsAreCovered'
    <2> SUFFICES ASSUME NEW s \in Folder, NEW f \in File, row'[s][f] # "none"
                 PROVE  s \in Added' /\ Holds(s, f)'
      BY DEF RowsAreCovered
    <2>1. s \notin inside
      BY <1>2
    <2>2. CASE s = outer
      <3>1. IsStrictPrefix(outer, f)
        <4>1. held(f) # {}
          BY <1>2, <2>1, <2>2
        <4>2. kept(f) \in copies /\ row[kept(f)][f] # "none" /\ kept(f) \in Folder
          BY <1>3, <4>1
        <4>3. IsStrictPrefix(kept(f), f)
          BY <4>2 DEF RowsAreCovered, Holds
        <4>4. CASE kept(f) = outer BY <4>3, <4>4
        <4>5. CASE kept(f) \in inside
          BY <1>1, <4>2, <4>3, <4>5, Paths, PrefixTransitive
        <4> QED BY <4>2, <4>4, <4>5
      <3> QED BY <1>1, <1>2, <1>6, <2>2, <3>1 DEF Holds
    <2>3. CASE s # outer
      <3>1. row[s][f] # "none" /\ mode'[s] = mode[s]
        BY <1>2, <2>1, <2>3
      <3> QED BY <1>6, <2>1, <3>1 DEF RowsAreCovered, Holds
    <2> QED BY <2>2, <2>3
  <1>11. ASSUME NEW f \in File, Prepared(f)
         PROVE  Prepared(f)'
    <2>1. PICK s \in Folder : row[s][f] = "indexed"
      BY <1>11 DEF Prepared
    <2>2. CASE s \in copies
      <3>1. held(f) # {}
        BY <2>1, <2>2
      <3>2. row'[outer][f] = "indexed"
        BY <1>1, <1>2, <1>3, <2>1, <2>2, <3>1
      <3> QED BY <1>1, <3>2 DEF Prepared
    <2>3. CASE s \notin copies
      <3>1. row'[s][f] = "indexed"
        BY <1>2, <2>1, <2>3
      <3> QED BY <3>1 DEF Prepared
    <2> QED BY <2>2, <2>3
  <1>12. \A t \in Folder \ (inside \union {outer}) : mode'[t] = mode[t]
    BY <1>2
  <1> QED BY <1>4, <1>5, <1>6, <1>7, <1>8, <1>9, <1>10, <1>11, <1>12

-----------------------------------------------------------------------------
(* The window's thread *)

LEMMA InitSound == Init => FoldersInv
  <1> SUFFICES ASSUME Init PROVE FoldersInv
    OBVIOUS
  <1>1. TypeOK
    <2>1. /\ scan \in ScanType /\ scan.row = None /\ ~scan.known
          /\ window \in WindowType
      BY IdleTyped DEF Init, NoScan, WindowType, Idle
    <2>2. row \in [Folder -> [File -> Status]]
      <3>1. "none" \in Status BY DEF Status
      <3>2. [f \in File |-> "none"] \in [File -> Status] BY <3>1
      <3> QED BY <3>2 DEF Init
    <2>3. mode \in [Folder -> {"none", "deep", "top"}]
      BY DEF Init
    <2>4. /\ seen \subseteq Folder \X File /\ jobs \subseteq Folder
          /\ untidy \in BOOLEAN
      BY DEF Init
    <2>5. asked \in 0 .. MaxAsked /\ crashes \in 0 .. MaxCrash
      BY FoldersAssumption DEF Init
    <2> QED BY <2>1, <2>2, <2>3, <2>4, <2>5 DEF TypeOK, ScanType, WindowType
  <1>2. RowsAreCovered /\ QueueAdded /\ ScanSound /\ AddSound /\ QueueSound /\ NoOverlap
    BY FoldersAssumption DEF Init, RowsAreCovered, QueueAdded, ScanSound, AddSound,
       QueueSound, NoOverlap, NoScan, Idle
  <1> QED BY <1>1, <1>2 DEF FoldersInv, CatalogSound

LEMMA AskTyped ==
  ASSUME TypeOK, Ask
  PROVE  window.at = "idle" /\ asked' \in 0 .. MaxAsked
  BY FoldersAssumption DEF TypeOK, Ask, Idle

LEMMA AddSourceKeeps ==
  ASSUME FoldersInv, NEW s \in Folder, AddSource(s)
  PROVE  FoldersInv'
  <1> USE DEF FoldersInv, CatalogSound
  <1>1. /\ window.at = "idle" /\ asked' \in 0 .. MaxAsked
        /\ s \notin Added /\ (\A t \in Folder : ~CoveredBy(s, t))
        /\ mode' = [mode EXCEPT ![s] = "deep"]
        /\ window' = [at |-> IF Inside(s) = {} THEN "queue" ELSE "absorb",
                      folder |-> s, inside |-> Inside(s)]
        /\ UNCHANGED <<row, seen, jobs, scan, crashes, untidy>>
    BY AskTyped DEF AddSource
  <1>2. Inside(s) \subseteq Folder /\ Added' = Added \union {s}
    BY <1>1 DEF Inside, Added, TypeOK
  <1>3. TypeOK'
    BY <1>1, <1>2 DEF TypeOK
  <1>4. \A f \in File : row[s][f] = "none"
    BY <1>1 DEF RowsAreCovered
  <1>5. RowsAreCovered'
    BY <1>1, <1>2, <1>4 DEF RowsAreCovered, Holds, TypeOK
  <1>6. QueueAdded' /\ ScanSound' /\ QueueSound'
    BY <1>1, <1>2 DEF QueueAdded, ScanSound, QueueSound
  <1>7. AddSound'
    <2>1. s \notin jobs /\ (scan.folder = s => ~scan.live)
      BY <1>1 DEF QueueAdded, ScanSound
    <2>2. scan.row # s
      BY <1>4, FoldersAssumption DEF ScanSound, TypeOK
    <2>3. mode'[s] = "deep"
      BY <1>1 DEF TypeOK
    <2> QED BY <1>1, <1>2, <1>4, <2>1, <2>2, <2>3 DEF AddSound, Inside
  <1>8. NoOverlap'
    <2>1. ASSUME ~untidy, NEW t \in Added', NEW u \in Added', CoveredBy(t, u)'
          PROVE  u = s /\ t \in Inside(s)
      <3>1. t \in Folder /\ u \in Folder
        BY <2>1 DEF Added
      <3>2. CASE u = s
        <4>1. IsStrictPrefix(s, t) /\ t # s
          BY <2>1, <3>2 DEF CoveredBy, IsStrictPrefix
        <4> QED BY <1>2, <2>1, <3>2, <4>1 DEF Inside
      <3>3. CASE u # s
        <4>1. CoveredBy(t, u) /\ u \in Added
          BY <1>1, <1>2, <2>1, <3>1, <3>3 DEF CoveredBy, TypeOK
        <4>2. t \in Added
          BY <1>1, <1>2, <2>1, <3>1, <4>1
        <4> QED BY <1>1, <2>1, <4>1, <4>2 DEF NoOverlap
      <3> QED BY <3>2, <3>3
    <2> QED BY <1>1, <2>1 DEF NoOverlap
  <1> QED BY <1>3, <1>5, <1>6, <1>7, <1>8

LEMMA AbsorbKeeps ==
  ASSUME FoldersInv, Absorb
  PROVE  FoldersInv'
  <1> USE DEF FoldersInv, CatalogSound
  <1> DEFINE outer == window.folder
             inside == window.inside
  <1>1. /\ window.at = "absorb" /\ AbsorbIn(outer, inside)
        /\ window' = [window EXCEPT !.at = "queue"]
        /\ UNCHANGED <<asked, crashes, untidy>>
    BY DEF Absorb
  <1>2. /\ outer \in Added /\ inside \in SUBSET Folder /\ mode[outer] = "deep"
        /\ \A t \in inside : IsStrictPrefix(outer, t)
    BY <1>1 DEF AddSound, TypeOK
  <1>3. /\ mode' \in [Folder -> {"none", "deep", "top"}]
        /\ row' \in [Folder -> [File -> Status]]
        /\ seen' \subseteq Folder \X File /\ jobs' \subseteq Folder
        /\ scan' \in ScanType
        /\ scan'.file = None => scan'.row = None /\ ~scan'.known
        /\ RowsAreCovered' /\ QueueAdded' /\ ScanSound'
        /\ Added' = Added \ inside /\ outer \in Added'
        /\ \A t \in Folder \ (inside \union {outer}) : mode'[t] = mode[t]
    BY <1>1, <1>2, AbsorbSound
  <1>4. window' \in WindowType /\ window'.at = "queue" /\ window'.folder = outer
    BY <1>1 DEF TypeOK, WindowType
  <1>5. TypeOK'
    BY <1>1, <1>3, <1>4 DEF TypeOK, ScanType, WindowType
  <1>6. AddSound' /\ QueueSound'
    BY <1>3, <1>4 DEF AddSound, QueueSound
  <1>7. NoOverlap'
    <2>1. ASSUME ~untidy, NEW t \in Added', NEW s \in Added', CoveredBy(t, s)'
          PROVE  FALSE
      <3>1. s \in Added /\ t \in Added /\ s \in Folder /\ s \notin inside /\ t \notin inside
        BY <1>3 DEF Added
      <3>2. mode[s] = "deep"
        BY <1>2, <1>3, <2>1, <3>1 DEF CoveredBy
      <3>3. CoveredBy(t, s)
        BY <2>1, <3>1, <3>2 DEF CoveredBy
      <3> QED BY <1>1, <2>1, <3>1, <3>3 DEF NoOverlap
    <2> QED BY <1>1, <1>4, <2>1 DEF NoOverlap
  <1> QED BY <1>3, <1>5, <1>6, <1>7

LEMMA UndoAddKeeps ==
  ASSUME FoldersInv, UndoAdd
  PROVE  FoldersInv'
  <1> USE DEF FoldersInv, CatalogSound
  <1>1. window.at = "undo" /\ window' = Idle /\ UNCHANGED <<asked, crashes>>
    BY DEF UndoAdd
  <1>2. window' \in WindowType /\ window'.at = "idle"
    BY <1>1, IdleTyped DEF Idle
  <1>3. CASE Deleted(window.folder) /\ UNCHANGED untidy
    <2>1. window.folder \in Folder
      BY <1>1 DEF AddSound, Added
    <2>2. /\ mode' \in [Folder -> {"none", "deep", "top"}]
          /\ row' \in [Folder -> [File -> Status]]
          /\ seen' \subseteq Folder \X File /\ jobs' \subseteq Folder
          /\ scan' \in ScanType
          /\ scan'.file = None => scan'.row = None /\ ~scan'.known
          /\ RowsAreCovered' /\ QueueAdded' /\ ScanSound'
          /\ Added' = Added \ {window.folder}
          /\ \A t \in Folder \ {window.folder} : mode'[t] = mode[t]
      BY <1>3, <2>1, DeletedSound
    <2>3. TypeOK'
      BY <1>1, <1>2, <1>3, <2>2 DEF TypeOK, ScanType, WindowType
    <2>4. AddSound' /\ QueueSound'
      BY <1>2 DEF AddSound, QueueSound
    <2>5. NoOverlap'
      <3>1. ASSUME ~untidy, NEW t \in Added', NEW s \in Added', CoveredBy(t, s)'
            PROVE  FALSE
        <4>1. s \in Added /\ t \in Added /\ s \in Folder /\ s # window.folder
          BY <2>2 DEF Added
        <4>2. CoveredBy(t, s)
          BY <2>2, <3>1, <4>1 DEF CoveredBy
        <4> QED BY <1>1, <3>1, <4>1, <4>2 DEF NoOverlap
      <3> QED BY <1>2, <1>3, <3>1 DEF NoOverlap
    <2> QED BY <2>2, <2>3, <2>4, <2>5
  <1>4. CASE untidy' = TRUE /\ UNCHANGED <<catalog, scan>>
    <2>1. TypeOK'
      BY <1>1, <1>2, <1>4 DEF TypeOK, catalog, WindowType
    <2>2. RowsAreCovered' /\ QueueAdded' /\ ScanSound'
      BY <1>4 DEF catalog, RowsAreCovered, Holds, Added, QueueAdded, ScanSound
    <2>3. AddSound' /\ QueueSound' /\ NoOverlap'
      BY <1>2, <1>4 DEF AddSound, QueueSound, NoOverlap
    <2> QED BY <2>1, <2>2, <2>3
  <1> QED BY <1>3, <1>4 DEF UndoAdd

LEMMA WindowWaits ==
  ASSUME FoldersInv, AbsorbFails \/ QueueScan
  PROVE  FoldersInv'
  <1> USE DEF FoldersInv, CatalogSound
  <1>1. CASE AbsorbFails
    <2>1. /\ window.at = "absorb" /\ UNCHANGED <<catalog, scan, asked, crashes, untidy>>
          /\ window' \in WindowType /\ window'.at = "undo"
          /\ window'.folder = window.folder /\ window'.inside = window.inside
      BY <1>1 DEF AbsorbFails, TypeOK, WindowType
    <2>2. TypeOK'
      BY <2>1 DEF TypeOK, catalog, WindowType
    <2>3. RowsAreCovered' /\ QueueAdded' /\ ScanSound'
      BY <2>1 DEF catalog, RowsAreCovered, Holds, Added, QueueAdded, ScanSound
    <2>4. AddSound' /\ QueueSound'
      BY <2>1 DEF catalog, AddSound, QueueSound, Added
    <2>5. NoOverlap'
      BY <2>1 DEF NoOverlap, CoveredBy, Added, catalog
    <2> QED BY <2>2, <2>3, <2>4, <2>5
  <1>2. CASE QueueScan
    <2>1. /\ window.at = "queue" /\ UNCHANGED <<mode, row, seen, scan, asked, crashes, untidy>>
          /\ window' \in WindowType /\ window'.at = "idle"
          /\ jobs' = jobs \union {window.folder}
      BY <1>2, IdleTyped DEF QueueScan, Idle
    <2>2. window.folder \in Added /\ window.folder \in Folder
      BY <2>1 DEF QueueSound, Added
    <2>3. TypeOK'
      BY <2>1, <2>2 DEF TypeOK, WindowType
    <2>4. RowsAreCovered' /\ QueueAdded' /\ ScanSound'
      BY <2>1, <2>2 DEF RowsAreCovered, Holds, Added, QueueAdded, ScanSound
    <2>5. AddSound' /\ QueueSound'
      BY <2>1 DEF AddSound, QueueSound
    <2>6. NoOverlap'
      BY <2>1 DEF NoOverlap, CoveredBy, Added
    <2> QED BY <2>3, <2>4, <2>5, <2>6
  <1> QED BY <1>1, <1>2

LEMMA WidenSourceKeeps ==
  ASSUME FoldersInv, NEW s \in Folder, WidenSource(s)
  PROVE  FoldersInv'
  <1> USE DEF FoldersInv, CatalogSound
  <1>1. /\ window.at = "idle" /\ asked' \in 0 .. MaxAsked
        /\ mode[s] = "top" /\ AbsorbIn(s, Inside(s))
        /\ window' = [Idle EXCEPT !.at = "queue", !.folder = s]
        /\ UNCHANGED <<crashes, untidy>>
    BY AskTyped DEF WidenSource
  <1>2. /\ s \in Added /\ Inside(s) \in SUBSET Folder
        /\ \A t \in Inside(s) : IsStrictPrefix(s, t)
    BY <1>1 DEF Inside, Added
  <1>3. /\ mode' \in [Folder -> {"none", "deep", "top"}]
        /\ row' \in [Folder -> [File -> Status]]
        /\ seen' \subseteq Folder \X File /\ jobs' \subseteq Folder
        /\ scan' \in ScanType
        /\ scan'.file = None => scan'.row = None /\ ~scan'.known
        /\ RowsAreCovered' /\ QueueAdded' /\ ScanSound'
        /\ Added' = Added \ Inside(s) /\ s \in Added'
        /\ \A t \in Folder \ (Inside(s) \union {s}) : mode'[t] = mode[t]
    BY <1>1, <1>2, AbsorbSound
  <1>4. window' \in WindowType /\ window'.at = "queue" /\ window'.folder = s
    BY <1>1 DEF Idle, WindowType
  <1>5. TypeOK'
    BY <1>1, <1>3, <1>4 DEF TypeOK, ScanType, WindowType
  <1>6. AddSound' /\ QueueSound'
    BY <1>3, <1>4 DEF AddSound, QueueSound
  <1>7. NoOverlap'
    <2>1. ASSUME ~untidy, NEW t \in Added', NEW u \in Added', CoveredBy(t, u)'
          PROVE  FALSE
      <3>1. u \in Added /\ t \in Added /\ u \in Folder /\ u \notin Inside(s) /\ t \notin Inside(s)
        BY <1>3 DEF Added
      <3>2. CASE u = s
        BY <2>1, <3>1, <3>2 DEF CoveredBy, Inside
      <3>3. CASE u # s
        <4>1. CoveredBy(t, u)
          BY <1>3, <2>1, <3>1, <3>3 DEF CoveredBy
        <4> QED BY <1>1, <2>1, <3>1, <4>1 DEF NoOverlap
      <3> QED BY <3>2, <3>3
    <2> QED BY <1>1, <1>4, <2>1 DEF NoOverlap
  <1> QED BY <1>3, <1>5, <1>6, <1>7

LEMMA RemoveSourceKeeps ==
  ASSUME FoldersInv, NEW s \in Folder, RemoveSource(s)
  PROVE  FoldersInv'
  <1> USE DEF FoldersInv, CatalogSound
  <1>1. /\ window.at = "idle" /\ asked' \in 0 .. MaxAsked /\ Deleted(s)
        /\ UNCHANGED <<window, crashes, untidy>>
    BY AskTyped DEF RemoveSource
  <1>2. /\ mode' \in [Folder -> {"none", "deep", "top"}]
        /\ row' \in [Folder -> [File -> Status]]
        /\ seen' \subseteq Folder \X File /\ jobs' \subseteq Folder
        /\ scan' \in ScanType
        /\ scan'.file = None => scan'.row = None /\ ~scan'.known
        /\ RowsAreCovered' /\ QueueAdded' /\ ScanSound'
        /\ Added' = Added \ {s}
        /\ \A t \in Folder \ {s} : mode'[t] = mode[t]
    BY <1>1, DeletedSound
  <1>3. TypeOK'
    BY <1>1, <1>2 DEF TypeOK, ScanType
  <1>4. AddSound' /\ QueueSound'
    BY <1>1 DEF AddSound, QueueSound
  <1>5. NoOverlap'
    <2>1. ASSUME ~untidy, NEW t \in Added', NEW u \in Added', CoveredBy(t, u)'
          PROVE  FALSE
      <3>1. u \in Added /\ t \in Added /\ u \in Folder /\ u # s
        BY <1>2 DEF Added
      <3>2. CoveredBy(t, u)
        BY <1>2, <2>1, <3>1 DEF CoveredBy
      <3> QED BY <1>1, <2>1, <3>1, <3>2 DEF NoOverlap
    <2> QED BY <1>1, <2>1 DEF NoOverlap
  <1> QED BY <1>2, <1>3, <1>4, <1>5

LEMMA RefreshSourceKeeps ==
  ASSUME FoldersInv, NEW s \in Folder, RefreshSource(s)
  PROVE  FoldersInv'
  <1> USE DEF FoldersInv, CatalogSound
  <1>1. /\ window.at = "idle" /\ asked' \in 0 .. MaxAsked
        /\ s \in Added /\ jobs' = jobs \union {s}
        /\ UNCHANGED <<mode, row, seen, scan, window, crashes, untidy>>
    BY AskTyped DEF RefreshSource
  <1>2. TypeOK'
    BY <1>1 DEF TypeOK
  <1>3. RowsAreCovered' /\ QueueAdded' /\ ScanSound'
    BY <1>1 DEF RowsAreCovered, Holds, Added, QueueAdded, ScanSound
  <1>4. AddSound' /\ QueueSound' /\ NoOverlap'
    BY <1>1 DEF AddSound, QueueSound, NoOverlap, CoveredBy, Added
  <1> QED BY <1>2, <1>3, <1>4

LEMMA NarrowToTopLevelKeeps ==
  ASSUME FoldersInv, NEW s \in Folder, NarrowToTopLevel(s)
  PROVE  FoldersInv'
  <1> USE DEF FoldersInv, CatalogSound
  <1>1. /\ window.at # "combine" /\ asked' \in 0 .. MaxAsked /\ mode[s] = "deep"
        /\ ~(window.at \in {"absorb", "undo"} /\ window.folder = s)
        /\ mode' = [mode EXCEPT ![s] = "top"]
        /\ row' = [row EXCEPT ![s] = [f \in File |-> IF IsTopLevel(s, f) THEN @[f] ELSE "none"]]
        /\ seen' = {p \in seen : p[1] # s \/ IsTopLevel(s, p[2])}
        /\ UNCHANGED <<jobs, window, crashes, untidy>>
    BY FoldersAssumption DEF NarrowToTopLevel, TypeOK
  <1>2. s \in Added /\ Added' = Added /\ \A t \in Folder \ {s} : mode'[t] = mode[t]
    BY <1>1 DEF Added, TypeOK
  <1>3. /\ scan' \in ScanType
        /\ scan'.live = scan.live /\ scan'.folder = scan.folder
        /\ scan'.todo = scan.todo /\ scan'.file = scan.file /\ scan'.known = scan.known
        /\ scan'.row = IF scan.row = s /\ ~IsTopLevel(s, scan.file) THEN None ELSE scan.row
    BY DEF NarrowToTopLevel, TypeOK, ScanType
  <1>4. \A t \in Folder, f \in File :
          row'[t][f] = IF t = s /\ ~IsTopLevel(s, f) THEN "none" ELSE row[t][f]
    BY <1>1 DEF TypeOK
  <1>5. row' \in [Folder -> [File -> Status]]
    <2>1. [f \in File |-> IF IsTopLevel(s, f) THEN row[s][f] ELSE "none"] \in [File -> Status]
      BY RowsTyped DEF TypeOK, Status
    <2> QED BY <1>1, <2>1 DEF TypeOK
  <1>6. TypeOK'
    BY <1>1, <1>3, <1>5 DEF TypeOK, ScanType
  <1>7. RowsAreCovered'
    <2>1. mode'[s] = "top"
      BY <1>1 DEF TypeOK
    <2> QED BY <1>2, <1>4, <2>1 DEF RowsAreCovered, Holds
  <1>8. QueueAdded' /\ QueueSound'
    BY <1>1, <1>2 DEF QueueAdded, QueueSound
  <1>9. ScanSound'
    <2>1. scan'.row # None => row'[scan'.row][scan'.file] # "none"
      BY <1>3, <1>4, FoldersAssumption DEF ScanSound, TypeOK
    <2> QED BY <1>2, <1>3, <2>1 DEF ScanSound
  <1>10. AddSound'
    <2> SUFFICES ASSUME window.at \in {"absorb", "undo"}
                 PROVE  AddSound'
      BY <1>1 DEF AddSound
    <2>1. window.folder # s /\ window.folder \in Folder
      BY <1>1 DEF AddSound, Added
    <2>2. window.folder \in Added' /\ mode'[window.folder] = "deep"
      BY <1>2, <2>1 DEF AddSound
    <2>3. \A f \in File : row'[window.folder][f] = "none"
      BY <1>4, <2>1 DEF AddSound
    <2>4. scan'.row # window.folder
      BY <1>3, <2>1, FoldersAssumption DEF AddSound
    <2> QED BY <1>1, <1>3, <2>2, <2>3, <2>4 DEF AddSound
  <1>11. NoOverlap'
    <2>1. ASSUME NEW t \in Added, NEW u \in Added, CoveredBy(t, u)'
          PROVE  CoveredBy(t, u)
      <3>1. u # s
        BY <1>1, <2>1 DEF CoveredBy, TypeOK
      <3> QED BY <1>2, <2>1, <3>1 DEF CoveredBy, Added
    <2> QED BY <1>1, <1>2, <2>1 DEF NoOverlap
  <1> QED BY <1>6, <1>7, <1>8, <1>9, <1>10, <1>11

-----------------------------------------------------------------------------
(* The loop *)

LEMMA StatusKept ==
  ASSUME NEW status \in Status
  PROVE  /\ Restored(status) \in Status /\ Marked(status) \in Status
         /\ Restored(status) = "none" <=> status = "none"
         /\ Marked(status) = "none" <=> status = "none"
         /\ status = "indexed" => Restored(status) = "indexed" /\ Marked(status) = "gone"
  BY DEF Status, Restored, Marked

LEMMA BeginScanKeeps ==
  ASSUME FoldersInv, NEW s \in Folder, BeginScan(s)
  PROVE  FoldersInv'
  <1> USE DEF FoldersInv, CatalogSound
  <1>1. /\ s \in jobs /\ jobs' = jobs \ {s}
        /\ seen' = {p \in seen : p[1] # s}
        /\ UNCHANGED <<mode, row, window, asked, crashes, untidy>>
        /\ scan' \in ScanType
        /\ scan'.folder = s /\ scan'.todo = {f \in File : Holds(s, f)}
        /\ scan'.file = None /\ ~scan'.known /\ scan'.row = None
    BY IdleTyped DEF BeginScan, NoScan, ScanType
  <1>2. TypeOK'
    BY <1>1 DEF TypeOK, ScanType
  <1>3. s \in Added /\ Added' = Added
    BY <1>1 DEF QueueAdded, Added
  <1>4. RowsAreCovered' /\ QueueAdded' /\ QueueSound' /\ NoOverlap'
    BY <1>1, <1>3 DEF RowsAreCovered, Holds, QueueAdded, QueueSound, NoOverlap, CoveredBy
  <1>5. ScanSound'
    BY <1>1, <1>3, FoldersAssumption DEF ScanSound, Holds
  <1>6. AddSound'
    BY <1>1, <1>3, FoldersAssumption DEF AddSound, Added
  <1> QED BY <1>2, <1>4, <1>5, <1>6

LEMMA LookUpKeeps ==
  ASSUME FoldersInv, LookUp
  PROVE  FoldersInv'
  <1> USE DEF FoldersInv, CatalogSound
  <1>1. PICK f \in scan.todo :
          LET known == scan.live /\ row[scan.folder][f] # "none"
          IN scan' = [scan EXCEPT !.todo = @ \ {f}, !.file = f, !.known = known,
                        !.row = IF known THEN scan.folder ELSE None]
    BY DEF LookUp
  <1>2. UNCHANGED <<catalog, window, asked, crashes, untidy>>
    BY DEF LookUp
  <1>3. scan.live => scan.folder \in Folder
    BY DEF ScanSound, Added
  <1>4. /\ scan' \in ScanType
        /\ scan'.live = scan.live /\ scan'.folder = scan.folder
        /\ scan'.todo = scan.todo \ {f} /\ scan'.file = f
        /\ scan'.row = IF scan.live /\ row[scan.folder][f] # "none"
                       THEN scan.folder ELSE None
    BY <1>1, <1>3 DEF TypeOK, ScanType
  <1>5. f \in File /\ f # None
    BY FoldersAssumption DEF TypeOK
  <1>6. TypeOK'
    BY <1>2, <1>4, <1>5 DEF TypeOK, catalog, ScanType
  <1>7. /\ RowsAreCovered' /\ QueueAdded' /\ QueueSound' /\ NoOverlap'
    BY <1>2 DEF catalog, RowsAreCovered, Holds, QueueAdded, QueueSound, NoOverlap,
       CoveredBy, Added
  <1>8. ScanSound'
    BY <1>2, <1>4, <1>5 DEF ScanSound, catalog, Added
  <1>9. AddSound'
    BY <1>2, <1>4, FoldersAssumption DEF AddSound, catalog, Added
  <1> QED BY <1>6, <1>7, <1>8, <1>9

(* What a step of the loop that only writes statuses keeps. *)
LEMMA StatusesWritten ==
  ASSUME FoldersInv, row' \in [Folder -> [File -> Status]],
         seen' \subseteq Folder \X File,
         \A s \in Folder, f \in File : row'[s][f] # "none" =>
           \/ row[s][f] # "none"
           \/ s \in Added /\ Holds(s, f) /\ scan.live /\ scan.folder = s,
         scan' \in ScanType, scan'.file = None, scan'.row = None, ~scan'.known,
         scan'.live \in {scan.live, FALSE}, scan'.folder \in {scan.folder, None},
         scan'.folder = None => ~scan'.live /\ scan'.todo = {},
         scan'.todo \subseteq scan.todo,
         UNCHANGED <<mode, jobs, window, asked, crashes, untidy>>
  PROVE  FoldersInv'
  <1> USE DEF FoldersInv, CatalogSound
  <1>1. TypeOK'
    BY DEF TypeOK, ScanType
  <1>2. Added' = Added
    BY DEF Added
  <1>3. RowsAreCovered'
    BY <1>2 DEF RowsAreCovered, Holds
  <1>4. QueueAdded' /\ QueueSound' /\ NoOverlap'
    BY <1>2 DEF QueueAdded, QueueSound, NoOverlap, CoveredBy
  <1>5. ScanSound'
    <2>1. \A f \in File : ~(f \in scan'.todo \/ f = scan'.file) \/ f \in scan.todo
      BY FoldersAssumption
    <2>2. scan'.folder = None => ~scan'.live /\ scan'.todo = {} /\ scan'.file = None
      OBVIOUS
    <2>3. scan'.live => scan'.folder \in Added'
      BY <1>2 DEF ScanSound
    <2>4. ASSUME NEW f \in File, f \in scan'.todo \/ f = scan'.file
          PROVE  IsStrictPrefix(scan'.folder, f)
      <3>1. f \in scan.todo /\ f \in scan'.todo
        BY <2>1, <2>4, FoldersAssumption
      <3>2. scan'.folder # None
        BY <2>2, <3>1
      <3> QED BY <3>1, <3>2 DEF ScanSound
    <2> QED BY <2>2, <2>3, <2>4 DEF ScanSound
  <1>6. AddSound'
    <2> SUFFICES ASSUME window.at \in {"absorb", "undo"}
                 PROVE  AddSound'
      BY DEF AddSound
    <2>1. window.folder \in Folder /\ window.folder # None
      BY FoldersAssumption DEF AddSound, Added
    <2>2. scan.folder = window.folder => ~scan.live
      BY DEF AddSound
    <2>3. \A f \in File : row'[window.folder][f] = "none"
      BY <2>1, <2>2 DEF AddSound
    <2>4. scan'.folder = window.folder => ~scan'.live
      BY <2>1, <2>2
    <2> QED BY <1>2, <2>1, <2>3, <2>4 DEF AddSound
  <1> QED BY <1>1, <1>3, <1>4, <1>5, <1>6

LEMMA FileDoneSound ==
  ASSUME TypeOK
  PROVE  /\ FileDone \in ScanType
         /\ FileDone.file = None /\ FileDone.row = None /\ ~FileDone.known
         /\ FileDone.live = scan.live /\ FileDone.folder = scan.folder
         /\ FileDone.todo = scan.todo
  BY DEF FileDone, TypeOK, ScanType

LEMMA TouchSeenKeeps ==
  ASSUME FoldersInv, TouchSeen
  PROVE  FoldersInv'
  <1> USE DEF FoldersInv, CatalogSound
  <1>1. scan' = FileDone /\ UNCHANGED <<mode, jobs, window, asked, crashes, untidy>>
    BY DEF TouchSeen
  <1>2. /\ row' \in [Folder -> [File -> Status]] /\ seen' \subseteq Folder \X File
        /\ \A s \in Folder, f \in File : row'[s][f] # "none" => row[s][f] # "none"
    <2>1. CASE scan.row = None
      BY <2>1 DEF TouchSeen, TypeOK
    <2>2. CASE scan.row # None
      <3>1. scan.row \in Folder /\ scan.file \in File
        BY <2>2 DEF TypeOK
      <3>2. /\ row' = [row EXCEPT ![scan.row][scan.file] = Restored(@)]
            /\ seen' = seen \union {<<scan.row, scan.file>>}
        BY <2>2 DEF TouchSeen
      <3>3. row[scan.row][scan.file] \in Status
        BY <3>1, RowsTyped DEF TypeOK
      <3>4. /\ Restored(row[scan.row][scan.file]) \in Status
            /\ Restored(row[scan.row][scan.file]) # "none"
                 => row[scan.row][scan.file] # "none"
        BY <3>3, StatusKept
      <3> QED BY <3>1, <3>2, <3>4 DEF TypeOK
    <2> QED BY <2>1, <2>2
  <1>3. scan.folder = None => ~scan.live /\ scan.todo = {}
    BY DEF ScanSound
  <1> QED BY <1>1, <1>2, <1>3, FileDoneSound, StatusesWritten

LEMMA InsertFileKeeps ==
  ASSUME FoldersInv, InsertFile
  PROVE  FoldersInv'
  <1> USE DEF FoldersInv, CatalogSound
  <1>1. /\ scan.file # None /\ scan' = FileDone
        /\ UNCHANGED <<mode, jobs, window, asked, crashes, untidy>>
    BY DEF InsertFile
  <1>2. /\ row' \in [Folder -> [File -> Status]] /\ seen' \subseteq Folder \X File
        /\ \A s \in Folder, f \in File : row'[s][f] # "none" =>
             \/ row[s][f] # "none"
             \/ s \in Added /\ Holds(s, f) /\ scan.live /\ scan.folder = s
    <2>1. CASE ~MayInsert(scan.folder, scan.file)
      BY <2>1 DEF InsertFile, TypeOK
    <2>2. CASE MayInsert(scan.folder, scan.file)
      <3>1. /\ scan.live /\ scan.folder \in Added /\ scan.folder \in Folder
            /\ scan.file \in File /\ IsStrictPrefix(scan.folder, scan.file)
        BY <1>1, <2>2 DEF MayInsert, Fits, ScanSound, Added, TypeOK
      <3>2. Holds(scan.folder, scan.file)
        BY <2>2, <3>1 DEF MayInsert, Holds
      <3>3. /\ row' = [row EXCEPT ![scan.folder][scan.file] = "discovered"]
            /\ seen' = seen \union {<<scan.folder, scan.file>>}
        BY <2>2 DEF InsertFile
      <3> QED BY <3>1, <3>2, <3>3 DEF TypeOK, Status
    <2> QED BY <2>1, <2>2
  <1>3. scan.folder = None => ~scan.live /\ scan.todo = {}
    BY DEF ScanSound
  <1> QED BY <1>1, <1>2, <1>3, FileDoneSound, StatusesWritten

LEMMA EndScanKeeps ==
  ASSUME FoldersInv, EndScan
  PROVE  FoldersInv'
  <1> USE DEF FoldersInv, CatalogSound
  <1>1. scan' = NoScan /\ UNCHANGED <<mode, seen, jobs, window, asked, crashes, untidy>>
    BY DEF EndScan
  <1>2. /\ row' \in [Folder -> [File -> Status]]
        /\ \A s \in Folder, f \in File : row'[s][f] # "none" => row[s][f] # "none"
    <2>1. CASE ~scan.live
      BY <2>1 DEF EndScan, TypeOK
    <2>2. CASE scan.live
      <3>1. scan.folder \in Folder
        BY <2>2 DEF ScanSound, Added
      <3> DEFINE left == [f \in File |->
                   IF <<scan.folder, f>> \in seen THEN row[scan.folder][f]
                   ELSE Marked(row[scan.folder][f])]
      <3>2. row' = [row EXCEPT ![scan.folder] = left]
        BY <2>2 DEF EndScan
      <3>3. \A f \in File : /\ left[f] \in Status
                            /\ left[f] # "none" => row[scan.folder][f] # "none"
        BY <3>1, RowsTyped, StatusKept DEF TypeOK
      <3>4. left \in [File -> Status]
        BY <3>3
      <3> HIDE DEF left
      <3> QED BY <3>1, <3>2, <3>3, <3>4 DEF TypeOK
    <2> QED BY <2>1, <2>2
  <1>3. /\ scan' \in ScanType /\ scan'.file = None /\ scan'.row = None /\ ~scan'.known
        /\ ~scan'.live /\ scan'.live \in {scan.live, FALSE} /\ scan'.folder = None
        /\ scan'.todo = {}
    BY <1>1, IdleTyped DEF NoScan
  <1> QED BY <1>1, <1>2, <1>3, StatusesWritten DEF TypeOK

LEMMA PrepareKeeps ==
  ASSUME FoldersInv, NEW s \in Folder, NEW f \in File, Prepare(s, f)
  PROVE  FoldersInv'
  <1> USE DEF FoldersInv, CatalogSound
  <1>1. /\ scan = NoScan /\ row[s][f] # "none"
        /\ row' = [row EXCEPT ![s][f] = "indexed"]
        /\ UNCHANGED <<mode, seen, jobs, scan, window, asked, crashes, untidy>>
    BY DEF Prepare
  <1>2. /\ row' \in [Folder -> [File -> Status]]
        /\ \A t \in Folder, g \in File : row'[t][g] # "none" => row[t][g] # "none"
    BY <1>1 DEF TypeOK, Status
  <1>3. /\ scan' \in ScanType /\ scan'.file = None /\ scan'.row = None /\ ~scan'.known
        /\ ~scan'.live /\ scan'.live \in {scan.live, FALSE} /\ scan'.folder = None
        /\ scan'.todo = {}
    BY <1>1, IdleTyped DEF NoScan
  <1> QED BY <1>1, <1>2, <1>3, StatusesWritten DEF TypeOK

-----------------------------------------------------------------------------
(* Crash and startup *)

LEMMA CrashKeeps ==
  ASSUME FoldersInv, Crash
  PROVE  FoldersInv'
  <1> USE DEF FoldersInv, CatalogSound
  <1>1. /\ crashes' \in 0 .. MaxCrash
        /\ jobs' = IF scan.live THEN jobs \union {scan.folder} ELSE jobs
        /\ scan' = NoScan
        /\ window' = [Idle EXCEPT !.at = "combine"]
        /\ untidy' \in BOOLEAN
        /\ UNCHANGED <<mode, row, seen, asked>>
    BY FoldersAssumption DEF Crash, TypeOK
  <1>2. window' \in WindowType /\ window'.at = "combine"
    BY <1>1, IdleTyped DEF Idle, WindowType
  <1>3. scan' \in ScanType /\ scan'.row = None /\ ~scan'.known
    BY <1>1, IdleTyped DEF NoScan
  <1>4. Added' = Added /\ (scan.live => scan.folder \in Added /\ scan.folder \in Folder)
    BY <1>1 DEF Added, ScanSound
  <1>5. TypeOK'
    BY <1>1, <1>2, <1>3, <1>4 DEF TypeOK, ScanType, WindowType
  <1>6. RowsAreCovered' /\ QueueAdded'
    BY <1>1, <1>4 DEF RowsAreCovered, Holds, QueueAdded
  <1>7. ScanSound'
    BY <1>1, FoldersAssumption DEF ScanSound, NoScan
  <1>8. AddSound' /\ QueueSound' /\ NoOverlap'
    BY <1>2 DEF AddSound, QueueSound, NoOverlap
  <1> QED BY <1>5, <1>6, <1>7, <1>8

LEMMA CombineOverlappingKeeps ==
  ASSUME FoldersInv, NEW top \in Folder, CombineOverlapping(top)
  PROVE  FoldersInv'
  <1> USE DEF FoldersInv, CatalogSound
  <1> DEFINE inside == {t \in Added : CoveredBy(t, top)}
  <1>1. /\ window.at = "combine" /\ top \in Added /\ AbsorbIn(top, inside)
        /\ UNCHANGED <<window, asked, crashes, untidy>>
    BY DEF CombineOverlapping
  <1>2. inside \in SUBSET Folder /\ \A t \in inside : IsStrictPrefix(top, t)
    BY DEF Added, CoveredBy
  <1> HIDE DEF inside
  <1>3. /\ mode' \in [Folder -> {"none", "deep", "top"}]
        /\ row' \in [Folder -> [File -> Status]]
        /\ seen' \subseteq Folder \X File /\ jobs' \subseteq Folder
        /\ scan' \in ScanType
        /\ scan'.file = None => scan'.row = None /\ ~scan'.known
        /\ RowsAreCovered' /\ QueueAdded' /\ ScanSound'
    BY <1>1, <1>2, AbsorbSound
  <1>4. TypeOK'
    BY <1>1, <1>3 DEF TypeOK, ScanType
  <1>5. AddSound' /\ QueueSound' /\ NoOverlap'
    BY <1>1 DEF AddSound, QueueSound, NoOverlap
  <1> QED BY <1>3, <1>4, <1>5

LEMMA CheckAllKeeps ==
  ASSUME FoldersInv, CheckAll
  PROVE  FoldersInv'
  <1> USE DEF FoldersInv, CatalogSound
  <1>1. /\ window' \in WindowType /\ window'.at = "idle"
        /\ jobs' = jobs \union Added
        /\ untidy' = (Overlaps # {})
        /\ UNCHANGED <<mode, row, seen, scan, asked, crashes>>
    BY IdleTyped DEF CheckAll, Idle
  <1>2. Added' = Added /\ Added \subseteq Folder
    BY <1>1 DEF Added
  <1>3. TypeOK'
    BY <1>1, <1>2 DEF TypeOK, WindowType
  <1>4. RowsAreCovered' /\ QueueAdded' /\ ScanSound'
    BY <1>1, <1>2 DEF RowsAreCovered, Holds, QueueAdded, ScanSound
  <1>5. AddSound' /\ QueueSound'
    BY <1>1 DEF AddSound, QueueSound
  <1>6. NoOverlap'
    <2>1. ASSUME Overlaps = {}, NEW s \in Added, NEW t \in Added, CoveredBy(t, s)
          PROVE  FALSE
      BY <1>2, <2>1 DEF Overlaps
    <2> QED BY <1>1, <1>2, <2>1 DEF NoOverlap, CoveredBy
  <1> QED BY <1>3, <1>4, <1>5, <1>6

-----------------------------------------------------------------------------
(* Theorems *)

LEMMA StepKeeps ==
  ASSUME FoldersInv, [Next]_vars
  PROVE  FoldersInv'
  <1>1. CASE Window
    <2>1. CASE \E s \in Folder : CombineOverlapping(s)
      BY <2>1, CombineOverlappingKeeps
    <2> QED BY <1>1, <2>1, AbsorbKeeps, WindowWaits, UndoAddKeeps, CheckAllKeeps DEF Window
  <1>2. CASE Loop
    <2>1. CASE \E s \in Folder : BeginScan(s) \/ \E f \in File : Prepare(s, f)
      BY <2>1, BeginScanKeeps, PrepareKeeps
    <2> QED BY <1>2, <2>1, LookUpKeeps, TouchSeenKeeps, InsertFileKeeps, EndScanKeeps DEF Loop
  <1>3. CASE Person
    BY <1>3, AddSourceKeeps, WidenSourceKeeps, RemoveSourceKeeps, RefreshSourceKeeps,
       NarrowToTopLevelKeeps DEF Person
  <1>4. CASE Crash
    BY <1>4, CrashKeeps
  <1>5. CASE UNCHANGED vars
    BY <1>5 DEF vars, catalog, FoldersInv, CatalogSound, TypeOK, RowsAreCovered, Holds,
       QueueAdded, ScanSound, AddSound, QueueSound, NoOverlap, CoveredBy, Added
  <1> QED BY <1>1, <1>2, <1>3, <1>4, <1>5 DEF Next

(* The catalog and what is under way agree at every moment: scans walk     *)
(* below added folders, an add has only its own folder without rows, and   *)
(* no folder lies in another but those about to be taken in.               *)
THEOREM FoldersInvariant == Spec => []FoldersInv
  <1>1. Init => FoldersInv
    BY InitSound
  <1>2. FoldersInv /\ [Next]_vars => FoldersInv'
    BY StepKeeps
  <1> QED BY <1>1, <1>2, PTL DEF Spec

(* A file has a row only in an added folder that covers it, whatever scans *)
(* write while folders are narrowed, taken in and removed (files.rs:183).  *)
THEOREM OnlyCoveredFiles == Spec => []RowsAreCovered
  <1>1. FoldersInv => RowsAreCovered
    BY DEF FoldersInv, CatalogSound
  <1> QED BY <1>1, FoldersInvariant, PTL

LEMMA OneOwner ==
  ASSUME CatalogSound, NEW s \in Folder, NEW t \in Folder, NEW f \in File,
         row[s][f] # "none", row[t][f] # "none", IsStrictPrefix(s, t)
  PROVE  s \in Added /\ t \in Added /\ CoveredBy(t, s)
  <1>1. s \in Added /\ t \in Added /\ Holds(s, f) /\ IsStrictPrefix(t, f)
    BY DEF CatalogSound, RowsAreCovered, Holds
  <1>2. Len(s) < Len(t) /\ Len(t) < Len(f) /\ Len(s) \in Nat /\ Len(t) \in Nat /\ Len(f) \in Nat
    BY <1>1, Paths, PrefixShorter
  <1>3. ~IsTopLevel(s, f)
    BY <1>2 DEF IsTopLevel
  <1> QED BY <1>1, <1>3 DEF Holds, CoveredBy

(* Every file belongs to one folder: for any tree of folders, whatever is  *)
(* cut short by a crash (sources.rs:77-181, 468-528).                      *)
THEOREM OneFolder == Spec => []OneFolderPerFile
  <1>1. ASSUME FoldersInv
        PROVE  OneFolderPerFile
    <2> USE <1>1 DEF FoldersInv
    <2> SUFFICES ASSUME window.at \in {"idle", "queue"}, ~untidy
                 PROVE  /\ Overlaps = {}
                        /\ \A f \in File : Cardinality({s \in Folder : row[s][f] # "none"}) <= 1
      BY DEF OneFolderPerFile
    <2>1. \A s, t \in Added : ~CoveredBy(t, s)
      BY DEF NoOverlap
    <2>2. Overlaps = {}
      BY <2>1 DEF Overlaps, CoveredBy, Added
    <2>3. ASSUME NEW f \in File
          PROVE  Cardinality({s \in Folder : row[s][f] # "none"}) <= 1
      <3> DEFINE holders == {s \in Folder : row[s][f] # "none"}
      <3>1. ASSUME NEW s \in Folder, NEW t \in Folder, row[s][f] # "none",
                   row[t][f] # "none", s # t
            PROVE  FALSE
        <4>1. IsPrefix(s, f) /\ IsPrefix(t, f)
          BY <3>1 DEF CatalogSound, RowsAreCovered, Holds, IsStrictPrefix
        <4>2. s \in Seq(STRING) /\ t \in Seq(STRING) /\ f \in Seq(STRING)
          BY Paths
        <4>3. CASE IsStrictPrefix(s, t)
          BY <2>1, <3>1, <4>3, OneOwner
        <4>4. CASE IsStrictPrefix(t, s)
          BY <2>1, <3>1, <4>4, OneOwner
        <4> QED BY <3>1, <4>1, <4>2, <4>3, <4>4, PrefixesCompare
      <3>2. holders = {} \/ \E s : holders = {s}
        <4>1. CASE holders # {}
          <5>1. PICK s \in holders : TRUE
            BY <4>1
          <5>2. holders = {s}
            BY <3>1, <5>1
          <5> QED BY <5>2
        <4> QED BY <4>1
      <3>3. Cardinality(holders) <= 1
        <4> HIDE DEF holders
        <4>1. CASE holders = {}
          BY <4>1, FS_EmptySet
        <4>2. CASE \E s : holders = {s}
          <5>1. Cardinality(holders) = 1
            BY <4>2, FS_Singleton
          <5> QED BY <5>1
        <4> QED BY <3>2, <4>1, <4>2
      <3> QED BY <3>3
    <2> QED BY <2>2, <2>3
  <1> QED BY <1>1, FoldersInvariant, PTL

LEMMA RowOnlyGrows ==
  ASSUME \A s \in Folder, f \in File :
           row[s][f] = "indexed" => row'[s][f] \in {"indexed", "gone"},
         NEW f \in File, Prepared(f)
  PROVE  \E s \in Folder : row'[s][f] \in {"indexed", "gone"}
  BY DEF Prepared

LEMMA AbsorbedStays ==
  ASSUME CatalogSound, NEW outer \in Added, NEW inside \in SUBSET Folder,
         \A t \in inside : IsStrictPrefix(outer, t), AbsorbIn(outer, inside),
         NEW f \in File, Prepared(f)
  PROVE  \E s \in Folder : row'[s][f] \in {"indexed", "gone"}
  <1>1. Prepared(f)'
    BY AbsorbSound
  <1> QED BY <1>1 DEF Prepared

(* Nothing but removing and narrowing takes back what was prepared: taking *)
(* in keeps the prepared one of several copies (sources.rs:75-92).         *)
THEOREM NothingPreparedIsLost == Spec => PreparedStays
  <1> DEFINE Kept == \A f \in File : Prepared(f) =>
                       \E s \in Folder : row'[s][f] \in {"indexed", "gone"}
             Erasing == \E s \in Folder : RemoveSource(s) \/ NarrowToTopLevel(s)
  <1>1. ASSUME FoldersInv, [Next]_vars
        PROVE  [Erasing \/ Kept]_vars
    <2> USE <1>1 DEF FoldersInv
    <2>1. ASSUME \A s \in Folder, f \in File :
                   row[s][f] = "indexed" => row'[s][f] \in {"indexed", "gone"}
          PROVE  Kept
      BY <2>1, RowOnlyGrows
    <2>2. CASE Absorb
      <3>1. /\ window.folder \in Added /\ window.inside \in SUBSET Folder
            /\ \A t \in window.inside : IsStrictPrefix(window.folder, t)
        BY <2>2 DEF Absorb, CatalogSound, AddSound, TypeOK
      <3> QED BY <2>2, <3>1, AbsorbedStays DEF Absorb
    <2>3. CASE \E s \in Folder : WidenSource(s)
      <3>1. PICK s \in Folder : WidenSource(s)
        BY <2>3
      <3>2. /\ s \in Added /\ Inside(s) \in SUBSET Folder /\ AbsorbIn(s, Inside(s))
            /\ \A t \in Inside(s) : IsStrictPrefix(s, t)
        BY <3>1 DEF WidenSource, Added, Inside
      <3> QED BY <3>2, AbsorbedStays
    <2>4. CASE \E s \in Folder : CombineOverlapping(s)
      <3>1. PICK s \in Folder : CombineOverlapping(s)
        BY <2>4
      <3> DEFINE inside == {t \in Added : CoveredBy(t, s)}
      <3>2. /\ s \in Added /\ inside \in SUBSET Folder /\ AbsorbIn(s, inside)
            /\ \A t \in inside : IsStrictPrefix(s, t)
        BY <3>1 DEF CombineOverlapping, Added, CoveredBy
      <3> HIDE DEF inside
      <3> QED BY <3>2, AbsorbedStays
    <2>5. CASE UndoAdd
      <3>1. CASE Deleted(window.folder)
        <4>1. /\ window.folder \in Folder
              /\ \A f \in File : row[window.folder][f] = "none"
          BY <2>5 DEF UndoAdd, CatalogSound, AddSound, Added
        <4>2. \A s \in Folder, f \in File : row[s][f] = "indexed" => row'[s][f] = "indexed"
          BY <3>1, <4>1 DEF Deleted, CatalogSound, TypeOK
        <4> QED BY <2>1, <4>2
      <3>2. CASE UNCHANGED catalog
        BY <2>1, <3>2 DEF catalog
      <3> QED BY <2>5, <3>1, <3>2 DEF UndoAdd
    <2>6. CASE TouchSeen
      <3>1. CASE scan.row = None
        BY <2>1, <2>6, <3>1 DEF TouchSeen
      <3>2. CASE scan.row # None
        <4>1. scan.row \in Folder /\ scan.file \in File
          BY <3>2 DEF CatalogSound, TypeOK
        <4>2. row' = [row EXCEPT ![scan.row][scan.file] = Restored(row[scan.row][scan.file])]
          BY <2>6, <3>2 DEF TouchSeen
        <4>3. Restored("indexed") = "indexed"
          BY DEF Restored
        <4>4. \A s \in Folder, f \in File : row[s][f] = "indexed" => row'[s][f] = "indexed"
          BY <4>1, <4>2, <4>3 DEF CatalogSound, TypeOK
        <4> QED BY <2>1, <4>4
      <3> QED BY <3>1, <3>2
    <2>7. CASE InsertFile
      <3>1. CASE ~MayInsert(scan.folder, scan.file)
        BY <2>1, <2>7, <3>1 DEF InsertFile
      <3>2. CASE MayInsert(scan.folder, scan.file)
        <4>1. row[scan.folder][scan.file] = "none"
          BY <3>2 DEF MayInsert, Fits
        <4>2. row' = [row EXCEPT ![scan.folder][scan.file] = "discovered"]
          BY <2>7, <3>2 DEF InsertFile
        <4>3. \A s \in Folder, f \in File : row[s][f] = "indexed" => row'[s][f] = "indexed"
          BY <4>1, <4>2 DEF CatalogSound, TypeOK
        <4> QED BY <2>1, <4>3
      <3> QED BY <3>1, <3>2
    <2>8. CASE EndScan
      <3>1. CASE ~scan.live
        BY <2>1, <2>8, <3>1 DEF EndScan
      <3>2. CASE scan.live
        <4>1. row' = [row EXCEPT ![scan.folder] = [f \in File |->
                 IF <<scan.folder, f>> \in seen THEN @[f] ELSE Marked(@[f])]]
          BY <2>8, <3>2 DEF EndScan
        <4>2. Marked("indexed") = "gone"
          BY DEF Marked
        <4>3. \A s \in Folder, f \in File :
                row[s][f] = "indexed" => row'[s][f] \in {"indexed", "gone"}
          BY <4>1, <4>2 DEF CatalogSound, TypeOK
        <4> QED BY <2>1, <4>3
      <3> QED BY <3>1, <3>2
    <2>9. CASE \E s \in Folder, f \in File : Prepare(s, f)
      <3>1. \A s \in Folder, f \in File : row[s][f] = "indexed" => row'[s][f] = "indexed"
        BY <2>9 DEF Prepare, CatalogSound, TypeOK
      <3> QED BY <2>1, <3>1
    <2>10. CASE \E s \in Folder : AddSource(s) \/ RefreshSource(s) \/ BeginScan(s)
      BY <2>1, <2>10 DEF AddSource, RefreshSource, BeginScan
    <2>11. CASE AbsorbFails \/ QueueScan \/ CheckAll \/ LookUp \/ Crash
      BY <2>1, <2>11 DEF AbsorbFails, QueueScan, CheckAll, LookUp, Crash, catalog
    <2>12. CASE Erasing
      BY <2>12
    <2>13. CASE UNCHANGED vars
      BY <2>13
    <2> HIDE DEF Kept, Erasing
    <2> QED
      BY <1>1, <2>2, <2>3, <2>4, <2>5, <2>6, <2>7, <2>8, <2>9, <2>10, <2>11, <2>12, <2>13
      DEF Next, Window, Loop, Person, Erasing
  <1>2. FoldersInv /\ [Next]_vars => [Erasing \/ Kept]_vars
    BY <1>1
  <1> QED BY <1>2, FoldersInvariant, PTL DEF Spec, PreparedStays
=============================================================================
