----------------------------- MODULE Window_proofs -----------------------------
(***************************************************************************)
(* Proofs about the window, for any folders, files, queries and plans.     *)
(***************************************************************************)
EXTENDS Window, SequenceTheorems, FiniteSetTheorems, WellFoundedInduction,
        TLAPS

(* What is sound of the state, and what a message must be for that         *)

Launches == {"OpenResult", "RevealResult"}
Position == Nat \ {0}

(* What a button asks about, and only pressing it sends.                   *)
Confirms == {"ConfirmAddSensitiveFolder", "ConfirmNarrowFolder", "ConfirmRemoveSource",
             "NoticeActionPressed", "ConfirmResetCatalog", "ConfirmRebuild"}

(* The messages that erase, and start to when they arrive.                 *)
Erases == {"SourceRemoved", "NarrowFolderRequested"}

RetrySound(r) ==
  /\ r.to \notin Confirms \union Erases \union {"ShowNotice", "SearchResultsReady",
                    "SubmitSearchCompleted", "SelectResult", "RemoveFromResults"}
  /\ r.to \in Launches => r.result \in Position

Names(notice, results) ==
  notice.kind \in FileProblems /\ notice.retry.to \in Launches
    /\ notice.retry.result <= Len(results)
    => results[notice.retry.result] = notice.about

Shaped(s) ==
  {"query", "results", "running", "status", "selected", "notice"} \subseteq DOMAIN s
Good(s) ==
  /\ Shaped(s)
  /\ s.results \in Seq(File) /\ s.selected \in Nat
  /\ RetrySound(s.notice.retry)
  /\ Names(s.notice, s.results)
Resting(s) == ~s.running /\ s.status # "searching"

(* Messages that start no search.                                          *)
Quiet(s, m) == m.to # "SearchAgain" /\ (m.to = "SubmitSearch" => s.query = None)

FitsTo(m, results) ==
  /\ m.to = "ShowNotice" => RetrySound(m.notice.retry) /\ Names(m.notice, results)
  /\ m.to = "SearchResultsReady" => m.results \in Seq(File)
  /\ m.to \in {"SelectResult", "RemoveFromResults"} => m.result \in Position
Fits(m) ==
  /\ m.to = "ShowNotice" =>
       RetrySound(m.notice.retry) /\ m.notice.kind \notin FileProblems
  /\ m.to = "SearchResultsReady" => m.results \in Seq(File)
  /\ m.to \in {"SelectResult", "RemoveFromResults"} => m.result \in Position

-----------------------------------------------------------------------------
(* One message                                                             *)

(* What the parts of the reducer that are not about results, the selection *)
(* or the notice leave alone.                                              *)
Same(s, t) ==
  /\ DOMAIN t = DOMAIN s
  /\ t.results = s.results /\ t.running = s.running /\ t.status = s.status
  /\ t.selected = s.selected /\ t.notice = s.notice

LEMMA SameIsGood ==
  ASSUME NEW s, NEW t, Same(s, t)
  PROVE  /\ Good(s) => Good(t)
         /\ Resting(s) => Resting(t)
  BY DEF Same, Good, Resting, Shaped

LEMMA QuietArms ==
  ASSUME NEW s, NEW m, Shaped(s)
  PROVE  /\ Same(s, LocationArm(s, m)) /\ Same(s, HistoryArm(s, m))
         /\ Same(s, FolderQuestionArm(s, m)) /\ Same(s, StorageQuestionArm(s, m))
         /\ Same(s, LocationNormalised(s)) /\ Same(s, FolderAddCancelled(s))
  <1>1. Same(s, LocationArm(s, m))
    BY DEF Shaped, Same, LocationArm, PickerEnded, LimitedInsideLeft
  <1>2. Same(s, HistoryArm(s, m))
    BY DEF Shaped, Same, HistoryArm
  <1>3. Same(s, FolderQuestionArm(s, m))
    BY DEF Shaped, Same, FolderQuestionArm
  <1>4. Same(s, StorageQuestionArm(s, m))
    BY DEF Shaped, Same, StorageQuestionArm
  <1>5. Same(s, LocationNormalised(s))
    BY DEF Shaped, Same, LocationNormalised
  <1>6. Same(s, FolderAddCancelled(s))
    BY DEF Shaped, Same, FolderAddCancelled
  <1> QED BY <1>1, <1>2, <1>3, <1>4, <1>5, <1>6

LEMMA RaiseIsGood ==
  ASSUME NEW s, NEW t, NEW notice, Shaped(s), DOMAIN t = DOMAIN s,
         t.results = s.results, t.selected \in Nat,
         t.notice \in {s.notice, NoNotice, notice}, Good(s),
         RetrySound(notice.retry), Names(notice, s.results)
  PROVE  Good(t)
  BY DEF Good, Shaped, RetrySound, Names, NoNotice, Plain, Notice, NoRetry, FileProblems,
         Launches, Confirms, Erases

LEMMA ClearedIsGood ==
  ASSUME NEW s, Good(s)
  PROVE  /\ Good(NoticeCleared(s)) /\ DOMAIN NoticeCleared(s) = DOMAIN s
         /\ NoticeCleared(s).notice = NoNotice
         /\ NoticeCleared(s).results = s.results
         /\ NoticeCleared(s).running = s.running /\ NoticeCleared(s).status = s.status
  <1>1. /\ DOMAIN NoticeCleared(s) = DOMAIN s
        /\ NoticeCleared(s).notice = NoNotice /\ NoticeCleared(s).results = s.results
        /\ NoticeCleared(s).selected = s.selected
        /\ NoticeCleared(s).running = s.running /\ NoticeCleared(s).status = s.status
    BY DEF NoticeCleared, Good, Shaped
  <1>2. RetrySound(NoNotice.retry) /\ Names(NoNotice, s.results)
    BY DEF RetrySound, Names, NoNotice, Plain, Notice, NoRetry, FileProblems, Launches,
       Confirms, Erases
  <1> QED BY <1>1, <1>2 DEF Good, Shaped

LEMMA ShellArmIsGood ==
  ASSUME NEW s, NEW m, Good(s), FitsTo(m, s.results)
  PROVE  /\ Good(ShellArm(s, m)) /\ ShellArm(s, m).results = s.results
         /\ Resting(s) => Resting(ShellArm(s, m))
         /\ m.to # "ShowNotice" => ShellArm(s, m).notice \in {s.notice, NoNotice}
  <1> DEFINE t == ShellArm(s, m)
  <1>1. CASE m.to \notin {"ShowNotice", "ClearNotice", "DismissOverlay"}
    <2>1. Same(s, t)
      BY <1>1 DEF ShellArm, Same, Good, Shaped
    <2> QED BY <1>1, <2>1, SameIsGood DEF Same
  <1>2. CASE m.to = "ShowNotice"
    <2>1. /\ DOMAIN t = DOMAIN s /\ t.results = s.results /\ t.selected = s.selected
          /\ t.running = s.running /\ t.status = s.status
          /\ t.notice \in {s.notice, m.notice}
      BY <1>2 DEF ShellArm, Raise, Raised, Good, Shaped
    <2> QED BY <1>2, <2>1, RaiseIsGood DEF Good, FitsTo, Resting
  <1>3. CASE m.to = "ClearNotice"
    BY <1>3, ClearedIsGood DEF ShellArm, Resting
  <1>4. CASE m.to = "DismissOverlay"
    <2>1. t = Dismissed(s)
      BY <1>4 DEF ShellArm
    <2>2. \/ Same(s, Dismissed(s)) \/ Dismissed(s) = NoticeCleared(s)
          \/ Dismissed(s) = [s EXCEPT !.selected = 0]
      BY QuietArms DEF Dismissed, Same, Good, Shaped
    <2>3. LET z == [s EXCEPT !.selected = 0]
          IN  /\ Good(z) /\ z.results = s.results /\ z.notice = s.notice
              /\ Resting(s) => Resting(z)
      BY DEF Good, Shaped, Resting
    <2> QED BY <1>4, <2>1, <2>2, <2>3, SameIsGood, ClearedIsGood DEF Same, Resting
  <1> QED BY <1>1, <1>2, <1>3, <1>4

LEMMA SelectionArmIsGood ==
  ASSUME NEW s, NEW m, Good(s), FitsTo(m, s.results)
  PROVE  /\ Good(SelectionArm(s, m)) /\ SelectionArm(s, m).results = s.results
         /\ SelectionArm(s, m).notice = s.notice
         /\ Resting(s) => Resting(SelectionArm(s, m))
  <1> DEFINE t == SelectionArm(s, m)
  <1>1. Len(s.results) \in Nat
    BY LenProperties DEF Good
  <1>2. /\ DOMAIN t = DOMAIN s /\ t.results = s.results /\ t.notice = s.notice
        /\ t.running = s.running /\ t.status = s.status
    BY DEF SelectionArm, Good, Shaped
  <1>3. t.selected \in Nat
    BY <1>1 DEF SelectionArm, Good, Shaped, FitsTo, Position
  <1> QED BY <1>2, <1>3 DEF Good, Shaped, Resting

LEMMA RemovedIsGood ==
  ASSUME NEW s, NEW i \in Position, Good(s)
  PROVE  /\ Good(ResultRemoved(s, i))
         /\ Resting(s) => Resting(ResultRemoved(s, i))
         /\ ResultRemoved(s, i).notice \in {s.notice, NoNotice}
  <1>1. CASE i > Len(s.results)
    BY <1>1 DEF ResultRemoved
  <1>2. CASE i <= Len(s.results)
    <2> DEFINE kept == RemoveAt(s.results, i)
               t == [s EXCEPT !.results = kept,
                       !.selected = IF @ = i THEN 0 ELSE IF @ > i THEN @ - 1 ELSE @,
                       !.status = StatusFor(Len(kept))]
    <2>1. Len(s.results) \in Nat /\ \A k \in 1 .. Len(s.results) : s.results[k] \in File
      BY LenProperties, ElementOfSeq DEF Good
    <2>2. SubSeq(s.results, 1, i - 1) \in Seq(File)
      <3>1. \A k \in 1 .. i - 1 : s.results[k] \in File
        BY <1>2, <2>1 DEF Position
      <3> QED BY <3>1, <2>1, SubSeqProperties DEF Position
    <2>3. SubSeq(s.results, i + 1, Len(s.results)) \in Seq(File)
      <3>1. \A k \in i + 1 .. Len(s.results) : s.results[k] \in File
        BY <2>1 DEF Position
      <3> QED BY <3>1, <2>1, SubSeqProperties DEF Position
    <2>4. kept \in Seq(File)
      BY <2>2, <2>3, ConcatProperties DEF RemoveAt
    <2> HIDE DEF kept
    <2>5. /\ DOMAIN t = DOMAIN s /\ t.results = kept /\ t.notice = s.notice
          /\ t.running = s.running /\ t.status \in {"empty", "ready"}
          /\ t.selected \in Nat
      BY DEF Good, Shaped, StatusFor, Position
    <2>6. ResultRemoved(s, i) = IF s.notice.kind \in FileProblems THEN NoticeCleared(t) ELSE t
      <3>1. ~(i > Len(s.results))
        BY <1>2, <2>1 DEF Position
      <3> QED BY <3>1 DEF ResultRemoved, kept
    <2> HIDE DEF t
    <2>7. CASE s.notice.kind \notin FileProblems
      BY <2>4, <2>5, <2>6, <2>7 DEF Good, Shaped, Names, Resting
    <2>8. CASE s.notice.kind \in FileProblems
      <3> DEFINE z == NoticeCleared(t)
      <3>1. /\ DOMAIN z = DOMAIN s /\ z.results = kept /\ z.notice = NoNotice
            /\ z.running = s.running /\ z.status \in {"empty", "ready"}
            /\ z.selected \in Nat
        BY <2>5 DEF NoticeCleared, Good, Shaped
      <3>2. RetrySound(NoNotice.retry) /\ NoNotice.kind \notin FileProblems
        BY DEF RetrySound, NoNotice, Plain, Notice, NoRetry, FileProblems, Launches,
               Confirms, Erases
      <3> HIDE DEF z
      <3>3. Good(z) /\ (Resting(s) => Resting(z))
        BY <2>4, <3>1, <3>2 DEF Good, Shaped, Names, Resting
      <3> QED BY <2>6, <2>8, <3>1, <3>3 DEF z
    <2> QED BY <2>7, <2>8
  <1> QED BY <1>1, <1>2, LenProperties DEF Good, Position

LEMMA SearchArmIsGood ==
  ASSUME NEW s, NEW m, Good(s), FitsTo(m, s.results),
         m.to = "SearchResultsReady" => s.notice.kind \notin FileProblems
  PROVE  /\ Good(SearchArm(s, m))
         /\ Resting(s) /\ m.to # "SearchAgain" /\ (m.to = "SubmitSearch" => s.query = None)
              => Resting(SearchArm(s, m))
         /\ m.to \in {"SearchResultsReady", "SearchError"} => Resting(SearchArm(s, m))
         /\ m.to # "SearchError" => SearchArm(s, m).notice \in {s.notice, NoNotice}
  <1> DEFINE t == SearchArm(s, m)
  <1>1. CASE m.to \notin {"SubmitSearch", "SearchResultsReady", "SearchError",
                          "RemoveFromResults", "SearchAgain"}
    <2>1. Same(s, t)
      BY <1>1 DEF SearchArm, Same, Good, Shaped
    <2> QED BY <1>1, <2>1, SameIsGood DEF Same
  <1>2. CASE m.to = "SubmitSearch"
    <2>1. CASE s.query = None
      BY <1>2, <2>1 DEF SearchArm
    <2>2. CASE s.query # None
      <3>1. /\ DOMAIN t = DOMAIN s /\ t.results = << >> /\ t.selected = 0
            /\ t.notice = s.notice
        BY <1>2, <2>2 DEF SearchArm, Good, Shaped
      <3>2. << >> \in Seq(File) /\ Len(<< >>) = 0
        OBVIOUS
      <3>3. Names(s.notice, << >>)
        BY <3>2 DEF Good, Names, RetrySound, Position
      <3> QED BY <1>2, <2>2, <3>1, <3>2, <3>3 DEF Good, Shaped
    <2> QED BY <2>1, <2>2
  <1>3. CASE m.to = "SearchResultsReady"
    <2>1. /\ DOMAIN t = DOMAIN s /\ t.results = m.results /\ t.selected = 0
          /\ t.notice = s.notice /\ ~t.running /\ t.status \in {"empty", "ready"}
      BY <1>3 DEF SearchArm, Good, Shaped, StatusFor
    <2> QED BY <1>3, <2>1 DEF Good, Shaped, FitsTo, Names, Resting
  <1>4. CASE m.to = "SearchError"
    <2> DEFINE n == SearchFailed(m.query).notice
    <2>1. n.kind = "SearchDidNotFinish" /\ n.retry = [to |-> "RetrySearch", query |-> m.query]
      BY DEF SearchFailed, Failed, ShowNotice, Notice
    <2> HIDE DEF n
    <2>2. /\ DOMAIN t = DOMAIN s /\ t.results = s.results /\ t.selected = s.selected
          /\ t.notice \in {s.notice, n} /\ ~t.running /\ t.status = "problem"
      BY <1>4 DEF SearchArm, Raise, Raised, Good, Shaped, n
    <2>3. RetrySound(n.retry) /\ Names(n, s.results)
      BY <2>1 DEF RetrySound, Names, FileProblems, Launches,
               Confirms, Erases
    <2> HIDE DEF t
    <2>4. Good(t) /\ Resting(t)
      BY <2>2, <2>3 DEF Good, Shaped, Resting
    <2> QED BY <1>4, <2>4 DEF t
  <1>5. CASE m.to = "RemoveFromResults"
    BY <1>5, RemovedIsGood DEF SearchArm, FitsTo
  <1>6. CASE m.to = "SearchAgain"
    <2>1. /\ DOMAIN t = DOMAIN s /\ t.results = s.results /\ t.selected = s.selected
          /\ t.notice = s.notice
      BY <1>6 DEF SearchArm, Good, Shaped
    <2> QED BY <1>6, <2>1 DEF Good, Shaped
  <1> QED BY <1>1, <1>2, <1>3, <1>4, <1>5, <1>6

LEMMA FoldersArmIsGood ==
  ASSUME NEW s, NEW m, Good(s)
  PROVE  Good(FoldersArm(s, m)) /\ (Resting(s) => Resting(FoldersArm(s, m)))
  <1> DEFINE t == FoldersArm(s, m)
             added == Plain("FolderAdded")
             combined == Plain("FoldersCombined")
  <1>1. \A n \in {added, combined} : RetrySound(n.retry) /\ Names(n, s.results)
    BY DEF Plain, Notice, NoRetry, RetrySound, Names, FileProblems, Launches,
               Confirms, Erases
  <1> HIDE DEF added, combined
  <1>2. CASE m.to = "SourceAdded"
    <2>1. /\ DOMAIN t = DOMAIN s /\ t.results = s.results /\ t.selected = s.selected
          /\ t.running = s.running /\ t.status = s.status
          /\ t.notice \in {s.notice, added}
      BY <1>2 DEF FoldersArm, Raise, Raised, Good, Shaped, added
    <2> QED BY <1>1, <2>1, RaiseIsGood DEF Good, Resting
  <1>3. CASE m.to = "FoldersCombined"
    <2>1. t = Combined(s, m.folder, m.inner)
      BY <1>3 DEF FoldersArm
    <2>2. LET c == Combined(s, m.folder, m.inner)
          IN  /\ DOMAIN c = DOMAIN s /\ c.results = s.results /\ c.selected = s.selected
              /\ c.running = s.running /\ c.status = s.status
              /\ c.notice \in {s.notice, combined}
      BY DEF Combined, Raise, Raised, Good, Shaped, combined
    <2> QED BY <1>1, <2>1, <2>2, RaiseIsGood DEF Good, Resting
  <1>4. CASE m.to \notin {"SourceAdded", "FoldersCombined"}
    <2>1. Same(s, t)
      BY <1>4, QuietArms DEF FoldersArm, Same, Good, Shaped
    <2> QED BY <2>1, SameIsGood
  <1> QED BY <1>2, <1>3, <1>4

LEMMA StorageArmIsGood ==
  ASSUME NEW s, NEW m, Good(s)
  PROVE  Good(StorageArm(s, m)) /\ (Resting(s) => Resting(StorageArm(s, m)))
  <1> DEFINE t == StorageArm(s, m)
             n == Notice("StorageUnavailable", [to |-> "StorageMeasurementRequested"], None)
  <1>1. RetrySound(n.retry) /\ Names(n, s.results)
    BY DEF Notice, RetrySound, Names, FileProblems, Launches,
               Confirms, Erases
  <1> HIDE DEF n
  <1>2. CASE m.to = "StorageMeasurementFailed"
    <2>1. /\ DOMAIN t = DOMAIN s /\ t.results = s.results /\ t.selected = s.selected
          /\ t.running = s.running /\ t.status = s.status
          /\ t.notice \in {s.notice, n}
      BY <1>2 DEF StorageArm, Raise, Raised, Good, Shaped, n
    <2> QED BY <1>1, <2>1, RaiseIsGood DEF Good, Resting
  <1>3. CASE m.to # "StorageMeasurementFailed"
    <2>1. Same(s, t)
      BY <1>3 DEF StorageArm, Same, Good, Shaped
    <2> QED BY <2>1, SameIsGood
  <1> QED BY <1>2, <1>3

LEMMA ResetArmIsGood ==
  ASSUME NEW s, NEW m, Good(s)
  PROVE  Good(ResetArm(s, m)) /\ (Resting(s) => Resting(ResetArm(s, m)))
  <1> DEFINE t == ResetArm(s, m)
  <1>1. CASE m.to = "CatalogResetSucceeded"
    <2>1. /\ DOMAIN t = DOMAIN s /\ t.results = << >> /\ t.selected = s.selected
          /\ t.running = s.running /\ t.status = s.status /\ t.notice = s.notice
      BY <1>1 DEF ResetArm, Good, Shaped
    <2>2. << >> \in Seq(File) /\ Len(<< >>) = 0
      OBVIOUS
    <2>3. Names(s.notice, << >>)
      BY <2>2 DEF Good, Names, RetrySound, Position
    <2> QED BY <2>1, <2>2, <2>3 DEF Good, Shaped, Resting
  <1>2. CASE m.to # "CatalogResetSucceeded"
    BY <1>2 DEF ResetArm
  <1> QED BY <1>1, <1>2

LEMMA ViewLeftIsGood ==
  ASSUME NEW s, Good(s)
  PROVE  Good(ViewLeft(s)) /\ (Resting(s) => Resting(ViewLeft(s)))
  <1> DEFINE z == [s EXCEPT !.removing = None, !.narrowing = None,
                            !.resetting = FALSE, !.clearing = FALSE]
             t == FolderAddCancelled(z)
  <1>1. Same(s, z)
    BY DEF Same, Good, Shaped
  <1>2. Good(z) /\ (Resting(s) => Resting(z))
    BY <1>1, SameIsGood
  <1> HIDE DEF z
  <1>3. Good(t) /\ (Resting(s) => Resting(t))
    BY <1>2, QuietArms, SameIsGood DEF Good
  <1>4. ViewLeft(s) = IF IsProblem(t.notice) THEN t ELSE NoticeCleared(t)
    BY DEF ViewLeft, z
  <1> HIDE DEF t
  <1> QED BY <1>3, <1>4, ClearedIsGood DEF Resting

(* One message keeps the state good; it is found resting as before, unless *)
(* a search starts; and the end of a search leaves it so.                  *)
LEMMA UpdateIsGood ==
  ASSUME NEW s, NEW m, Good(s), FitsTo(m, s.results)
  PROVE  /\ Good(Update(s, m))
         /\ Resting(s) /\ Quiet(s, m) => Resting(Update(s, m))
         /\ m.to \in {"SearchResultsReady", "SearchError"} => Resting(Update(s, m))
  <1> DEFINE heard == IF IsResolvedBy(s.notice, m) THEN NoticeCleared(s) ELSE s
             a1 == ShellArm(heard, m)
             a2 == SelectionArm(a1, m)
             a3 == SearchArm(a2, m)
             a4 == LocationArm(a3, m)
             a5 == HistoryArm(a4, m)
             a6 == FolderQuestionArm(a5, m)
             a7 == FoldersArm(a6, m)
             a8 == StorageQuestionArm(a7, m)
             a9 == StorageArm(a8, m)
             applied == ResetArm(a9, m)
             ends == m.to \in {"SearchResultsReady", "SearchError"}
  <1>1. /\ Good(heard) /\ heard.results = s.results
        /\ Resting(s) => Resting(heard)
        /\ heard.query = s.query
        /\ m.to = "SearchResultsReady" => heard.notice.kind \notin FileProblems
    <2>1. CASE IsResolvedBy(s.notice, m)
      <3>1. NoNotice.kind \notin FileProblems
        BY DEF NoNotice, Plain, Notice, FileProblems
      <3>2. NoticeCleared(s).query = s.query
        BY DEF NoticeCleared, Good, Shaped
      <3> QED BY <2>1, <3>1, <3>2, ClearedIsGood DEF Resting
    <2>2. CASE ~IsResolvedBy(s.notice, m)
      <3>1. s.notice.kind \in FileProblems => Resolving(s.notice) = {"SearchResultsReady"}
        BY DEF Resolving, FileProblems
      <3>2. m.to = "SearchResultsReady" => Reported(m) = "SearchResultsReady"
        BY DEF Reported
      <3> QED BY <2>2, <3>1, <3>2 DEF IsResolvedBy
    <2> QED BY <2>1, <2>2
  <1> HIDE DEF heard
  <1>2. /\ Good(a1) /\ a1.results = s.results /\ (Resting(s) => Resting(a1))
        /\ m.to = "SubmitSearch" => a1.query = s.query
        /\ m.to = "SearchResultsReady" => a1.notice.kind \notin FileProblems
    <2>1. NoNotice.kind \notin FileProblems
      BY DEF NoNotice, Plain, Notice, FileProblems
    <2>2. m.to = "SubmitSearch" => ShellArm(heard, m) = heard
      BY DEF ShellArm
    <2> QED BY <1>1, <2>1, <2>2, ShellArmIsGood
  <1> HIDE DEF a1
  <1>3. /\ Good(a2) /\ a2.results = s.results /\ (Resting(s) => Resting(a2))
        /\ m.to = "SubmitSearch" => a2.query = s.query
        /\ m.to = "SearchResultsReady" => a2.notice.kind \notin FileProblems
    <2>1. m.to = "SubmitSearch" => SelectionArm(a1, m) = a1
      BY DEF SelectionArm
    <2> QED BY <1>2, <2>1, SelectionArmIsGood
  <1> HIDE DEF a2
  <1>4. /\ Good(a3) /\ (Resting(s) /\ Quiet(s, m) => Resting(a3)) /\ (ends => Resting(a3))
    BY <1>3, SearchArmIsGood DEF Quiet
  <1> HIDE DEF a3
  <1>5. Good(a4) /\ (Resting(a3) => Resting(a4))
    BY <1>4, QuietArms, SameIsGood DEF Good
  <1> HIDE DEF a4
  <1>6. Good(a5) /\ (Resting(a3) => Resting(a5))
    BY <1>5, QuietArms, SameIsGood DEF Good
  <1> HIDE DEF a5
  <1>7. Good(a6) /\ (Resting(a3) => Resting(a6))
    BY <1>6, QuietArms, SameIsGood DEF Good
  <1> HIDE DEF a6
  <1>8. Good(a7) /\ (Resting(a3) => Resting(a7))
    BY <1>7, FoldersArmIsGood
  <1> HIDE DEF a7
  <1>9. Good(a8) /\ (Resting(a3) => Resting(a8))
    BY <1>8, QuietArms, SameIsGood DEF Good
  <1> HIDE DEF a8
  <1>10. Good(a9) /\ (Resting(a3) => Resting(a9))
    BY <1>9, StorageArmIsGood
  <1> HIDE DEF a9
  <1>11. Good(applied) /\ (Resting(a3) => Resting(applied))
    BY <1>10, ResetArmIsGood
  <1>12. applied = Apply(heard, m)
    BY DEF Apply, applied, a9, a8, a7, a6, a5, a4, a3, a2, a1
  <1> HIDE DEF applied
  <1> DEFINE left == IF applied.view = s.view THEN applied ELSE ViewLeft(applied)
  <1>13. Good(left) /\ (Resting(a3) => Resting(left))
    BY <1>11, ViewLeftIsGood
  <1>14. Update(s, m) = LocationNormalised(left)
    BY <1>12 DEF Update, heard
  <1> HIDE DEF left
  <1>15. Good(Update(s, m)) /\ (Resting(a3) => Resting(Update(s, m)))
    BY <1>13, <1>14, QuietArms, SameIsGood DEF Good
  <1> QED BY <1>4, <1>15

-----------------------------------------------------------------------------
(* The messages of a handler, and its tasks                                *)

Silent(m) == m.to \notin {"SearchAgain", "SubmitSearch"}

LEMMA FitsAnyList ==
  ASSUME NEW m, Fits(m), NEW results
  PROVE  FitsTo(m, results)
  BY DEF Fits, FitsTo, Names

(* A set of naturals has a least one.                                      *)
LEMMA LeastOfThem ==
  ASSUME NEW T, T \subseteq Nat, T # {}
  PROVE  \E n \in T : \A k \in T : n <= k
  <1> DEFINE less == {p \in Nat \X Nat : p[1] < p[2]}
  <1>1. IsWellFoundedOn(less, Nat)
    BY NatLessThanWellFounded DEF OpToRel
  <1>2. PICK n \in T : \A k \in T : ~(<<k, n>> \in less)
    <2> HIDE DEF less
    <2> QED BY <1>1, WFMin
  <1>3. \A k, m \in Nat : <<k, m>> \in less <=> k < m
    OBVIOUS
  <1> HIDE DEF less
  <1>4. n \in Nat /\ \A k \in T : k \in Nat /\ ~(k < n)
    BY <1>2, <1>3
  <1>5. \A k \in T : n <= k
    BY <1>4
  <1> QED BY <1>5

(* The states a list of messages leads through, from s to Updates(s, ms).  *)
Walk(g, n, s, ms) ==
  g = [k \in 0..n |-> IF k = 0 THEN s ELSE Update(g[k - 1], ms[k])]

LEMMA WalkExists ==
  ASSUME NEW s, NEW ms, NEW n \in Nat
  PROVE  \E g : Walk(g, n, s, ms)
  <1> DEFINE T == {i \in Nat : ~\E g : Walk(g, i, s, ms)}
  <1> SUFFICES ASSUME T # {} PROVE FALSE
    OBVIOUS
  <1>1. PICK i \in T : \A k \in T : i <= k
    BY LeastOfThem
  <1>2. CASE i = 0
    <2> DEFINE h == [k \in 0..0 |-> s]
    <2>1. Walk(h, 0, s, ms)
      BY DEF Walk
    <2> QED BY <1>1, <1>2, <2>1
  <1>3. CASE i # 0
    <2>1. i \in Nat /\ i - 1 \in Nat /\ i - 1 \notin T
      BY <1>1, <1>3
    <2>2. PICK g : Walk(g, i - 1, s, ms)
      BY <2>1
    <2> DEFINE h == [k \in 0..i |-> IF k = i THEN Update(g[i - 1], ms[i]) ELSE g[k]]
    <2>3. \A k \in 0..i - 1 : g[k] = IF k = 0 THEN s ELSE Update(g[k - 1], ms[k])
      BY <2>1, <2>2 DEF Walk
    <2>4. \A k \in 0..i : h[k] = IF k = 0 THEN s ELSE Update(h[k - 1], ms[k])
      <3> SUFFICES ASSUME NEW k \in 0..i
                   PROVE  h[k] = IF k = 0 THEN s ELSE Update(h[k - 1], ms[k])
        OBVIOUS
      <3>1. CASE k = i
        <4>1. h[k] = Update(g[k - 1], ms[k]) /\ h[k - 1] = g[k - 1]
          BY <2>1, <3>1
        <4> QED BY <1>3, <3>1, <4>1
      <3>2. CASE k # i /\ k = 0
        BY <2>1, <2>3, <3>2
      <3>3. CASE k # i /\ k # 0
        <4>1. k \in 0..i - 1 /\ k - 1 \in 0..i - 1 /\ k - 1 # i
          BY <2>1, <3>3
        <4>2. h[k] = g[k] /\ h[k - 1] = g[k - 1]
          BY <2>1, <4>1
        <4> QED BY <2>3, <3>3, <4>1, <4>2
      <3> QED BY <3>1, <3>2, <3>3
    <2>5. h = [k \in 0..i |-> h[k]]
      OBVIOUS
    <2> HIDE DEF h
    <2>6. Walk(h, i, s, ms)
      BY <2>4, <2>5 DEF Walk
    <2> QED BY <1>1, <2>6
  <1> QED BY <1>2, <1>3

LEMMA UpdatesWalk ==
  ASSUME NEW s, NEW ms, Len(ms) \in Nat
  PROVE  \E g : Walk(g, Len(ms), s, ms) /\ Updates(s, ms) = g[Len(ms)]
  <1> DEFINE g == CHOOSE h : Walk(h, Len(ms), s, ms)
  <1>1. Walk(g, Len(ms), s, ms)
    BY WalkExists
  <1>2. Updates(s, ms) = g[Len(ms)]
    BY DEF Updates, InTurn, Walk
  <1> QED BY <1>1, <1>2

LEMMA SingleUpdate ==
  ASSUME NEW s, NEW m
  PROVE  Updates(s, <<m>>) = Update(s, m)
  <1> DEFINE ms == <<m>>
  <1>1. Len(ms) = 1 /\ ms[1] = m
    OBVIOUS
  <1> HIDE DEF ms
  <1>2. PICK g : Walk(g, 1, s, ms) /\ Updates(s, ms) = g[1]
    <2>1. Len(ms) \in Nat
      BY <1>1
    <2>2. \E g : Walk(g, Len(ms), s, ms) /\ Updates(s, ms) = g[Len(ms)]
      BY <2>1, UpdatesWalk
    <2> QED BY <1>1, <2>2
  <1>3. g[0] = s /\ g[1] = Update(g[0], ms[1])
    BY <1>2 DEF Walk
  <1>4. Updates(s, ms) = Update(s, m)
    BY <1>1, <1>2, <1>3
  <1> QED BY <1>4 DEF ms

LEMMA PairUpdate ==
  ASSUME NEW s, NEW x, NEW y
  PROVE  Updates(s, <<x, y>>) = Update(Update(s, x), y)
  <1> DEFINE ms == <<x, y>>
  <1>1. Len(ms) = 2 /\ ms[1] = x /\ ms[2] = y
    OBVIOUS
  <1> HIDE DEF ms
  <1>2. PICK g : Walk(g, 2, s, ms) /\ Updates(s, ms) = g[2]
    <2>1. Len(ms) \in Nat
      BY <1>1
    <2>2. \E g : Walk(g, Len(ms), s, ms) /\ Updates(s, ms) = g[Len(ms)]
      BY <2>1, UpdatesWalk
    <2> QED BY <1>1, <2>2
  <1>3. g[0] = s /\ g[1] = Update(g[0], ms[1]) /\ g[2] = Update(g[1], ms[2])
    BY <1>2 DEF Walk
  <1>4. Updates(s, ms) = Update(Update(s, x), y)
    BY <1>1, <1>2, <1>3
  <1> QED BY <1>4 DEF ms

LEMMA UpdatesAreGood ==
  ASSUME NEW s, NEW S, NEW ms \in Seq(S), Good(s), \A m \in S : Fits(m)
  PROVE  /\ Good(Updates(s, ms))
         /\ Resting(s) /\ (\A m \in S : Silent(m)) => Resting(Updates(s, ms))
  <1> DEFINE n == Len(ms)
             rests == Resting(s) /\ \A m \in S : Silent(m)
             Fine(t) == Good(t) /\ (rests => Resting(t))
  <1>1. n \in Nat /\ \A k \in Nat \ {0} : k <= n => ms[k] \in S
    BY LenProperties, ElementOfSeq
  <1>2. PICK g : Walk(g, n, s, ms) /\ Updates(s, ms) = g[n]
    BY <1>1, UpdatesWalk
  <1>3. \A k \in 0..n : g[k] = IF k = 0 THEN s ELSE Update(g[k - 1], ms[k])
    BY <1>2 DEF Walk
  <1>4. ASSUME NEW k \in Nat \ {0}, k <= n, Fine(g[k - 1]) PROVE Fine(g[k])
    <2>1. g[k] = Update(g[k - 1], ms[k])
      BY <1>1, <1>3, <1>4
    <2>2. Fits(ms[k]) /\ (rests => Silent(ms[k]))
      BY <1>1, <1>4
    <2>3. FitsTo(ms[k], g[k - 1].results)
      BY <2>2, FitsAnyList
    <2>4. rests => Quiet(g[k - 1], ms[k])
      BY <2>2 DEF Silent, Quiet
    <2> QED BY <1>4, <2>1, <2>3, <2>4, UpdateIsGood
  <1> DEFINE T == {k \in Nat : k <= n /\ ~Fine(g[k])}
  <1>5. Fine(g[0])
    BY <1>1, <1>3
  <1> HIDE DEF Fine
  <1>6. T = {}
    <2> SUFFICES ASSUME T # {} PROVE FALSE
      OBVIOUS
    <2>1. PICK k \in T : \A i \in T : k <= i
      BY LeastOfThem
    <2>2. k # 0 /\ k - 1 \in Nat /\ k - 1 \notin T /\ k - 1 <= n
      BY <1>1, <1>5, <2>1
    <2> QED BY <1>4, <2>1, <2>2
  <1>7. Fine(g[n])
    BY <1>1, <1>6
  <1> QED BY <1>2, <1>7 DEF Fine

LEMMA BagStarted ==
  ASSUME NEW rest, IsABag(rest), NEW S
  PROVE  /\ IsABag(rest (+) SetToBag(S))
         /\ BagToSet(rest (+) SetToBag(S)) = BagToSet(rest) \union S
         /\ \A t : Copies(t, rest (+) SetToBag(S)) > Copies(t, rest) => t \in S
  <1> DEFINE b == rest (+) SetToBag(S)
  <1>1. DOMAIN SetToBag(S) = S /\ \A t \in S : SetToBag(S)[t] = 1
    BY DEF SetToBag
  <1>2. /\ DOMAIN b = DOMAIN rest \union S
        /\ \A t \in DOMAIN b : b[t] = (IF t \in DOMAIN rest THEN rest[t] ELSE 0)
                                        + (IF t \in S THEN 1 ELSE 0)
        /\ b = [t \in DOMAIN b |-> b[t]]
    BY <1>1 DEF (+)
  <1> HIDE DEF b
  <1>3. \A t \in DOMAIN rest : rest[t] \in Nat /\ rest[t] > 0
    BY DEF IsABag
  <1>4. \A t \in DOMAIN b : b[t] \in Nat /\ b[t] > 0
    BY <1>2, <1>3
  <1>5. IsABag(b)
    BY <1>2, <1>4 DEF IsABag
  <1>6. ASSUME NEW t, Copies(t, b) > Copies(t, rest), t \notin S PROVE FALSE
    <2>1. CASE t \in DOMAIN rest
      BY <1>2, <1>3, <1>6, <2>1 DEF Copies, BagIn, BagToSet
    <2>2. CASE t \notin DOMAIN rest
      BY <1>2, <1>6, <2>2 DEF Copies, BagIn, BagToSet
    <2> QED BY <2>1, <2>2
  <1> QED BY <1>2, <1>5, <1>6 DEF b, BagToSet

LEMMA BagEnded ==
  ASSUME NEW bag, IsABag(bag), NEW u
  PROVE  /\ IsABag(bag (-) One(u))
         /\ BagToSet(bag (-) One(u)) \subseteq BagToSet(bag)
         /\ BagToSet(bag) \subseteq BagToSet(bag (-) One(u)) \union {u}
         /\ \A t : Copies(t, bag (-) One(u)) <= Copies(t, bag)
  <1> DEFINE b == bag (-) One(u)
             left(t) == IF t \in {u} THEN bag[t] - 1 ELSE bag[t]
  <1>1. DOMAIN One(u) = {u} /\ One(u)[u] = 1
    BY DEF One, SetToBag
  <1>2. \A t \in DOMAIN bag : bag[t] \in Nat /\ bag[t] > 0
    BY DEF IsABag
  <1>3. b = [t \in {d \in DOMAIN bag : left(d) > 0} |-> left(t)]
    BY <1>1 DEF (-)
  <1> HIDE DEF b
  <1>4. DOMAIN b \subseteq DOMAIN bag /\ DOMAIN bag \subseteq DOMAIN b \union {u}
    BY <1>2, <1>3
  <1>5. \A t \in DOMAIN b : b[t] \in Nat /\ b[t] > 0 /\ b[t] <= bag[t]
    BY <1>2, <1>3
  <1>6. IsABag(b)
    BY <1>3, <1>5 DEF IsABag
  <1>7. ASSUME NEW t PROVE Copies(t, b) <= Copies(t, bag)
    BY <1>2, <1>4, <1>5 DEF Copies, BagIn, BagToSet
  <1> QED BY <1>4, <1>6, <1>7 DEF b, BagToSet

-----------------------------------------------------------------------------
(* The handlers                                                            *)

(* What is heard, whether pressed or answered; and a task in flight.       *)
Sound(m) ==
  /\ Fits(m)
  /\ m.to \in Launches => m.result \in Position
  /\ m.to = "SubmitSearchCompleted" => m.results \in Seq(File)
TaskSound(t) == t.task = "done" => Sound(t.message) /\ t.message.to \notin Confirms

(* What erases is heard only while its question is on screen.              *)
OnScreen(m) ==
  /\ m.to = "ConfirmRemoveSource" => Visible(ui) = "remove"
  /\ m.to = "ConfirmNarrowFolder" => Visible(ui) = "narrow"
  /\ m.to = "ConfirmResetCatalog" => Visible(ui) = "reset"
  /\ m.to = "ConfirmRebuild" => Visible(ui) = "rebuild"

NewTask(t) == TaskSound(t) /\ Question(t) \in {"none", Visible(ui)}
Follows(rest) == tasks' = rest \/ \E t : NewTask(t) /\ tasks' = rest (+) One(t)

EndsSearch == {"SearchError", "SearchResultsReady", "SubmitSearchCompleted"}
Routed(m, rest) ==
  /\ Good(ui')
  /\ Follows(rest)
  /\ Resting(ui) => Resting(ui') \/ \E q, r : tasks' = rest (+) One(Search(q, r))
  /\ m.to \in EndsSearch => Resting(ui')

LEMMA QuestionIs ==
  /\ \A t : t.task \notin {"reset", "rebuild", "done"} => Question(t) = "none"
  /\ Question(Reset) = "reset" /\ \A x : Question(Rebuild(x)) = "rebuild"
  /\ \A m : m.to \notin Erases => Question(Done(m)) = "none"
  /\ \A m : m.to = "SourceRemoved" => Question(Done(m)) = "remove"
  /\ \A m : m.to = "NarrowFolderRequested" => Question(Done(m)) = "narrow"
  <1>1. \A t : t.task \notin {"reset", "rebuild", "done"} => Question(t) = "none"
    BY DEF Question
  <1>2. Question(Reset) = "reset" /\ \A x : Question(Rebuild(x)) = "rebuild"
    BY DEF Question, Reset, Rebuild
  <1>3. \A m : m.to \notin Erases => Question(Done(m)) = "none"
    BY DEF Question, Done, Erases
  <1>4. \A m : m.to = "SourceRemoved" => Question(Done(m)) = "remove"
    BY DEF Question, Done
  <1>5. \A m : m.to = "NarrowFolderRequested" => Question(Done(m)) = "narrow"
    BY DEF Question, Done
  <1> QED BY <1>1, <1>2, <1>3, <1>4, <1>5

LEMMA PlainFits ==
  ASSUME NEW m, m.to \notin {"ShowNotice", "SearchResultsReady", "SelectResult",
                             "RemoveFromResults"}
  PROVE  Fits(m)
  BY DEF Fits

LEMMA NoticeFits ==
  ASSUME NEW kind, NEW retry, NEW about, kind \notin FileProblems, RetrySound(retry)
  PROVE  LET m == ShowNotice(Notice(kind, retry, about)) IN Fits(m) /\ Silent(m)
  BY DEF ShowNotice, Notice, Fits, Silent

LEMMA SafeRetry ==
  ASSUME NEW r, r.to \notin Confirms \union Erases \union Launches,
         r.to \notin {"ShowNotice", "SearchResultsReady", "SubmitSearchCompleted",
                      "SelectResult", "RemoveFromResults"}
  PROVE  RetrySound(r)
  BY DEF RetrySound

LEMMA RetryIsSound ==
  ASSUME NEW r, RetrySound(r)
  PROVE  TaskSound(Done(r)) /\ Question(Done(r)) = "none"
  BY QuestionIs DEF RetrySound, TaskSound, Sound, Fits, Done

(* A message that only changes what is shown. *)
LEMMA OneMessage ==
  ASSUME Good(ui), NEW m, Fits(m), ui' = Updates(ui, <<m>>)
  PROVE  /\ Good(ui')
         /\ Resting(ui) /\ Silent(m) => Resting(ui')
         /\ m.to \in {"SearchError", "SearchResultsReady"} => Resting(ui')
  BY SingleUpdate, UpdateIsGood, FitsAnyList DEF Silent, Quiet

LEMMA ReduceRouted ==
  ASSUME Good(ui), NEW m, NEW rest, Sound(m), Reduce(m, rest)
  PROVE  Routed(m, rest)
  <1>1. Silent(m) /\ m.to # "SubmitSearchCompleted"
    BY DEF Reduce, ReducedTo, Silent
  <1>2. ui' = Updates(ui, <<m>>) /\ tasks' = rest
    BY DEF Reduce, Shows, Ends
  <1> QED BY <1>1, <1>2, OneMessage DEF Sound, Routed, Follows, EndsSearch

LEMMA RedispatchRouted ==
  ASSUME Good(ui), NEW m, NEW rest, OnScreen(m), Redispatch(m, rest)
  PROVE  Routed(m, rest)
  <1>1. Good(ui') /\ (Resting(ui) => Resting(ui'))
    <2>1. \/ Same(ui, ui') \/ ui' = NoticeCleared(ui)
      BY DEF Redispatch, Same, Good, Shaped
    <2> QED BY <2>1, SameIsGood, ClearedIsGood DEF Resting
  <1>2. m.to \notin EndsSearch
    BY DEF Redispatch, EndsSearch
  <1>3. NewTask(Done(Confirmed(m)))
    <2>1. CASE m.to = "ConfirmAddSensitiveFolder"
      <3>1. Confirmed(m).to \in {"FolderPickedConfirmed", "AddFolderConfirmed", "nothing"}
        BY <2>1 DEF Confirmed, NoRetry
      <3> QED BY <3>1, SafeRetry, RetryIsSound DEF Confirms, Erases, Launches, NewTask
    <2>2. CASE m.to = "ConfirmNarrowFolder"
      <3>1. Confirmed(m).to \in {"NarrowFolderRequested", "nothing"}
        BY <2>2 DEF Confirmed, NoRetry
      <3>2. TaskSound(Done(Confirmed(m)))
        BY <3>1 DEF TaskSound, Done, Sound, Fits, Launches, Confirms
      <3>3. Question(Done(Confirmed(m))) \in {"none", "narrow"}
        BY <3>1, QuestionIs DEF Erases
      <3> QED BY <2>2, <3>2, <3>3 DEF NewTask, OnScreen
    <2>3. CASE m.to = "ConfirmRemoveSource"
      <3>1. Confirmed(m).to \in {"SourceRemoved", "nothing"}
        BY <2>3 DEF Confirmed, NoRetry
      <3>2. TaskSound(Done(Confirmed(m)))
        BY <3>1 DEF TaskSound, Done, Sound, Fits, Launches, Confirms
      <3>3. Question(Done(Confirmed(m))) \in {"none", "remove"}
        BY <3>1, QuestionIs DEF Erases
      <3> QED BY <2>3, <3>2, <3>3 DEF NewTask, OnScreen
    <2>4. CASE m.to = "NoticeActionPressed"
      <3>1. Confirmed(m) = ui.notice.retry
        BY <2>4 DEF Confirmed
      <3> QED BY <3>1, RetryIsSound DEF Good, NewTask
    <2> QED BY <2>1, <2>2, <2>3, <2>4 DEF Redispatch
  <1>4. tasks' = rest \/ tasks' = rest (+) One(Done(Confirmed(m)))
    BY DEF Redispatch, Ends, Starts
  <1> QED BY <1>1, <1>2, <1>3, <1>4 DEF Routed, Follows

(* A handler that shows messages which fit and starts no search of its own *)
(* does as Route should.                                                   *)
LEMMA QuietHandler ==
  ASSUME Good(ui), NEW m, NEW rest, NEW S, NEW ms \in Seq(S),
         \A x \in S : Fits(x) /\ Silent(x), ui' = Updates(ui, ms),
         m.to \notin EndsSearch, Follows(rest)
  PROVE  Routed(m, rest)
  BY UpdatesAreGood DEF Routed

LEMMA QuietSingle ==
  ASSUME Good(ui), NEW m, NEW rest, NEW x, Fits(x), Silent(x), ui' = Updates(ui, <<x>>),
         m.to \notin EndsSearch, Follows(rest)
  PROVE  Routed(m, rest)
  BY OneMessage DEF Routed

LEMMA StillHandler ==
  ASSUME Good(ui), NEW m, NEW rest, ui' = ui, m.to \notin EndsSearch, Follows(rest)
  PROVE  Routed(m, rest)
  BY DEF Routed

LEMMA NewTasks ==
  /\ \A q, r : NewTask(Search(q, r))
  /\ \A p : NewTask(Pick(p))
  /\ \A d : NewTask(Narrow(d))
  /\ NewTask(Measure)
  /\ NewTask(Done([to |-> "SubmitSearch"]))
  /\ \A q : NewTask(Done([to |-> "RetrySearch", query |-> q]))
  <1>1. /\ \A q, r : TaskSound(Search(q, r)) /\ Question(Search(q, r)) = "none"
        /\ \A p : TaskSound(Pick(p)) /\ Question(Pick(p)) = "none"
        /\ \A d : TaskSound(Narrow(d)) /\ Question(Narrow(d)) = "none"
        /\ TaskSound(Measure) /\ Question(Measure) = "none"
    BY DEF TaskSound, Question, Search, Pick, Narrow, Measure
  <1>2. \A m : m.to \in {"SubmitSearch", "RetrySearch"} =>
               TaskSound(Done(m)) /\ Question(Done(m)) = "none"
    BY SafeRetry, RetryIsSound DEF Confirms, Erases, Launches
  <1> QED BY <1>1, <1>2 DEF NewTask

LEMMA PickerRouted ==
  ASSUME Good(ui), NEW m, NEW rest, m.to \notin EndsSearch, PickerOpened(rest)
  PROVE  Routed(m, rest)
  <1>1. CASE ui.picking
    BY <1>1, StillHandler DEF PickerOpened, Ends, Follows
  <1>2. CASE ~ui.picking
    <2>1. /\ ui' = Updates(ui, <<[to |-> "ChooseFolderRequested"]>>)
          /\ tasks' = rest (+) One(Pick("Search"))
      BY <1>2 DEF PickerOpened, Shows, Starts
    <2>2. Follows(rest)
      BY <2>1, NewTasks DEF Follows
    <2>3. LET x == [to |-> "ChooseFolderRequested"] IN Fits(x) /\ Silent(x)
      BY DEF Fits, Silent
    <2> QED BY <2>1, <2>2, <2>3, QuietSingle
  <1> QED BY <1>1, <1>2

LEMMA SubmitRouted ==
  ASSUME Good(ui), NEW m, NEW rest, SubmitSearch(m, rest)
  PROVE  Routed(m, rest)
  <1>1. m.to = "SubmitSearch" /\ m.to \notin EndsSearch /\ Fits(m)
    BY DEF SubmitSearch, EndsSearch, Fits
  <1>2. CASE ui.query = None
    <2>1. ui' = Update(ui, m) /\ tasks' = rest
      BY <1>2, SingleUpdate DEF SubmitSearch, Shows, Ends
    <2>2. Good(ui') /\ (Resting(ui) => Resting(ui'))
      BY <1>1, <1>2, <2>1, UpdateIsGood, FitsAnyList DEF Quiet
    <2> QED BY <1>1, <2>1, <2>2 DEF Routed, Follows
  <1>3. CASE ui.query # None /\ ui.location # None
    <2>1. ui' = Update(ui, m) /\ tasks' = rest (+) One(Search(ui.query, TRUE))
      BY <1>3, SingleUpdate DEF SubmitSearch, Shows, Starts
    <2>2. Good(ui')
      BY <1>1, <2>1, UpdateIsGood, FitsAnyList
    <2>3. Follows(rest)
      BY <2>1, NewTasks DEF Follows
    <2> QED BY <1>1, <2>1, <2>2, <2>3 DEF Routed
  <1>4. CASE ui.query # None /\ ui.location = None /\ Added(ui.cards) = {}
    <2>1. PickerOpened(rest)
      BY <1>4 DEF SubmitSearch
    <2> QED BY <1>1, <2>1, PickerRouted
  <1>5. CASE ui.query # None /\ ui.location = None /\ Added(ui.cards) # {}
    <2>1. /\ ui' = Updates(ui, <<[to |-> "SearchFolderChoicesPending"]>>)
          /\ tasks' = rest
      BY <1>5 DEF SubmitSearch, Shows, Ends
    <2>2. LET x == [to |-> "SearchFolderChoicesPending"] IN Fits(x) /\ Silent(x)
      BY DEF Fits, Silent
    <2> QED BY <1>1, <2>1, <2>2, QuietSingle DEF Follows
  <1> QED BY <1>2, <1>3, <1>4, <1>5

LEMMA CompletedRouted ==
  ASSUME Good(ui), NEW m, NEW rest, Sound(m), SubmitSearchCompleted(m, rest)
  PROVE  Routed(m, rest)
  <1> DEFINE x == [to |-> "SearchResultsReady", results |-> m.results]
             y == Listed(history')
  <1>1. m.results \in Seq(File)
    BY DEF SubmitSearchCompleted, RecordedWith, Sound
  <1>2. Fits(x) /\ x.to = "SearchResultsReady" /\ Fits(y) /\ Silent(y)
    BY <1>1 DEF Fits, Silent, Listed
  <1>3. ui' = Updates(ui, <<x, y>>) /\ tasks' = rest
    BY DEF SubmitSearchCompleted, RecordedWith, Shows, Ends
  <1> HIDE DEF x, y
  <1>4. Updates(ui, <<x, y>>) = Update(Update(ui, x), y)
    BY PairUpdate
  <1>5. Good(Update(ui, x)) /\ Resting(Update(ui, x))
    BY <1>2, UpdateIsGood, FitsAnyList
  <1>6. Good(ui') /\ Resting(ui')
    BY <1>2, <1>3, <1>4, <1>5, UpdateIsGood, FitsAnyList DEF Silent, Quiet
  <1> QED BY <1>3, <1>6 DEF Routed, Follows

LEMMA RetryRouted ==
  ASSUME Good(ui), NEW m, NEW rest, RetrySearch(m, rest)
  PROVE  Routed(m, rest)
  <1>1. /\ ui' = Updates(ui, <<m>>) /\ m.to = "RetrySearch"
        /\ tasks' = rest (+) One(Done([to |-> "SubmitSearch"]))
    BY DEF RetrySearch, Shows, Starts
  <1>2. Follows(rest)
    BY <1>1, NewTasks DEF Follows
  <1>3. Fits(m) /\ Silent(m) /\ m.to \notin EndsSearch
    BY <1>1 DEF Fits, Silent, EndsSearch
  <1> QED BY <1>1, <1>2, <1>3, QuietSingle

LEMMA AgainRouted ==
  ASSUME Good(ui), NEW m, NEW rest, SearchAgain(m, rest)
  PROVE  Routed(m, rest)
  <1>1. m.to = "SearchAgain" /\ m.to \notin EndsSearch
    BY DEF SearchAgain, EndsSearch
  <1>2. CASE m.query \notin history
    BY <1>1, <1>2, StillHandler DEF SearchAgain, Ends, Follows
  <1>3. CASE m.query \in history
    <2> DEFINE x == [to |-> "QueryChanged", query |-> m.query]
               y == Listed(history)
               S == {x, m, y}
               ms == <<x, m, y>>
    <2>1. ui' = Updates(ui, ms) /\ tasks' = rest (+) One(Search(m.query, FALSE))
      BY <1>3 DEF SearchAgain, Shows, Starts
    <2>2. \A z \in S : Fits(z)
      BY <1>1 DEF Fits, Listed
    <2>3. ms \in Seq(S)
      OBVIOUS
    <2> HIDE DEF S, ms
    <2>4. Good(ui')
      BY <2>1, <2>2, <2>3, UpdatesAreGood
    <2>5. Follows(rest)
      BY <2>1, NewTasks DEF Follows
    <2> QED BY <1>1, <2>1, <2>4, <2>5 DEF Routed
  <1> QED BY <1>2, <1>3


-----------------------------------------------------------------------------
(* Handlers that show several messages                                     *)

Mild(m) == Fits(m) /\ Silent(m)
MildList(ms) == \E S : ms \in Seq(S) /\ \A m \in S : Mild(m)

LEMMA MildLists ==
  /\ MildList(<< >>)
  /\ \A m : Mild(m) => MildList(<<m>>)
  /\ \A m, n : Mild(m) /\ Mild(n) => MildList(<<m, n>>)
  <1>1. ASSUME NEW S, NEW ms \in Seq(S), \A x \in S : Mild(x) PROVE MildList(ms)
    BY <1>1 DEF MildList
  <1>2. MildList(<< >>)
    <2> DEFINE S == {}
               ms == << >>
    <2>1. ms \in Seq(S) /\ \A x \in S : Mild(x)
      OBVIOUS
    <2> HIDE DEF S, ms
    <2>2. MildList(ms)
      BY <1>1, <2>1
    <2> QED BY <2>2 DEF ms
  <1>3. ASSUME NEW m, Mild(m) PROVE MildList(<<m>>)
    <2> DEFINE S == {m}
               ms == <<m>>
    <2>1. ms \in Seq(S) /\ \A x \in S : Mild(x)
      BY <1>3
    <2> HIDE DEF S, ms
    <2>2. MildList(ms)
      BY <1>1, <2>1
    <2> QED BY <2>2 DEF ms
  <1>4. ASSUME NEW m, NEW n, Mild(m), Mild(n) PROVE MildList(<<m, n>>)
    <2> DEFINE S == {m, n}
               ms == <<m, n>>
    <2>1. ms \in Seq(S)
      OBVIOUS
    <2>2. \A x \in S : Mild(x)
      BY <1>4
    <2> HIDE DEF S, ms
    <2>3. MildList(ms)
      BY <1>1, <2>1, <2>2
    <2> QED BY <2>3 DEF ms
  <1> QED BY <1>2, <1>3, <1>4

LEMMA MildJoined ==
  ASSUME NEW a, NEW b, MildList(a), MildList(b)
  PROVE  MildList(a \o b)
  <1>1. PICK S : a \in Seq(S) /\ \A m \in S : Mild(m)
    BY DEF MildList
  <1>2. PICK T : b \in Seq(T) /\ \A m \in T : Mild(m)
    BY DEF MildList
  <1> DEFINE U == S \union T
  <1>3. a \in Seq(U) /\ b \in Seq(U)
    BY <1>1, <1>2, SeqMonotonic
  <1>4. \A m \in U : Mild(m)
    BY <1>1, <1>2
  <1> HIDE DEF U
  <1>5. a \o b \in Seq(U)
    BY <1>3, ConcatProperties
  <1> QED BY <1>4, <1>5 DEF MildList

LEMMA MildHandler ==
  ASSUME Good(ui), NEW m, NEW rest, NEW ms, MildList(ms), ui' = Updates(ui, ms),
         m.to \notin EndsSearch, Follows(rest)
  PROVE  Routed(m, rest)
  <1>1. PICK S : ms \in Seq(S) /\ \A x \in S : Mild(x)
    BY DEF MildList
  <1> QED BY <1>1, QuietHandler DEF Mild

LEMMA PlainIsMild ==
  ASSUME NEW m, m.to \notin {"ShowNotice", "SearchResultsReady", "SelectResult",
                             "RemoveFromResults", "SearchAgain", "SubmitSearch"}
  PROVE  Mild(m)
  BY DEF Mild, Fits, Silent

(* The notices of the handlers, but for those about a file.                *)
LEMMA NoticeIsMild ==
  ASSUME NEW kind, NEW retry, kind \notin FileProblems, RetrySound(retry)
  PROVE  \A about : Mild(ShowNotice(Notice(kind, retry, about)))
  BY NoticeFits DEF Mild

LEMMA NoticesAreMild ==
  /\ Mild(RecentSearchesNotCleared) /\ Mild(AddFolderFailed)
  /\ Mild(SearchFolderFailed) /\ Mild(SearchPickerUnavailable)
  /\ Mild(AddPickerUnavailable)
  /\ \A kind : kind \notin FileProblems => Mild(ShowNotice(Plain(kind)))
  /\ \A d : Mild(SourceNotRemoved(d))
  <1> DEFINE safe == {"AskClearRecentSearches", "RequestAddSource", "ChooseSearchFolder",
                      "AskRemoveSource", "nothing"}
  <1>1. \A r : r.to \in safe => RetrySound(r)
    BY SafeRetry DEF Confirms, Erases, Launches
  <1>2. /\ \A d : RetrySound([to |-> "AskRemoveSource", folder |-> d])
        /\ RetrySound([to |-> "AskClearRecentSearches"])
        /\ RetrySound([to |-> "RequestAddSource"])
        /\ RetrySound([to |-> "ChooseSearchFolder"]) /\ RetrySound(NoRetry)
    BY <1>1 DEF NoRetry
  <1>3. Mild(RecentSearchesNotCleared)
    BY <1>2, NoticeIsMild DEF RecentSearchesNotCleared, Failed, FileProblems
  <1>4. Mild(AddFolderFailed) /\ Mild(SearchFolderFailed)
    BY <1>2, NoticeIsMild DEF AddFolderFailed, SearchFolderFailed, Failed, FileProblems
  <1>5. Mild(SearchPickerUnavailable) /\ Mild(AddPickerUnavailable)
    BY <1>2, NoticeIsMild
       DEF SearchPickerUnavailable, AddPickerUnavailable, Failed, FileProblems
  <1>6. \A kind : kind \notin FileProblems => Mild(ShowNotice(Plain(kind)))
    BY <1>2, NoticeIsMild DEF Plain
  <1>7. \A d : Mild(SourceNotRemoved(d))
    BY <1>2, NoticeIsMild DEF SourceNotRemoved, Failed, FileProblems
  <1> QED BY <1>3, <1>4, <1>5, <1>6, <1>7

LEMMA ClearRouted ==
  ASSUME Good(ui), NEW m, NEW rest, ConfirmClearRecentSearches(m, rest)
  PROVE  Routed(m, rest)
  <1> DEFINE x == [to |-> "RecentSearchesCleared"]
             y == ShowNotice(Plain("RecentSearchesCleared"))
  <1>1. Mild(m) /\ Mild(x) /\ Mild(RecentSearchesNotCleared) /\ m.to \notin EndsSearch
    BY PlainIsMild, NoticesAreMild DEF ConfirmClearRecentSearches, EndsSearch
  <1>2. Mild(y)
    BY NoticesAreMild DEF FileProblems
  <1>3. Follows(rest)
    BY DEF ConfirmClearRecentSearches, Ends, Follows
  <1>4. CASE ui' = Updates(ui, <<m, x, y>>)
    <2> HIDE DEF x, y
    <2> DEFINE S == {m, x, y}
               ms == <<m, x, y>>
    <2>1. ms \in Seq(S)
      OBVIOUS
    <2>2. \A z \in S : Fits(z) /\ Silent(z)
      BY <1>1, <1>2 DEF Mild
    <2>3. ui' = Updates(ui, ms)
      BY <1>4
    <2> HIDE DEF S, ms
    <2> QED BY <1>1, <1>3, <2>1, <2>2, <2>3, QuietHandler
  <1>5. CASE ui' = Updates(ui, <<m, RecentSearchesNotCleared>>)
    <2>1. MildList(<<m, RecentSearchesNotCleared>>)
      BY <1>1, MildLists
    <2> QED BY <1>1, <1>3, <1>5, <2>1, MildHandler
  <1> QED BY <1>4, <1>5 DEF ConfirmClearRecentSearches, Shows

LEMMA ToggleRouted ==
  ASSUME Good(ui), NEW m, NEW rest, ToggleRememberRecentSearches(m, rest)
  PROVE  Routed(m, rest)
  <1>1. m.to = "ToggleRememberRecentSearches" /\ m.to \notin EndsSearch /\ Mild(m)
    BY PlainIsMild DEF ToggleRememberRecentSearches, EndsSearch
  <1>2. Follows(rest)
    BY DEF ToggleRememberRecentSearches, Ends, Follows
  <1> DEFINE first(w) == IF w THEN << >> ELSE <<SettingNotSaved(m)>>
             last(c) == IF m.on THEN << >>
                        ELSE IF c THEN <<[to |-> "RecentSearchesCleared"]>>
                        ELSE <<RecentSearchesNotCleared>>
  <1>3. PICK w \in BOOLEAN, c \in BOOLEAN : ui' = Updates(ui, first(w) \o <<m>> \o last(c))
    BY DEF ToggleRememberRecentSearches, Shows
  <1>4. MildList(first(w))
    <2>1. RetrySound(m)
      BY <1>1, SafeRetry DEF Confirms, Erases, Launches
    <2>2. Mild(SettingNotSaved(m))
      BY <2>1, NoticeIsMild DEF SettingNotSaved, Failed, FileProblems
    <2> QED BY <2>2, MildLists
  <1>5. MildList(last(c))
    <2>1. Mild([to |-> "RecentSearchesCleared"])
      BY PlainIsMild
    <2> QED BY <2>1, NoticesAreMild, MildLists
  <1>6. MildList(<<m>>)
    BY <1>1, MildLists
  <1> HIDE DEF first, last
  <1>7. MildList(first(w) \o <<m>>)
    BY <1>4, <1>6, MildJoined
  <1>8. MildList(first(w) \o <<m>> \o last(c))
    BY <1>5, <1>7, MildJoined
  <1> QED BY <1>1, <1>2, <1>3, <1>8, MildHandler

LEMMA LaunchRouted ==
  ASSUME Good(ui), NEW m, NEW rest, Sound(m), Launch(m, rest)
  PROVE  Routed(m, rest)
  <1>1. m.to \in Launches /\ m.to \notin EndsSearch /\ m.result \in Position /\ Follows(rest)
    BY DEF Launch, Launches, EndsSearch, Sound, Ends, Follows
  <1>2. CASE ui' = ui
    BY <1>1, <1>2, StillHandler
  <1>3. ASSUME NEW kind \in FileProblems,
               ui' = Updates(ui, <<NotLaunched(kind, m, ui.results[m.result])>>)
        PROVE  Routed(m, rest)
    <2> DEFINE file == ui.results[m.result]
               x == NotLaunched(kind, m, file)
    <2>1. /\ x.to = "ShowNotice" /\ x.notice.about = file
          /\ x.notice.retry \in {m, NoRetry, [to |-> "Switch", view |-> "Sources"],
                                 [to |-> "RevealResult", result |-> m.result]}
      BY DEF NotLaunched, ShowNotice, Notice
    <2>2. RetrySound(x.notice.retry)
      BY <1>1, <2>1
         DEF RetrySound, Launches, Confirms, Erases, NoRetry, FileProblems
    <2>3. Names(x.notice, ui.results)
      BY <1>1, <2>1 DEF Names, Launches, NoRetry
    <2> HIDE DEF x
    <2>4. FitsTo(x, ui.results) /\ Quiet(ui, x)
      BY <2>1, <2>2, <2>3 DEF FitsTo, Quiet
    <2>5. ui' = Update(ui, x)
      BY <1>3, SingleUpdate DEF x
    <2> QED BY <1>1, <2>4, <2>5, UpdateIsGood DEF Routed
  <1> QED BY <1>2, <1>3 DEF Launch, Shows

LEMMA RecoverRouted ==
  ASSUME Good(ui), NEW m, NEW rest, Recover(m, rest)
  PROVE  Routed(m, rest)
  <1>1. m.to \in {"PrepareAgain", "CheckFolder"} /\ m.to \notin EndsSearch /\ Follows(rest)
    BY DEF Recover, EndsSearch, Ends, Follows
  <1> DEFINE file == ui.results[m.result]
             x == NotLaunched("FileCouldNotBeFound", m, file)
             y == RecoveryStorageUnavailable(m, file)
             z == [to |-> "SourcesLoaded", cards |-> folders]
  <1>2. CASE ui' = ui
    BY <1>1, <1>2, StillHandler
  <1>3. CASE ui' = Updates(ui, <<x>>)
    <2>1. /\ x.to = "ShowNotice"
          /\ x.notice.retry = [to |-> "Switch", view |-> "Sources"]
      BY DEF NotLaunched, ShowNotice, Notice
    <2>2. RetrySound(x.notice.retry) /\ Names(x.notice, ui.results)
      BY <2>1 DEF RetrySound, Launches, Confirms, Erases, Names
    <2>3. FitsTo(x, ui.results) /\ Quiet(ui, x)
      BY <2>1, <2>2 DEF FitsTo, Quiet
    <2> HIDE DEF x
    <2> QED BY <1>1, <1>3, <2>3, SingleUpdate, UpdateIsGood DEF Routed, EndsSearch
  <1>4. CASE ui' = Updates(ui, <<y>>)
    <2>1. RetrySound(m)
      BY <1>1, SafeRetry DEF Confirms, Erases, Launches
    <2>2. Fits(y) /\ Silent(y)
      BY <2>1, NoticeFits DEF RecoveryStorageUnavailable, FileProblems
    <2> HIDE DEF y
    <2> QED BY <1>1, <1>4, <2>2, QuietSingle
  <1>5. CASE ui' = Updates(ui, <<z>>)
    <2>1. Fits(z) /\ Silent(z)
      BY DEF Fits, Silent
    <2> HIDE DEF z
    <2> QED BY <1>1, <1>5, <2>1, QuietSingle
  <1> QED BY <1>2, <1>3, <1>4, <1>5 DEF Recover, Shows

-----------------------------------------------------------------------------
(* Handlers that choose and add folders                                    *)

LEMMA AfterPicked ==
  ASSUME NEW rest, NEW pending, AfterFolderPicked(rest, pending)
  PROVE  Follows(rest)
  BY NewTasks DEF AfterFolderPicked, Ends, Starts, Follows

LEMMA FolderMessagesAreMild ==
  /\ \A x : Mild([to |-> "AskAddSensitiveFolder", asked |-> x])
  /\ \A x : Mild([to |-> "SearchLocationSelected", place |-> x])
  /\ \A x : Mild([to |-> "SourceAdded", folder |-> x])
  /\ \A x : MildList(CardsFollow(x))
  /\ \A d : MildList(ReportCombined(d))
  <1>1. \A x, y : Mild([to |-> "FoldersCombined", folder |-> x, inner |-> y])
    BY PlainIsMild
  <1>2. \A x : Mild([to |-> "SourceCardsRefreshed", cards |-> x])
    BY PlainIsMild
  <1>3. \A x : MildList(CardsFollow(x))
    BY <1>2, MildLists DEF CardsFollow
  <1>4. \A d : MildList(ReportCombined(d))
    BY <1>1, MildLists DEF ReportCombined
  <1>5. \A x : Mild([to |-> "AskAddSensitiveFolder", asked |-> x])
    BY PlainIsMild
  <1>6. \A x : Mild([to |-> "SearchLocationSelected", place |-> x])
    BY PlainIsMild
  <1>7. \A x : Mild([to |-> "SourceAdded", folder |-> x])
    BY PlainIsMild
  <1> QED BY <1>3, <1>4, <1>5, <1>6, <1>7

LEMMA ExistingRouted ==
  ASSUME Good(ui), NEW m, NEW rest, ExistingSearchFolderChosen(m, rest)
  PROVE  Routed(m, rest)
  <1>1. m.to \notin EndsSearch
    BY DEF ExistingSearchFolderChosen, EndsSearch
  <1>2. CASE ui.cards[m.folder] = "absent"
    BY <1>1, <1>2, StillHandler DEF ExistingSearchFolderChosen, Ends, Follows
  <1>3. CASE ui.cards[m.folder] # "absent"
    <2> DEFINE x == [to |-> "SearchLocationSelected", place |-> Place(m.folder, None)]
    <2>1. ui' = Updates(ui, <<x>>) /\ AfterFolderPicked(rest, ui.pending)
      BY <1>3 DEF ExistingSearchFolderChosen, Shows
    <2>2. Fits(x) /\ Silent(x)
      BY FolderMessagesAreMild DEF Mild
    <2> HIDE DEF x
    <2>3. Follows(rest)
      BY <2>1, AfterPicked
    <2> QED BY <1>1, <2>1, <2>2, <2>3, QuietSingle
  <1> QED BY <1>2, <1>3

LEMMA PickedRouted ==
  ASSUME Good(ui), NEW m, NEW rest, FolderPicked(m, rest)
  PROVE  Routed(m, rest)
  <1>1. m.to \notin EndsSearch
    BY DEF FolderPicked, EndsSearch
  <1> DEFINE at(p) == [to |-> "SearchLocationSelected", place |-> p]
             asks == [to |-> "AskAddSensitiveFolder", asked |-> Asked(m.path, "Search")]
             added == [to |-> "SourceAdded", folder |-> m.path]
             cancelled == [to |-> "FolderPickerCancelled"]
  <1>2. /\ MildList(<<asks>>) /\ MildList(<<added>>) /\ \A p : MildList(<<at(p)>>)
        /\ MildList(<<cancelled, SearchFolderFailed>>)
        /\ \A now : \A report \in ScanReports(now) : MildList(report)
    <2>1. Mild(cancelled)
      BY PlainIsMild
    <2>2. MildList(<< >>)
      BY MildLists
    <2> QED BY <2>1, <2>2, FolderMessagesAreMild, MildLists, NoticesAreMild DEF ScanReports
  <1>3. \/ Shows(<<asks>>) /\ Ends(rest)
        \/ /\ \E p : \E report \in ScanReports(folders) : Shows(<<at(p)>> \o report)
           /\ AfterFolderPicked(rest, ui.pending)
        \/ /\ \E p : \E report \in ScanReports(folders') :
                Shows(<<added>> \o ReportCombined(m.path) \o <<at(p)>> \o report)
           /\ AfterFolderPicked(rest, ui.pending)
        \/ Shows(<<cancelled, SearchFolderFailed>>) /\ Ends(rest)
    BY DEF FolderPicked
  <1> HIDE DEF at, asks, added, cancelled
  <1>4. Follows(rest)
    BY <1>3, AfterPicked DEF Ends, Follows
  <1>5. \E ms : MildList(ms) /\ Shows(ms)
    <2>1. ASSUME NEW p, NEW report \in ScanReports(folders)
          PROVE  MildList(<<at(p)>> \o report)
      BY <1>2, MildJoined
    <2>2. ASSUME NEW p, NEW report \in ScanReports(folders')
          PROVE  MildList(<<added>> \o ReportCombined(m.path) \o <<at(p)>> \o report)
      <3>1. MildList(<<added>> \o ReportCombined(m.path))
        BY <1>2, FolderMessagesAreMild, MildJoined
      <3>2. MildList(<<added>> \o ReportCombined(m.path) \o <<at(p)>>)
        BY <1>2, <3>1, MildJoined
      <3> QED BY <1>2, <3>2, MildJoined
    <2> QED BY <1>2, <1>3, <2>1, <2>2
  <1> QED BY <1>1, <1>4, <1>5, MildHandler DEF Shows

LEMMA AddFolderRouted ==
  ASSUME Good(ui), NEW m, NEW rest, AddFolder(m, rest)
  PROVE  Routed(m, rest)
  <1>1. m.to \notin EndsSearch /\ Mild(m) /\ Follows(rest)
    BY PlainIsMild DEF AddFolder, EndsSearch, Ends, Follows
  <1> DEFINE after == IF m.to = "AddSourceFolderPicked" THEN <<m>> ELSE << >>
             asks == [to |-> "AskAddSensitiveFolder", asked |-> Asked(m.path, "Sources")]
             already == ShowNotice(Plain(IF folders[m.path] # "absent"
                                         THEN "FolderAlreadyAdded"
                                         ELSE "FolderAlreadyIncluded"))
             added == [to |-> "SourceAdded", folder |-> m.path]
             then(q) == IF q THEN CardsFollow(folders') ELSE <<AddFolderFailed>>
  <1>2. MildList(after)
    BY <1>1, MildLists
  <1>3. /\ MildList(<<asks>>) /\ MildList(<<already>>) /\ MildList(<<added>>)
        /\ MildList(<<AddFolderFailed>>)
    <2>1. Mild(already)
      BY NoticesAreMild DEF FileProblems
    <2> QED BY <2>1, FolderMessagesAreMild, NoticesAreMild, MildLists
  <1>4. \A q : MildList(then(q))
    BY <1>3, FolderMessagesAreMild
  <1>5. \/ Shows(<<asks>> \o after)
        \/ Shows(<<already>> \o after)
        \/ \E q \in BOOLEAN :
             Shows(<<added>> \o ReportCombined(m.path) \o then(q) \o after)
        \/ Shows(<<AddFolderFailed>> \o after)
    BY DEF AddFolder, AddFolderFromPath
  <1> HIDE DEF after, asks, already, added, then
  <1>6. \E ms : MildList(ms) /\ Shows(ms)
    <2>1. ASSUME NEW a, MildList(a) PROVE MildList(a \o after)
      BY <1>2, <2>1, MildJoined
    <2>2. ASSUME NEW q
          PROVE  MildList(<<added>> \o ReportCombined(m.path) \o then(q) \o after)
      <3>1. MildList(<<added>> \o ReportCombined(m.path))
        BY <1>3, FolderMessagesAreMild, MildJoined
      <3>2. MildList(<<added>> \o ReportCombined(m.path) \o then(q))
        BY <1>4, <3>1, MildJoined
      <3> QED BY <2>1, <3>2
    <2> QED BY <1>3, <1>5, <2>1, <2>2
  <1> QED BY <1>1, <1>6, MildHandler DEF Shows

LEMMA UnavailableRouted ==
  ASSUME Good(ui), NEW m, NEW rest,
         SearchFolderPickerUnavailable(m, rest) \/ AddSourceFolderPickerUnavailable(m, rest)
  PROVE  Routed(m, rest)
  <1>1. m.to \notin EndsSearch /\ Mild(m) /\ Follows(rest)
    BY PlainIsMild DEF SearchFolderPickerUnavailable, AddSourceFolderPickerUnavailable,
                       EndsSearch, Ends, Follows
  <1>2. MildList(<<m, SearchPickerUnavailable>>) /\ MildList(<<m, AddPickerUnavailable>>)
    BY <1>1, NoticesAreMild, MildLists
  <1> QED BY <1>1, <1>2, MildHandler
          DEF SearchFolderPickerUnavailable, AddSourceFolderPickerUnavailable, Shows

LEMMA RequestRouted ==
  ASSUME Good(ui), NEW m, NEW rest, RequestAddSource(m, rest)
  PROVE  Routed(m, rest)
  <1>1. m.to \notin EndsSearch /\ Fits(m) /\ Silent(m)
    BY DEF RequestAddSource, EndsSearch, Fits, Silent
  <1>2. CASE ui.adding
    BY <1>1, <1>2, StillHandler DEF RequestAddSource, Ends, Follows
  <1>3. CASE ~ui.adding
    <2>1. Follows(rest) /\ ui' = Updates(ui, <<m>>)
      BY <1>3, NewTasks DEF RequestAddSource, Starts, Shows, Follows
    <2> QED BY <1>1, <2>1, QuietSingle
  <1> QED BY <1>2, <1>3

LEMMA RemovedRouted ==
  ASSUME Good(ui), NEW m, NEW rest, SourceRemoved(m, rest)
  PROVE  Routed(m, rest)
  <1> DEFINE x == [to |-> "SourceRemovalSucceeded", folder |-> m.folder]
  <1>1. Mild(x) /\ Mild(SourceNotRemoved(m.folder))
    BY PlainIsMild, NoticesAreMild
  <1>2. ui' = Updates(ui, <<x>>) \/ ui' = Updates(ui, <<SourceNotRemoved(m.folder)>>)
    BY DEF SourceRemoved, Shows
  <1> HIDE DEF x
  <1>3. m.to \notin EndsSearch /\ Follows(rest)
    BY DEF SourceRemoved, EndsSearch, Ends, Follows
  <1> QED BY <1>1, <1>2, <1>3, QuietSingle DEF Mild

LEMMA NarrowRouted ==
  ASSUME Good(ui), NEW m, NEW rest, NarrowFolderRequested(m, rest)
  PROVE  Routed(m, rest)
  <1>1. m.to \notin EndsSearch /\ ui' = ui /\ Follows(rest)
    BY NewTasks DEF NarrowFolderRequested, EndsSearch, Starts, Follows
  <1> QED BY <1>1, StillHandler

LEMMA WidenRouted ==
  ASSUME Good(ui), NEW m, NEW rest, WidenFolder(m, rest)
  PROVE  Routed(m, rest)
  <1>1. m.to = "WidenFolder" /\ m.to \notin EndsSearch /\ Follows(rest)
    BY DEF WidenFolder, EndsSearch, Ends, Follows
  <1> DEFINE first == IF ui.cards[m.folder] = "absent" THEN << >>
                      ELSE ReportCombined(m.folder)
  <1>2. MildList(first)
    BY FolderMessagesAreMild, MildLists
  <1>3. MildList(<<FolderNotChecked(m)>>)
    <2>1. RetrySound(m)
      BY <1>1, SafeRetry DEF Confirms, Erases, Launches
    <2>2. Mild(FolderNotChecked(m))
      BY <2>1, NoticeIsMild DEF FolderNotChecked, Failed, FileProblems
    <2> QED BY <2>2, MildLists
  <1>4. \/ Shows(first \o CardsFollow(folders'))
        \/ Shows(<<FolderNotChecked(m)>> \o CardsFollow(folders))
        \/ Shows(<<FolderNotChecked(m)>> \o CardsFollow(folders'))
    BY DEF WidenFolder
  <1> HIDE DEF first
  <1>5. ASSUME NEW a, MildList(a), NEW c PROVE MildList(a \o CardsFollow(c))
    BY <1>5, FolderMessagesAreMild, MildJoined
  <1>6. \E ms : MildList(ms) /\ Shows(ms)
    BY <1>2, <1>3, <1>4, <1>5
  <1> QED BY <1>1, <1>6, MildHandler DEF Shows

LEMMA RefreshRouted ==
  ASSUME Good(ui), NEW m, NEW rest, SourceRefreshRequested(m, rest)
  PROVE  Routed(m, rest)
  <1> DEFINE x == [to |-> "SourcesLoaded", cards |-> folders]
  <1>1. m.to = "SourceRefreshRequested" /\ m.to \notin EndsSearch /\ Follows(rest)
    BY DEF SourceRefreshRequested, EndsSearch, Ends, Follows
  <1>2. Mild(x)
    BY PlainIsMild
  <1>3. Mild(FolderNotChecked(m))
    <2>1. RetrySound(m)
      BY <1>1, SafeRetry DEF Confirms, Erases, Launches
    <2> QED BY <2>1, NoticeIsMild DEF FolderNotChecked, Failed, FileProblems
  <1>4. ui' = Updates(ui, <<x>>) \/ ui' = Updates(ui, <<FolderNotChecked(m)>>)
    BY DEF SourceRefreshRequested, Shows
  <1> HIDE DEF x
  <1> QED BY <1>1, <1>2, <1>3, <1>4, QuietSingle DEF Mild

LEMMA CleanupRouted ==
  ASSUME Good(ui), NEW m, NEW rest, RunCleanup(m, rest)
  PROVE  Routed(m, rest)
  <1>1. m.to \in Cleanups /\ m.to \notin EndsSearch /\ Follows(rest)
    BY NewTasks DEF RunCleanup, Cleanups, EndsSearch, Starts, Follows
  <1>2. RetrySound(m)
    BY <1>1, SafeRetry DEF Cleanups, Confirms, Erases, Launches
  <1>3. Mild(CleanupDidNotFinish(m)) /\ Mild(CleanupStorageUnavailable(m))
    BY <1>2, NoticeIsMild
       DEF CleanupDidNotFinish, CleanupStorageUnavailable, Failed, FileProblems
  <1>4. Mild(ShowNotice(Plain(DoneNotice(m.to))))
    BY NoticesAreMild DEF DoneNotice, FileProblems
  <1> QED BY <1>1, <1>3, <1>4, QuietSingle DEF Mild, RunCleanup, Shows

LEMMA OffThreadRouted ==
  ASSUME Good(ui), NEW m, NEW rest, OnScreen(m), OffThread(m, rest)
  PROVE  Routed(m, rest)
  <1>1. m.to \notin EndsSearch /\ Fits(m) /\ Silent(m) /\ ui' = Updates(ui, <<m>>)
    BY DEF OffThread, EndsSearch, Fits, Silent, Shows
  <1>2. TaskSound(Reset) /\ \A x : TaskSound(Rebuild(x))
    BY DEF TaskSound, Reset, Rebuild
  <1>3. Follows(rest)
    <2>1. CASE m.to = "ConfirmResetCatalog" /\ Starts(rest, One(Reset))
      BY <1>2, <2>1, QuestionIs DEF OnScreen, NewTask, Starts, Follows
    <2>2. CASE m.to = "ConfirmRebuild" /\ Starts(rest, One(Rebuild(m.index)))
      BY <1>2, <2>2, QuestionIs DEF OnScreen, NewTask, Starts, Follows
    <2>3. CASE Starts(rest, One(Measure))
      BY <2>3, NewTasks DEF Starts, Follows
    <2> QED BY <2>1, <2>2, <2>3 DEF OffThread
  <1> QED BY <1>1, <1>3, QuietSingle

(* The router, for any message it hears.                                   *)
LEMMA RouteRouted ==
  ASSUME Good(ui), NEW m, NEW rest, Sound(m), OnScreen(m), Route(m, rest)
  PROVE  Routed(m, rest)
  <1>1. CASE ChooseSearchFolder(m, rest)
    BY <1>1, PickerRouted DEF ChooseSearchFolder, EndsSearch
  <1> QED BY <1>1, ReduceRouted, RedispatchRouted, SubmitRouted, CompletedRouted,
             RetryRouted, AgainRouted, ClearRouted, ToggleRouted, LaunchRouted,
             RecoverRouted, ExistingRouted, PickedRouted, UnavailableRouted,
             RequestRouted, AddFolderRouted, RemovedRouted, NarrowRouted,
             WidenRouted, RefreshRouted, CleanupRouted, OffThreadRouted DEF Route

-----------------------------------------------------------------------------
(* What is pressed, and what is answered                                   *)

LEMMA PlainIsSound ==
  ASSUME NEW m, m.to \notin Launches \union
           {"ShowNotice", "SearchResultsReady", "SubmitSearchCompleted", "SelectResult",
            "RemoveFromResults"}
  PROVE  Sound(m)
  BY DEF Sound, Fits

LEMMA AskedOnScreen ==
  ASSUME NEW m, m.to \notin {"ConfirmRemoveSource", "ConfirmNarrowFolder",
                             "ConfirmResetCatalog", "ConfirmRebuild"}
  PROVE  OnScreen(m)
  BY DEF OnScreen

LEMMA ShellPressed ==
  ASSUME NEW m \in ShellOffers(ui)
  PROVE  Sound(m) /\ OnScreen(m)
  <1>1. m.to \in {"Switch", "DismissOverlay", "ClearNotice", "NoticeActionPressed"}
    BY DEF ShellOffers, NoticeOffers
  <1> QED BY <1>1, PlainIsSound, AskedOnScreen DEF Launches

LEMMA AnswerPressed ==
  ASSUME NEW m \in Answers(ui)
  PROVE  Sound(m) /\ OnScreen(m)
  <1>1. CASE Visible(ui) \in {"reset", "remove", "narrow"}
    <2>1. m.to \in CASE Visible(ui) = "reset" -> {"ConfirmResetCatalog", "CancelResetCatalog"}
                     [] Visible(ui) = "remove" -> {"ConfirmRemoveSource", "CancelRemoveSource"}
                     [] OTHER -> {"ConfirmNarrowFolder", "CancelNarrowFolder"}
      BY <1>1 DEF Answers, ResetAnswers, RemoveAnswers, NarrowAnswers
    <2> QED BY <1>1, <2>1, PlainIsSound DEF Launches, OnScreen
  <1>2. CASE Visible(ui) \in {"clear", "private"}
    <2>1. m.to \in {"ConfirmClearRecentSearches", "CancelClearRecentSearches",
                    "ConfirmAddSensitiveFolder", "CancelAddSensitiveFolder"}
      BY <1>2 DEF Answers, ClearAnswers, PrivateAnswers
    <2> QED BY <2>1, PlainIsSound, AskedOnScreen DEF Launches
  <1>3. CASE Visible(ui) = "rebuild"
    <2>1. m.to \in {"ConfirmRebuild", "CancelRebuild"}
      BY <1>3 DEF Answers, RebuildAnswers
    <2> QED BY <1>3, <2>1, PlainIsSound DEF Launches, OnScreen
  <1> QED BY <1>1, <1>2, <1>3 DEF Answers

LEMMA PositionsOf ==
  ASSUME Good(ui)
  PROVE  /\ DOMAIN Drawn(ui) \subseteq Position
         /\ {ui.selected} \ {0} \subseteq Position
  <1>1. DOMAIN ui.results = 1 .. Len(ui.results) /\ Len(ui.results) \in Nat
    BY LenProperties DEF Good
  <1>2. DOMAIN Drawn(ui) \in {DOMAIN ui.results, {}}
    BY DEF Drawn
  <1>3. DOMAIN Drawn(ui) \subseteq Position
    BY <1>1, <1>2 DEF Position
  <1> QED BY <1>3 DEF Good, Position

LEMMA ResultPressed ==
  ASSUME Good(ui), NEW m \in CardOffers(ui) \union RecoveryOffers(ui)
  PROVE  Sound(m) /\ OnScreen(m)
  <1>1. m.result \in Position
    BY PositionsOf DEF CardOffers, RecoveryOffers
  <1>2. m.to \in {"SelectResult", "RevealResult", "OpenResult", "PrepareAgain",
                  "CheckFolder", "RemoveFromResults"}
    BY DEF CardOffers, RecoveryOffers
  <1>3. Sound(m)
    BY <1>1, <1>2 DEF Sound, Fits
  <1> QED BY <1>2, <1>3, AskedOnScreen

LEMMA PagePressed ==
  ASSUME Good(ui), NEW m \in PageOffers(ui)
  PROVE  Sound(m) /\ OnScreen(m)
  <1> DEFINE quiet == {"QueryChanged", "SubmitSearch", "SelectNextResult", "SelectPrevResult",
       "ChooseSearchFolder", "ExistingSearchFolderChosen", "SearchLocationCleared",
       "SearchScopeChanged", "CloseRecentSearches", "SearchAgain", "AskClearRecentSearches",
       "OpenRecentSearches", "RequestAddSource", "SubmitSourcePath", "WidenFolder",
       "AskNarrowFolder", "SourceRefreshRequested", "AskRemoveSource", "CleanSnippets",
       "CleanTemporaryExtraction", "AskResetCatalog", "AskRebuild",
       "StorageMeasurementRequested", "ToggleRememberRecentSearches"}
  <1>1. ASSUME m.to \in quiet PROVE Sound(m) /\ OnScreen(m)
    BY <1>1, PlainIsSound, AskedOnScreen DEF Launches
  <1>2. m \in LocationOffers(ui) => m.to \in quiet
    <2> DEFINE pickers(S) == {[to |-> "ChooseSearchFolder"] : p \in S}
               scopes(S) == {[to |-> "SearchScopeChanged", below |-> b] : b \in S}
               places == {[to |-> "ExistingSearchFolderChosen", folder |-> d] :
                            d \in Added(ui.cards)}
    <2>1. \A S : \A x \in pickers(S) \union scopes(S) \union places : x.to \in quiet
      OBVIOUS
    <2>2. \E S, T : LocationOffers(ui) = pickers(S) \union
                      IF ui.location = None THEN places
                      ELSE {[to |-> "SearchLocationCleared"]} \union scopes(T)
      BY DEF LocationOffers
    <2> HIDE DEF pickers, scopes, places
    <2> QED BY <2>1, <2>2
  <1>3. m \in RecentOffers(ui) => m.to \in quiet
    BY DEF RecentOffers
  <1>4. CASE m \in SearchOffers(ui)
    BY <1>1, <1>2, <1>3, <1>4, ResultPressed DEF SearchOffers
  <1>5. m \in FolderOffers(ui) => m.to \in quiet
    BY DEF FolderOffers
  <1>6. m \in SourcesOffers(ui) => m.to \in quiet
    <2> DEFINE adding(S) == {[to |-> "RequestAddSource"] : a \in S}
               paths == {[to |-> "SubmitSourcePath", path |-> d] : d \in Plan[plan].dirs}
    <2>1. \A S : \A x \in adding(S) \union paths : x.to \in quiet
      OBVIOUS
    <2>2. \E S : SourcesOffers(ui) = adding(S) \union paths \union FolderOffers(ui)
      BY DEF SourcesOffers
    <2> HIDE DEF adding, paths
    <2> QED BY <1>5, <2>1, <2>2
  <1>7. m \in StorageOffers => m.to \in quiet
    BY DEF StorageOffers, CleanupOffers, Cleanups
  <1>8. m \in SettingsOffers(ui) => m.to \in quiet
    BY DEF SettingsOffers
  <1> HIDE DEF quiet
  <1> QED BY <1>1, <1>4, <1>6, <1>7, <1>8 DEF PageOffers

LEMMA PressedIsSound ==
  ASSUME Good(ui), NEW m \in Offered(ui)
  PROVE  Sound(m) /\ OnScreen(m)
  BY ShellPressed, AnswerPressed, PagePressed DEF Offered

LEMMA FoundAreResults == Found \subseteq Seq(File)
  <1>1. Cardinality(File) \in Nat
    BY WindowAssumption, FS_CardinalityType
  <1>2. \A n \in 0 .. Cardinality(File) : n \in Nat
    BY <1>1
  <1>3. \A l \in Found : \E n \in Nat : l \in [1 .. n -> File]
    BY <1>2 DEF Found
  <1> QED BY <1>3, SeqDef

LEMMA AnsweredIsSound ==
  ASSUME NEW t, TaskSound(t), NEW m \in Ending(t)
  PROVE  /\ Sound(m) /\ m.to \notin Confirms
         /\ t.task = "search" => m.to \in EndsSearch
  <1>1. CASE t.task = "done"
    <2>1. Ending(t) = {t.message}
      BY <1>1 DEF Ending
    <2> QED BY <1>1, <2>1 DEF TaskSound
  <1>2. CASE t.task = "search"
    <2>1. \/ m.to = "SearchError"
          \/ m.to \in {"SubmitSearchCompleted", "SearchResultsReady"} /\ m.results \in Found
      BY <1>2 DEF Ending
    <2> QED BY <2>1, FoundAreResults DEF Sound, Fits, Launches, Confirms, EndsSearch
  <1>3. CASE t.task \notin {"done", "search"}
    <2>1. m.to \in {"FolderPicked", "FolderPickerCancelled", "SearchFolderPickerUnavailable",
                    "AddSourceFolderPicked", "AddSourceFolderPickerCancelled",
                    "AddSourceFolderPickerUnavailable", "StorageDataReady",
                    "StorageMeasurementFailed"}
      BY <1>3 DEF Ending
    <2> QED BY <1>3, <2>1, PlainIsSound DEF Launches, Confirms
  <1> QED BY <1>1, <1>2, <1>3

-----------------------------------------------------------------------------
(* The invariant                                                           *)

(* A window that is well formed, tasks that will answer with what a handler *)
(* can take, and a search behind a page that says it searches.             *)
WindowInv ==
  /\ Good(ui) /\ IsABag(tasks)
  /\ \A t \in BagToSet(tasks) : TaskSound(t)
  /\ SearchingHasTask

Started(t) == Copies(t, tasks') > Copies(t, tasks)
AsksFirstStep == \A t \in Erasing' : Started(t) => Visible(ui) = Question(t)

LEMMA CopiesType ==
  ASSUME NEW bag, IsABag(bag), NEW t
  PROVE  Copies(t, bag) \in Nat
  BY DEF IsABag, Copies, BagIn, BagToSet

LEMMA SearchIsInFlight ==
  ASSUME NEW q, NEW r, Search(q, r) \in BagToSet(tasks)'
  PROVE  InFlight("search")' # {}
  BY DEF InFlight, Search

(* What a handler leaves of the tasks, given those beside its own.         *)
LEMMA TasksFollow ==
  ASSUME IsABag(tasks), \A t \in BagToSet(tasks) : TaskSound(t),
         NEW rest, IsABag(rest), BagToSet(rest) \subseteq BagToSet(tasks),
         \A t : Copies(t, rest) <= Copies(t, tasks), Follows(rest)
  PROVE  /\ IsABag(tasks') /\ BagToSet(rest) \subseteq BagToSet(tasks')
         /\ \A t \in BagToSet(tasks') : TaskSound(t)
         /\ AsksFirstStep
  <1>1. CASE tasks' = rest
    <2>1. \A t : ~Started(t)
      <3> SUFFICES ASSUME NEW t PROVE ~Started(t)
        OBVIOUS
      <3> QED BY <1>1, CopiesType DEF Started
    <2> QED BY <1>1, <2>1 DEF AsksFirstStep
  <1>2. ASSUME NEW u, NewTask(u), tasks' = rest (+) One(u)
        PROVE  /\ IsABag(tasks') /\ BagToSet(rest) \subseteq BagToSet(tasks')
               /\ \A t \in BagToSet(tasks') : TaskSound(t)
               /\ AsksFirstStep
    <2>1. /\ IsABag(tasks') /\ BagToSet(tasks') = BagToSet(rest) \union {u}
          /\ \A t : Copies(t, tasks') > Copies(t, rest) => t \in {u}
      BY <1>2, BagStarted DEF One
    <2>2. ASSUME NEW t, Started(t) PROVE t = u
      <3>1. /\ Copies(t, tasks) \in Nat /\ Copies(t, rest) \in Nat
            /\ Copies(t, tasks') \in Nat
        BY <2>1, CopiesType
      <3>2. Copies(t, tasks') > Copies(t, rest)
        BY <2>2, <3>1 DEF Started
      <3> QED BY <2>1, <3>2
    <2>3. AsksFirstStep
      BY <1>2, <2>2 DEF AsksFirstStep, Erasing, NewTask
    <2> QED BY <1>2, <2>1, <2>3 DEF NewTask
  <1> QED BY <1>1, <1>2 DEF Follows

LEMMA PressKeeps ==
  ASSUME WindowInv, Press
  PROVE  WindowInv' /\ AsksFirstStep
  <1>1. PICK m \in Offered(ui) : Route(m, tasks)
    BY DEF Press
  <1>2. Routed(m, tasks)
    BY <1>1, PressedIsSound, RouteRouted DEF WindowInv
  <1>3. \A t : Copies(t, tasks) <= Copies(t, tasks)
    <2> SUFFICES ASSUME NEW t PROVE Copies(t, tasks) <= Copies(t, tasks)
      OBVIOUS
    <2> QED BY CopiesType DEF WindowInv
  <1>4. /\ IsABag(tasks') /\ BagToSet(tasks) \subseteq BagToSet(tasks')
        /\ \A t \in BagToSet(tasks') : TaskSound(t)
        /\ AsksFirstStep
    BY <1>2, <1>3, TasksFollow DEF WindowInv, Routed
  <1>5. SearchingHasTask'
    <2>1. CASE Resting(ui')
      BY <2>1 DEF Resting, SearchingHasTask
    <2>2. CASE ~Resting(ui')
      <3>1. CASE ~Resting(ui)
        BY <1>4, <3>1 DEF Resting, SearchingHasTask, WindowInv, InFlight
      <3>2. CASE Resting(ui)
        <4>1. PICK q, r : tasks' = tasks (+) One(Search(q, r))
          BY <1>2, <2>2, <3>2 DEF Routed
        <4>2. Search(q, r) \in BagToSet(tasks')
          BY <4>1, BagStarted DEF WindowInv, One
        <4> QED BY <4>2, SearchIsInFlight DEF SearchingHasTask
      <3> QED BY <3>1, <3>2
    <2> QED BY <2>1, <2>2
  <1> QED BY <1>2, <1>4, <1>5 DEF WindowInv, Routed

LEMMA ArriveKeeps ==
  ASSUME WindowInv, NEW t \in BagToSet(tasks), Arrive(t)
  PROVE  WindowInv' /\ AsksFirstStep
  <1> DEFINE rest == tasks (-) One(t)
  <1>1. PICK m \in Ending(t) : Route(m, rest)
    BY DEF Arrive
  <1>2. /\ Sound(m) /\ OnScreen(m)
        /\ t.task = "search" => m.to \in EndsSearch
    BY AnsweredIsSound DEF WindowInv, OnScreen, Confirms
  <1>3. /\ IsABag(rest) /\ BagToSet(rest) \subseteq BagToSet(tasks)
        /\ BagToSet(tasks) \subseteq BagToSet(rest) \union {t}
        /\ \A x : Copies(x, rest) <= Copies(x, tasks)
    BY BagEnded DEF WindowInv
  <1> HIDE DEF rest
  <1>4. Routed(m, rest)
    BY <1>1, <1>2, RouteRouted DEF WindowInv
  <1>5. /\ IsABag(tasks') /\ BagToSet(rest) \subseteq BagToSet(tasks')
        /\ \A x \in BagToSet(tasks') : TaskSound(x)
        /\ AsksFirstStep
    BY <1>3, <1>4, TasksFollow DEF WindowInv, Routed
  <1>6. SearchingHasTask'
    <2>1. CASE Resting(ui')
      BY <2>1 DEF Resting, SearchingHasTask
    <2>2. CASE ~Resting(ui')
      <3>1. CASE ~Resting(ui)
        <4>1. t.task # "search"
          BY <1>2, <1>4, <2>2 DEF Routed
        <4>2. PICK x \in BagToSet(tasks) : x.task = "search"
          BY <3>1 DEF Resting, SearchingHasTask, WindowInv, InFlight
        <4>3. x \in BagToSet(tasks')
          BY <1>3, <1>5, <4>1, <4>2
        <4> QED BY <4>2, <4>3 DEF SearchingHasTask, InFlight
      <3>2. CASE Resting(ui)
        <4>1. PICK q, r : tasks' = rest (+) One(Search(q, r))
          BY <1>4, <2>2, <3>2 DEF Routed
        <4>2. Search(q, r) \in BagToSet(tasks')
          BY <1>3, <4>1, BagStarted DEF One
        <4> QED BY <4>2, SearchIsInFlight DEF SearchingHasTask
      <3> QED BY <3>1, <3>2
    <2> QED BY <2>1, <2>2
  <1> QED BY <1>4, <1>5, <1>6 DEF WindowInv, Routed

(* Work that ends with messages of its own, for the router to hear.        *)
LEMMA WorkKeeps ==
  ASSUME WindowInv, NEW rest, IsABag(rest), NEW u,
         BagToSet(rest) \subseteq BagToSet(tasks),
         BagToSet(tasks) \subseteq BagToSet(rest) \union {u}, u.task # "search",
         \A t : Copies(t, rest) <= Copies(t, tasks),
         NEW ms, \A m \in ms : Sound(m) /\ m.to \notin Confirms \union Erases,
         tasks' = rest (+) SetToBag({Done(m) : m \in ms}), UNCHANGED ui
  PROVE  WindowInv' /\ AsksFirstStep
  <1> DEFINE S == {Done(m) : m \in ms}
  <1>1. \A t \in S : TaskSound(t) /\ Question(t) = "none"
    <2> SUFFICES ASSUME NEW m \in ms PROVE TaskSound(Done(m)) /\ Question(Done(m)) = "none"
      OBVIOUS
    <2> QED BY QuestionIs DEF TaskSound, Done
  <1> HIDE DEF S
  <1>2. /\ IsABag(tasks') /\ BagToSet(tasks') = BagToSet(rest) \union S
        /\ \A t : Copies(t, tasks') > Copies(t, rest) => t \in S
    BY BagStarted DEF S
  <1>3. AsksFirstStep
    <2> SUFFICES ASSUME NEW t, Started(t) PROVE Question(t) = "none"
      BY DEF AsksFirstStep, Erasing
    <2>1. /\ Copies(t, tasks) \in Nat /\ Copies(t, rest) \in Nat
          /\ Copies(t, tasks') \in Nat
      BY <1>2, CopiesType DEF WindowInv
    <2>2. Copies(t, tasks') > Copies(t, rest)
      BY <2>1 DEF Started
    <2> QED BY <1>1, <1>2, <2>2
  <1>4. SearchingHasTask'
    BY <1>2 DEF SearchingHasTask, WindowInv, InFlight
  <1> QED BY <1>1, <1>2, <1>3, <1>4 DEF WindowInv

LEMMA WorkDone ==
  ASSUME WindowInv, NEW u, u.task # "search",
         NEW ms, \A m \in ms : Sound(m) /\ m.to \notin Confirms \union Erases,
         Leaves(u, ms), UNCHANGED ui
  PROVE  WindowInv' /\ AsksFirstStep
  <1> DEFINE rest == tasks (-) One(u)
  <1>1. /\ IsABag(rest) /\ BagToSet(rest) \subseteq BagToSet(tasks)
        /\ BagToSet(tasks) \subseteq BagToSet(rest) \union {u}
        /\ \A x : Copies(x, rest) <= Copies(x, tasks)
    BY BagEnded DEF WindowInv
  <1>2. tasks' = rest (+) SetToBag({Done(m) : m \in ms})
    BY DEF Leaves
  <1> HIDE DEF rest
  <1> QED BY <1>1, <1>2, WorkKeeps

LEMMA ReportSound ==
  /\ \A m : m.to \in {"CatalogResetSucceeded", "StorageDataReady", "SourcesLoaded",
                      "FolderNarrowed", "SourceCardsRefreshed"}
       => Sound(m) /\ m.to \notin Confirms \union Erases
  /\ \A kind, r : r.to \in {"AskResetCatalog", "AskRebuild", "AskNarrowFolder"}
       /\ kind \notin FileProblems
       => Sound(Failed(kind, r)) /\ Failed(kind, r).to \notin Confirms \union Erases
  <1>1. ASSUME NEW m, m.to \in {"CatalogResetSucceeded", "StorageDataReady", "SourcesLoaded",
                                "FolderNarrowed", "SourceCardsRefreshed"}
        PROVE  Sound(m) /\ m.to \notin Confirms \union Erases
    BY <1>1, PlainIsSound DEF Launches, Confirms, Erases
  <1>2. ASSUME NEW kind, NEW r, r.to \in {"AskResetCatalog", "AskRebuild", "AskNarrowFolder"},
               kind \notin FileProblems
        PROVE  Sound(Failed(kind, r)) /\ Failed(kind, r).to \notin Confirms \union Erases
    <2>1. RetrySound(r)
      BY <1>2, SafeRetry DEF Confirms, Erases, Launches
    <2>2. Mild(Failed(kind, r)) /\ Failed(kind, r).to = "ShowNotice"
      BY <1>2, <2>1, NoticeIsMild DEF Failed, ShowNotice
    <2> QED BY <2>2 DEF Mild, Sound, Launches, Confirms, Erases
  <1> QED BY <1>1, <1>2

LEMMA ResetKeeps ==
  ASSUME WindowInv, RunReset
  PROVE  WindowInv' /\ AsksFirstStep
  <1> DEFINE over == [to |-> "CatalogResetSucceeded"]
             measured == [to |-> "StorageDataReady"]
             cards == [to |-> "SourcesLoaded", cards |-> folders']
  <1>1. \A m \in {over, measured, cards, ResetFailed, ResetStorageUnavailable} :
          Sound(m) /\ m.to \notin Confirms \union Erases
    BY ReportSound DEF ResetFailed, ResetStorageUnavailable, FileProblems
  <1>2. Reset.task # "search" /\ UNCHANGED ui
    BY DEF Reset, RunReset
  <1>3. \/ Leaves(Reset, {over, measured}) \/ Leaves(Reset, {ResetStorageUnavailable})
        \/ Leaves(Reset, {ResetFailed, cards})
    BY DEF RunReset
  <1> HIDE DEF over, measured, cards
  <1>4. \E ms : /\ \A m \in ms : Sound(m) /\ m.to \notin Confirms \union Erases
                /\ Leaves(Reset, ms)
    BY <1>1, <1>3
  <1> QED BY <1>2, <1>4, WorkDone

LEMMA RebuildKeeps ==
  ASSUME WindowInv, RunRebuild
  PROVE  WindowInv' /\ AsksFirstStep
  <1>1. PICK x \in {"keyword", "vector"} :
          \E m \in {[to |-> "StorageDataReady"],
                    CleanupDidNotFinish([to |-> "AskRebuild", index |-> x])} :
            Leaves(Rebuild(x), {m})
    BY DEF RunRebuild
  <1> DEFINE measured == [to |-> "StorageDataReady"]
             failed == CleanupDidNotFinish([to |-> "AskRebuild", index |-> x])
  <1>2. \A m \in {measured, failed} : Sound(m) /\ m.to \notin Confirms \union Erases
    BY ReportSound DEF CleanupDidNotFinish, FileProblems
  <1>3. Rebuild(x).task # "search" /\ UNCHANGED ui
    BY DEF Rebuild, RunRebuild
  <1>4. \E m \in {measured, failed} : Leaves(Rebuild(x), {m})
    BY <1>1
  <1> HIDE DEF measured, failed
  <1>5. PICK m \in {measured, failed} : Leaves(Rebuild(x), {m})
    BY <1>4
  <1>6. \A n \in {m} : Sound(n) /\ n.to \notin Confirms \union Erases
    BY <1>2
  <1> QED BY <1>3, <1>5, <1>6, WorkDone

LEMMA NarrowKeeps ==
  ASSUME WindowInv, RunNarrow
  PROVE  WindowInv' /\ AsksFirstStep
  <1>1. PICK d \in Dir :
          \/ Leaves(Narrow(d), {[to |-> "FolderNarrowed", folder |-> d],
                                [to |-> "SourceCardsRefreshed", cards |-> folders']})
          \/ Leaves(Narrow(d),
               {CleanupDidNotFinish([to |-> "AskNarrowFolder", folder |-> d]),
                [to |-> "SourceCardsRefreshed", cards |-> folders]})
    BY DEF RunNarrow
  <1> DEFINE narrowed == [to |-> "FolderNarrowed", folder |-> d]
             after == [to |-> "SourceCardsRefreshed", cards |-> folders']
             before == [to |-> "SourceCardsRefreshed", cards |-> folders]
             failed == CleanupDidNotFinish([to |-> "AskNarrowFolder", folder |-> d])
  <1>2. \A m \in {narrowed, after, before, failed} :
          Sound(m) /\ m.to \notin Confirms \union Erases
    BY ReportSound DEF CleanupDidNotFinish, FileProblems
  <1>3. Narrow(d).task # "search" /\ UNCHANGED ui
    BY DEF Narrow, RunNarrow
  <1>4. Leaves(Narrow(d), {narrowed, after}) \/ Leaves(Narrow(d), {failed, before})
    BY <1>1
  <1> HIDE DEF narrowed, after, before, failed
  <1>5. \E ms : /\ \A m \in ms : Sound(m) /\ m.to \notin Confirms \union Erases
                /\ Leaves(Narrow(d), ms)
    BY <1>2, <1>4
  <1> QED BY <1>3, <1>5, WorkDone

LEMMA ReportKeeps ==
  ASSUME WindowInv, LoopReports
  PROVE  WindowInv' /\ AsksFirstStep
  <1> DEFINE m == [to |-> "SourceCardsRefreshed", cards |-> folders]
  <1>1. Sound(m) /\ m.to \notin Confirms \union Erases
    BY ReportSound
  <1>2. NewTask(Done(m))
    BY <1>1, QuestionIs DEF NewTask, TaskSound, Done
  <1>3. Follows(tasks) /\ UNCHANGED ui
    BY <1>2 DEF Follows, LoopReports
  <1> HIDE DEF m
  <1>4. \A t : Copies(t, tasks) <= Copies(t, tasks)
    <2> SUFFICES ASSUME NEW t PROVE Copies(t, tasks) <= Copies(t, tasks)
      OBVIOUS
    <2> QED BY CopiesType DEF WindowInv
  <1>5. /\ IsABag(tasks') /\ BagToSet(tasks) \subseteq BagToSet(tasks')
        /\ \A t \in BagToSet(tasks') : TaskSound(t)
        /\ AsksFirstStep
    BY <1>3, <1>4, TasksFollow DEF WindowInv
  <1> QED BY <1>3, <1>5 DEF WindowInv, SearchingHasTask, InFlight

LEMMA OpenedIsGood ==
  ASSUME NEW c, NEW r, NEW h
  PROVE  Good(Opened(c, r, h)) /\ Resting(Opened(c, r, h))
  <1> DEFINE s == Opened(c, r, h)
  <1>1. /\ s.results = << >> /\ s.selected = 0 /\ s.notice = NoNotice
        /\ s.running = FALSE /\ s.status = "idle" /\ Shaped(s)
    BY DEF Opened, Shaped
  <1>2. RetrySound(NoNotice.retry)
    BY SafeRetry DEF NoNotice, Plain, Notice, NoRetry, Confirms, Erases, Launches
  <1>3. Names(NoNotice, << >>)
    BY DEF Names, NoNotice, Plain, Notice, FileProblems
  <1> HIDE DEF s
  <1> QED BY <1>1, <1>2, <1>3 DEF Good, Resting, s

LEMMA EmptyTasks ==
  /\ IsABag(EmptyBag) /\ BagToSet(EmptyBag) = {}
  /\ \A t : Copies(t, EmptyBag) = 0
  BY DEF EmptyBag, SetToBag, IsABag, BagToSet, Copies, BagIn

LEMMA RestartKeeps ==
  ASSUME WindowInv, Restart
  PROVE  WindowInv' /\ AsksFirstStep
  <1>1. Good(ui') /\ Resting(ui') /\ tasks' = EmptyBag
    BY OpenedIsGood DEF Restart
  <1>2. WindowInv'
    BY <1>1, EmptyTasks DEF WindowInv, Resting, SearchingHasTask
  <1> QED BY <1>1, <1>2, EmptyTasks DEF AsksFirstStep, Erasing

LEMMA InitInv == Init => WindowInv
  BY OpenedIsGood, EmptyTasks DEF Init, WindowInv, Resting, SearchingHasTask

LEMMA StepKeeps ==
  ASSUME WindowInv, Next
  PROVE  WindowInv' /\ AsksFirstStep
  BY PressKeeps, ArriveKeeps, ResetKeeps, RebuildKeeps, NarrowKeeps, ReportKeeps,
     RestartKeeps DEF Next

LEMMA StutterKeeps ==
  ASSUME WindowInv, UNCHANGED vars
  PROVE  WindowInv'
  BY DEF WindowInv, vars, SearchingHasTask, InFlight

LEMMA InvHolds == Spec => []WindowInv
  <1>1. WindowInv /\ [Next]_vars => WindowInv'
    BY StepKeeps, StutterKeeps
  <1> QED BY <1>1, InitInv, PTL DEF Spec

-----------------------------------------------------------------------------
(* The theorems                                                            *)

(* A search is shown as running only while a search task is in flight, so  *)
(* its answer can still end it: nothing leaves the page busy.              *)
THEOREM SearchingIsSearching == Spec => []SearchingHasTask
  <1>1. WindowInv => SearchingHasTask
    BY DEF WindowInv
  <1> QED BY <1>1, InvHolds, PTL

(* A file problem's "Try again" still points at the file it is about,      *)
(* whatever has happened to the list of results since.                     *)
THEOREM RetryKeepsItsFile == Spec => []RetryNamesItsFile
  <1>1. WindowInv => RetryNamesItsFile
    BY DEF WindowInv, Good, Names, RetryNamesItsFile, Launches
  <1> QED BY <1>1, InvHolds, PTL

(* Removing or narrowing a folder, a rebuild and a reset start only from   *)
(* their own question on screen: no stored retry, no late answer and no    *)
(* report starts one.                                                      *)
THEOREM ErasingIsAsked == Spec => ErasesOnlyAsked
  <1> DEFINE Asked1 == \A t \in Erasing' :
                 Copies(t, tasks') > Copies(t, tasks) => Visible(ui) = Question(t)
  <1>1. WindowInv /\ Next => Asked1
    BY StepKeeps DEF AsksFirstStep, Started
  <1>2. WindowInv /\ [Next]_vars => [Asked1]_vars
    BY <1>1
  <1>3. Spec => [][Asked1]_vars
    BY <1>2, InvHolds, PTL DEF Spec
  <1> QED BY <1>3 DEF ErasesOnlyAsked

(* A search is added to those kept while remembering is off only where the *)
(* settings could not be read when it ended.                               *)
NothingRecorded ==
  ~saved => /\ history' \subseteq history \union mistaken'
            /\ ~MayFail("settings") => history' \subseteq history

(* What a search recorded against the settings is owed to.                 *)
MistakenByFailure == mistaken # {} => MayFail("settings")

LEMMA HistoryStep ==
  ASSUME [Next]_vars
  PROVE  /\ NothingRecorded
         /\ OffForgetsAll => OffForgetsAll'
         /\ MistakenByFailure => MistakenByFailure'
  <1>1. plan' = plan
    BY DEF Next, vars
  <1> DEFINE Kept == /\ NothingRecorded
                     /\ OffForgetsAll => OffForgetsAll'
                     /\ MistakenByFailure => MistakenByFailure'
  <1>2. \A f : MayFail(f)' <=> MayFail(f)
    BY <1>1 DEF MayFail
  <1>3. ASSUME UNCHANGED <<history, mistaken>>, saved' = saved \/ saved' PROVE Kept
    BY <1>2, <1>3 DEF OffForgetsAll, MistakenByFailure, NothingRecorded
  <1>4. ASSUME Forgotten PROVE Kept
    BY <1>4 DEF Forgotten, OffForgetsAll, MistakenByFailure, NothingRecorded
  <1>5. \A read \in SettingsReads :
           /\ read.left = saved \/ read.left
           /\ ~saved /\ read.remember => MayFail("settings")
           /\ saved => read.left /\ read.remember
    <2>1. SUFFICES ASSUME NEW read \in SettingsReads
                   PROVE  \/ read.remember = saved /\ read.left = saved
                          \/ /\ MayFail("settings") /\ read.remember = TRUE
                             /\ read.left = saved \/ read.left = TRUE
      OBVIOUS
    <2>2. CASE read = [remember |-> saved, left |-> saved]
      BY <2>2
    <2>3. ASSUME NEW s \in {saved, TRUE}, read = [remember |-> TRUE, left |-> s],
                 MayFail("settings")
          PROVE  /\ MayFail("settings") /\ read.remember = TRUE
                 /\ read.left = saved \/ read.left = TRUE
      BY <2>3
    <2> QED BY <2>2, <2>3 DEF SettingsReads
  <1>6. ASSUME NEW m, NEW rest, Route(m, rest) PROVE Kept
    <2>1. CASE ToggleRememberRecentSearches(m, rest)
      <3>1. PICK read \in SettingsReads, written \in BOOLEAN, cleared \in BOOLEAN :
              /\ cleared \/ MayFail("clear")
              /\ saved' = IF written THEN m.on ELSE read.left
              /\ IF ~m.on /\ cleared THEN Forgotten ELSE UNCHANGED <<history, mistaken>>
        BY <2>1 DEF ToggleRememberRecentSearches
      <3>2. CASE Forgotten
        BY <1>4, <3>2
      <3>3. CASE UNCHANGED <<history, mistaken>> /\ (saved' = saved \/ saved')
        BY <1>3, <3>3
      <3>4. CASE UNCHANGED <<history, mistaken>> /\ MayFail("clear")
        BY <1>2, <3>4 DEF OffForgetsAll, MistakenByFailure, NothingRecorded
      <3> QED BY <1>5, <3>1, <3>2, <3>3, <3>4
    <2>2. CASE ConfirmClearRecentSearches(m, rest)
      BY <1>3, <1>4, <2>2 DEF ConfirmClearRecentSearches
    <2>3. CASE SubmitSearchCompleted(m, rest)
      <3>1. PICK read \in SettingsReads, written \in BOOLEAN :
              RecordedWith(m, rest, read, read.remember /\ written)
        BY <2>3 DEF SubmitSearchCompleted
      <3>2. CASE ~(read.remember /\ written)
        BY <1>3, <1>5, <3>1, <3>2 DEF RecordedWith
      <3>3. CASE read.remember /\ written /\ saved
        BY <1>2, <1>5, <3>1, <3>3
           DEF RecordedWith, Upserted, OffForgetsAll, MistakenByFailure, NothingRecorded
      <3>4. CASE read.remember /\ written /\ ~saved
        BY <1>2, <1>5, <3>1, <3>4
           DEF RecordedWith, Upserted, OffForgetsAll, MistakenByFailure, NothingRecorded
      <3> QED BY <3>2, <3>3, <3>4
    <2>4. CASE UNCHANGED remembered
      BY <1>3, <2>4 DEF remembered
    <2> QED
      BY <1>6, <2>1, <2>2, <2>3, <2>4
         DEF Route, stored, Reduce, Redispatch, SubmitSearch, RetrySearch, SearchAgain,
             Launch, Recover, ChooseSearchFolder, ExistingSearchFolderChosen,
             FolderPicked, SearchFolderPickerUnavailable, RequestAddSource, AddFolder,
             AddSourceFolderPickerUnavailable, SourceRemoved, NarrowFolderRequested,
             WidenFolder, SourceRefreshRequested, RunCleanup, OffThread
  <1>7. CASE Press
    BY <1>6, <1>7 DEF Press
  <1>8. CASE \E t \in BagToSet(tasks) : Arrive(t)
    BY <1>6, <1>8 DEF Arrive
  <1>9. CASE RunReset
    BY <1>3, <1>4, <1>9 DEF RunReset, CatalogEmptied, ResetStops, CatalogKept
  <1>10. CASE Restart
    BY <1>3, <1>5, <1>10 DEF Restart
  <1>11. CASE RunRebuild \/ RunNarrow \/ LoopReports \/ UNCHANGED vars
    BY <1>3, <1>11 DEF RunRebuild, RunNarrow, LoopReports, stored, remembered, vars
  <1> QED BY <1>7, <1>8, <1>9, <1>10, <1>11 DEF Next

(* While remembering is off nothing is kept but what searches recorded     *)
(* when the settings could not be read as they ended; where they always    *)
(* can be, there is none of these, and nothing is kept.  Clearing what was *)
(* kept may fail: the statement is about runs in which it does not.        *)
THEOREM TurningOffForgets == Spec => [](OffForgetsAll /\ MistakenByFailure)
  <1>1. Init => OffForgetsAll /\ MistakenByFailure
    BY DEF Init, OffForgetsAll, MistakenByFailure
  <1>2. OffForgetsAll /\ MistakenByFailure /\ [Next]_vars
          => (OffForgetsAll /\ MistakenByFailure)'
    BY HistoryStep
  <1> QED BY <1>1, <1>2, PTL DEF Spec

(* While it is off no step adds a search to those kept, except where the   *)
(* settings may fail to be read, and then only one whose own read failed:  *)
(* clearing that fails does not bring new searches in.                     *)
THEOREM NothingRecordedWhileOff == Spec => [][NothingRecorded]_vars
  <1>1. [Next]_vars => [NothingRecorded]_vars
    BY HistoryStep
  <1> QED BY <1>1, PTL DEF Spec
=============================================================================
