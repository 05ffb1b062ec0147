--------------------------- MODULE RunPagesProofs ---------------------------
(***************************************************************************)
(* Whoever pages through the runs of a pipeline to the end has seen all of *)
(* them, and every button leads to a page, for any numbers of runs and any *)
(* page size.                                                              *)
(***************************************************************************)
EXTENDS RunPages, TLAPS

-----------------------------------------------------------------------------
(* Products and quotients, once and for all. *)

(* Products with the page size grow with the page. *)
LEMMA TimesGrows ==
  ASSUME PagesAssumption, NEW a \in Int, NEW b \in Int, a <= b
  PROVE  a * PageSize <= b * PageSize
BY Z3 DEF PagesAssumption

(* What a page begins with is the end of the one before. *)
LEMMA TimesNext ==
  ASSUME PagesAssumption, NEW a \in Int
  PROVE  /\ a * PageSize \in Int
         /\ (a + 1) * PageSize = a * PageSize + PageSize
         /\ (a - 1) * PageSize = a * PageSize - PageSize
BY Z3 DEF PagesAssumption

(* Integer division, as Go and TLA+ agree on it for natural numbers. *)
LEMMA DivMeans ==
  ASSUME PagesAssumption, NEW n \in Nat
  PROVE  /\ n \div PageSize \in Nat
         /\ (n \div PageSize) * PageSize <= n
         /\ n < (n \div PageSize) * PageSize + PageSize
BY Z3 DEF PagesAssumption

-----------------------------------------------------------------------------
(* While a handler is between its queries, the rows are those it counted   *)
(* and those created since; only a page that is open has buttons to press. *)
CountInv ==
    /\ handler # "none" /\ ~deleted => last = count + late
    /\ handler = "GetPipelineRunsList" => open /\ asked >= 1
    /\ handler = "GetPipelineRunsPage" => ~open /\ asked = 0 /\ swept = 0

(* What the reader has not seen lies behind the pages that were shown.     *)
SweepInv ==
    /\ open => swept >= 1
    /\ ~deleted => \A r \in unseen : pos[r] > swept * PageSize

(* Page p does not begin behind the end of the list. *)
Fits(p) == (p - 1) * PageSize <= last

FitsInv ==
    /\ open => page >= 1 /\ Fits(page) /\ Fits(maxPages)
    /\ handler = "GetPipelineRunsList" => Fits(asked)

PagesInv == TypeOK /\ CountInv /\ SweepInv /\ FitsInv /\ SweepIsComplete

(* The last page offered for n rows begins among them, and has room for    *)
(* one more.                                                               *)
LEMMA MaxPagesMeans ==
  ASSUME PagesAssumption, NEW n \in Nat
  PROVE  /\ MaxPages(n) \in Nat
         /\ (MaxPages(n) - 1) * PageSize <= n
         /\ \A m \in Nat : m >= 1 /\ m >= MaxPages(n) => n + 1 <= m * PageSize
<1> DEFINE full == n \div PageSize
<1>1. full \in Nat /\ full * PageSize <= n /\ n < full * PageSize + PageSize
  BY DivMeans
<1> HIDE DEF full
<1>2. MaxPages(n) = IF full >= 1 THEN full + 1 ELSE full
  BY DEF MaxPages, full
<1>3. PageSize \in Nat \ {0}
  BY DEF PagesAssumption
<1>4. CASE full >= 1
  <2>1. MaxPages(n) = full + 1 /\ (full + 1) - 1 = full
    BY <1>1, <1>2, <1>4
  <2>2. full * PageSize \in Int /\ (full + 1) * PageSize = full * PageSize + PageSize
    BY <1>1, TimesNext
  <2>3. ASSUME NEW m \in Nat, m >= full + 1 PROVE n + 1 <= m * PageSize
    <3>1. full + 1 \in Int /\ m \in Int
      BY <1>1
    <3>2. (full + 1) * PageSize <= m * PageSize /\ m * PageSize \in Int
      BY <2>3, <3>1, TimesGrows, TimesNext, Zenon
    <3> QED BY <1>1, <1>3, <2>2, <3>2
  <2> QED BY <1>1, <2>1, <2>3
<1>5. CASE full = 0
  <2>1. MaxPages(n) = 0
    BY <1>2, <1>5
  <2>2. 0 * PageSize = 0 /\ (0 - 1) * PageSize = 0 - PageSize
        /\ 1 * PageSize = PageSize
    BY <1>3, TimesNext
  <2>3. n < PageSize
    BY <1>1, <1>3, <1>5, <2>2
  <2>4. ASSUME NEW m \in Nat, m >= 1 PROVE n + 1 <= m * PageSize
    <3>1. 1 \in Int /\ m \in Int /\ 1 <= m
      BY <2>4
    <3>2. 1 * PageSize <= m * PageSize /\ m * PageSize \in Int
      BY <3>1, TimesGrows, TimesNext, Zenon
    <3> QED BY <1>3, <2>2, <2>3, <3>2
  <2> QED BY <1>3, <2>1, <2>2, <2>4
<1> QED BY <1>1, <1>4, <1>5

(* A page before one that fits does too. *)
LEMMA EarlierFits ==
  ASSUME PagesAssumption, NEW a \in Int, NEW b \in Int, a <= b, Fits(b), last \in Int
  PROVE  Fits(a)
<1>1. a - 1 \in Int /\ b - 1 \in Int /\ a - 1 <= b - 1
  OBVIOUS
<1>2. /\ (a - 1) * PageSize <= (b - 1) * PageSize
      /\ (a - 1) * PageSize \in Int /\ (b - 1) * PageSize \in Int
  BY <1>1, TimesGrows, TimesNext, Zenon
<1> QED BY <1>2 DEF Fits

(* Buttons are numbers of pages that are there. *)
LEMMA ButtonsFit ==
  ASSUME PagesAssumption, TypeOK, FitsInv, open, NEW p \in Buttons
  PROVE  p \in Nat /\ p >= 1 /\ Fits(p)
<1>1. page \in Nat /\ page >= 1 /\ maxPages \in Nat /\ last \in Int
      /\ Fits(page) /\ Fits(maxPages)
  BY DEF TypeOK, FitsInv
<1>2. Low(page, maxPages) \in Int /\ High(page, maxPages) \in Int
      /\ 1 <= Low(page, maxPages) /\ High(page, maxPages) <= maxPages
  BY <1>1 DEF Low, High
<1>3. \/ p = 1
      \/ p = page - 1 /\ page # 1
      \/ p \in Low(page, maxPages) .. High(page, maxPages)
      \/ page < maxPages /\ p \in {page + 1, maxPages}
  <2> HIDE DEF Low, High
  <2> QED BY DEF Buttons
<1>4. CASE p = 1 \/ (p = page - 1 /\ page # 1)
  <2>1. p \in Nat /\ p >= 1 /\ p <= page
    BY <1>1, <1>4
  <2> QED BY <1>1, <2>1, EarlierFits
<1>5. CASE \/ p \in Low(page, maxPages) .. High(page, maxPages)
           \/ page < maxPages /\ p \in {page + 1, maxPages}
  <2>1. p \in Nat /\ p >= 1 /\ p <= maxPages
    BY <1>1, <1>2, <1>5
  <2> QED BY <1>1, <2>1, EarlierFits
<1> QED BY <1>3, <1>4, <1>5

-----------------------------------------------------------------------------
(* A new run takes its place among the rows: they are numbered as before.  *)
LEMMA CreateNumbers ==
  ASSUME PagesAssumption, TypeOK, CreatePipelineRun
  PROVE  /\ Total = last /\ Total' = last + 1 /\ last + 1 \in 1 .. MaxRuns
         /\ pos' \in [Runs -> 0 .. MaxRuns]
         /\ \A r \in Runs : IF r <= Total' THEN pos'[r] \in 1 .. Total' ELSE pos'[r] = 0
         /\ \A r \in 1 .. last : pos'[r] >= pos[r]
         /\ \A n \in 1 .. Total' : \E r \in Runs : pos'[r] = n
<1>1. /\ last \in 0 .. MaxRuns /\ burst \in 0 .. last /\ last < MaxRuns
      /\ pos \in [Runs -> 0 .. MaxRuns] /\ MaxRuns \in Nat
      /\ Total = last /\ Total' = last + 1 /\ last + 1 \in Runs
  BY DEF PagesAssumption, TypeOK, CreatePipelineRun, Total, Runs
<1>2. \A r \in Runs : IF r <= last THEN pos[r] \in 1 .. last ELSE pos[r] = 0
  BY <1>1 DEF TypeOK
<1>3. /\ pos' = [r \in Runs |-> IF r = last + 1 THEN burst + 1
                               ELSE IF pos[r] > burst THEN pos[r] + 1 ELSE pos[r]]
      /\ \A r \in Runs : r \in Nat
  BY DEF CreatePipelineRun, Runs
<1>4. \A r \in Runs : IF r <= last + 1 THEN pos'[r] \in 1 .. last + 1 ELSE pos'[r] = 0
  BY <1>1, <1>2, <1>3
<1>5. \A r \in 1 .. last : pos'[r] >= pos[r]
  BY <1>1, <1>2, <1>3 DEF Runs
<1>6. pos' \in [Runs -> 0 .. MaxRuns]
  <2>1. \A r \in Runs : pos'[r] \in 0 .. MaxRuns
    BY <1>1, <1>3, <1>4
  <2> QED BY <1>3, <2>1
<1>7. ASSUME NEW n \in 1 .. last + 1 PROVE \E r \in Runs : pos'[r] = n
  <2>1. CASE n = burst + 1
    BY <1>1, <1>3, <2>1
  <2>2. CASE n <= burst
    <3>1. PICK r \in Runs : pos[r] = n
      BY <1>1, <2>2 DEF TypeOK
    <3>2. r # last + 1
      BY <1>1, <1>2, <1>7, <3>1
    <3> QED BY <1>1, <1>3, <2>2, <3>1, <3>2
  <2>3. CASE n > burst + 1
    <3>1. n - 1 \in 1 .. last /\ n - 1 > burst
      BY <1>1, <1>7, <2>3
    <3>2. PICK r \in Runs : pos[r] = n - 1
      BY <1>1, <3>1 DEF TypeOK
    <3>3. r # last + 1
      BY <1>1, <1>2, <3>1, <3>2
    <3> QED BY <1>1, <1>3, <3>1, <3>2, <3>3
  <2> QED BY <1>1, <2>1, <2>2, <2>3
<1> QED BY <1>1, <1>4, <1>5, <1>6, <1>7

(* Every step keeps the types. *)
LEMMA StepTyped ==
  ASSUME PagesAssumption, TypeOK, CountInv, FitsInv, [Next]_vars
  PROVE  TypeOK'
<1>1. CASE CreatePipelineRun
  <2>1. /\ last \in 0 .. MaxRuns /\ burst \in 0 .. last /\ last < MaxRuns
        /\ late \in 0 .. MaxRuns /\ count \in 0 .. last /\ MaxRuns \in Nat
        /\ handler # "none" => last = count + late
    BY <1>1 DEF PagesAssumption, TypeOK, CountInv, CreatePipelineRun
  <2>2. /\ last' \in 0 .. MaxRuns /\ burst' \in 0 .. last' /\ count' \in 0 .. last'
        /\ late' \in 0 .. MaxRuns /\ unseen' \subseteq 1 .. last'
    BY <1>1, <2>1 DEF CreatePipelineRun, history, TypeOK
  <2>3. UNCHANGED <<deleted, handler, asked, view, swept>>
    BY <1>1 DEF CreatePipelineRun, history
  <2> QED BY <1>1, <2>2, <2>3, CreateNumbers DEF TypeOK, view
<1>2. CASE SecondPasses
  BY <1>2 DEF SecondPasses, TypeOK, Total, request, view, history
<1>3. CASE DeletePipeline
  <2>1. Total' = 0 /\ \A r \in Runs : pos'[r] = 0 /\ r >= 1
    BY <1>3 DEF DeletePipeline, Total, Runs
  <2>2. pos' \in [Runs -> 0 .. MaxRuns] /\ deleted' \in BOOLEAN
    BY <1>3 DEF PagesAssumption, DeletePipeline
  <2>3. UNCHANGED <<last, burst, request, view, history>>
    BY <1>3 DEF DeletePipeline
  <2> QED BY <2>1, <2>2, <2>3 DEF TypeOK, request, view, history, Runs
<1>4. CASE OpenRuns
  <2>1. UNCHANGED <<last, burst, pos, deleted, page, maxPages, overlap>> /\ Total' = Total
    BY <1>4 DEF OpenRuns, rows, Total
  <2>2. /\ count' \in 0 .. last' /\ unseen' \subseteq 1 .. last'
    BY <1>4, <2>1 DEF OpenRuns, CountPipelineRuns, Total, TypeOK, Runs
  <2>3. /\ handler' = "GetPipelineRunsPage" /\ asked' = 0 /\ late' = 0
        /\ open' = FALSE /\ swept' = 0
    BY <1>4 DEF OpenRuns, CountPipelineRuns
  <2>4. 0 \in Nat /\ 0 \in 0 .. MaxRuns
    BY DEF PagesAssumption
  <2> QED BY <2>1, <2>2, <2>3, <2>4, Zenon DEF TypeOK
<1>5. ASSUME NEW p \in Buttons, PressButton(p) PROVE TypeOK'
  <2>1. UNCHANGED <<rows, view, history>> /\ Total' = Total
    BY <1>5 DEF PressButton, rows, Total
  <2>2. /\ count' \in 0 .. last' /\ asked' \in Nat /\ late' = 0
        /\ handler' = "GetPipelineRunsList"
    BY <1>5, <2>1, ButtonsFit DEF PressButton, CountPipelineRuns, Total, TypeOK, rows
  <2> QED BY <2>1, <2>2 DEF PagesAssumption, TypeOK, rows, view, history
<1>6. CASE ListPipelineRuns
  <2>1. UNCHANGED rows /\ Total' = Total /\ RequestEnds
    BY <1>6 DEF ListPipelineRuns, rows, Total
  <2>2. /\ page' \in Nat /\ maxPages' \in Nat /\ overlap' \in 0 .. MaxRuns
        /\ open' \in BOOLEAN
    BY <1>6, MaxPagesMeans DEF ListPipelineRuns, ShownPage, TypeOK
  <2>3. unseen' \subseteq 1 .. last'
    BY <1>6, <2>1, Zenon DEF ListPipelineRuns, rows, TypeOK
  <2>4. swept' \in Nat
    <3> HIDE DEF ShownPage
    <3> QED BY <1>6 DEF ListPipelineRuns, TypeOK
  <2> QED BY <2>1, <2>2, <2>3, <2>4 DEF PagesAssumption, RequestEnds, TypeOK, rows
<1>7. CASE FailRequest
  BY <1>7
  DEF PagesAssumption, FailRequest, RequestEnds, TypeOK, Total, rows, view, history
<1>8. CASE UNCHANGED vars
  BY <1>8 DEF vars, TypeOK, Total, rows, request, view, history
<1> QED BY <1>1, <1>2, <1>3, <1>4, <1>5, <1>6, <1>7, <1>8 DEF Next

(* Every step keeps the count of a request with the rows.                  *)
LEMMA StepCounts ==
  ASSUME PagesAssumption, TypeOK, CountInv, FitsInv, [Next]_vars
  PROVE  CountInv'
<1>1. CASE CreatePipelineRun
  BY <1>1 DEF CreatePipelineRun, CountInv, TypeOK, view, history
<1>2. CASE SecondPasses
  BY <1>2 DEF SecondPasses, CountInv, request, view, history
<1>3. CASE DeletePipeline
  BY <1>3 DEF DeletePipeline, CountInv, request, view, history
<1>4. CASE OpenRuns
  BY <1>4 DEF OpenRuns, CountPipelineRuns, Total, CountInv, TypeOK, rows
<1>5. ASSUME NEW p \in Buttons, PressButton(p) PROVE CountInv'
  BY <1>5, ButtonsFit
  DEF PressButton, CountPipelineRuns, Total, CountInv, TypeOK, rows, view
<1>6. CASE ListPipelineRuns
  BY <1>6 DEF ListPipelineRuns, RequestEnds, CountInv
<1>7. CASE FailRequest
  BY <1>7 DEF FailRequest, RequestEnds, CountInv
<1>8. CASE UNCHANGED vars
  BY <1>8 DEF vars, CountInv, rows, request, view, history
<1> QED BY <1>1, <1>2, <1>3, <1>4, <1>5, <1>6, <1>7, <1>8 DEF Next

(* Every step keeps the pages of the view and of the request in the list:  *)
(* no run leaves it.                                                       *)
LEMMA StepFits ==
  ASSUME PagesAssumption, TypeOK, CountInv, FitsInv, [Next]_vars
  PROVE  FitsInv'
<1>1. CASE CreatePipelineRun
  <2>1. UNCHANGED <<open, page, maxPages, handler, asked>>
        /\ last' = last + 1 /\ last \in Int
    BY <1>1 DEF CreatePipelineRun, view, TypeOK
  <2>2. ASSUME NEW p \in Int, Fits(p) PROVE (p - 1) * PageSize <= last'
    <3>1. (p - 1) * PageSize \in Int
      BY TimesNext
    <3> QED BY <2>1, <2>2, <3>1 DEF Fits
  <2>3. page \in Int /\ maxPages \in Int /\ asked \in Int
    BY DEF TypeOK
  <2> QED BY <2>1, <2>2, <2>3 DEF FitsInv, Fits
<1>2. CASE SecondPasses \/ DeletePipeline \/ UNCHANGED vars
  BY <1>2 DEF SecondPasses, DeletePipeline, vars, FitsInv, Fits,
              rows, request, view, history
<1>3. CASE OpenRuns
  BY <1>3 DEF OpenRuns, CountPipelineRuns, FitsInv
<1>4. ASSUME NEW p \in Buttons, PressButton(p) PROVE FitsInv'
  <2>1. Fits(p)
    BY <1>4, ButtonsFit DEF PressButton
  <2> QED BY <1>4, <2>1
       DEF PressButton, CountPipelineRuns, FitsInv, Fits, rows, view
<1>5. CASE ListPipelineRuns
  <2>1. count \in Nat /\ count <= last /\ last' = last /\ last \in Nat
    BY <1>5 DEF TypeOK, ListPipelineRuns, rows
  <2>2. page' >= 1 /\ (page' - 1) * PageSize <= last'
    <3>1. CASE handler = "GetPipelineRunsPage"
      <4>1. page' = 1 /\ (1 - 1) * PageSize = 0
        BY <1>5, <3>1 DEF PagesAssumption, ListPipelineRuns, ShownPage, CountInv
      <4> QED BY <2>1, <4>1
    <3>2. CASE handler = "GetPipelineRunsList"
      BY <1>5, <2>1, <3>2 DEF ListPipelineRuns, ShownPage, CountInv, FitsInv, Fits
    <3> QED BY <1>5, <3>1, <3>2 DEF ListPipelineRuns, RequestEnds, TypeOK
  <2>3. (maxPages' - 1) * PageSize <= last'
    <3>1. maxPages' = MaxPages(count) /\ maxPages' \in Nat
          /\ (maxPages' - 1) * PageSize <= count
      BY <1>5, <2>1, MaxPagesMeans DEF ListPipelineRuns
    <3>2. (maxPages' - 1) * PageSize \in Int
      BY <3>1, TimesNext
    <3> QED BY <2>1, <3>1, <3>2
  <2>4. handler' = "none"
    BY <1>5 DEF ListPipelineRuns, RequestEnds
  <2> QED BY <2>2, <2>3, <2>4 DEF FitsInv, Fits
<1>6. CASE FailRequest
  BY <1>6 DEF FailRequest, RequestEnds, FitsInv, Fits, rows, view
<1> QED BY <1>1, <1>2, <1>3, <1>4, <1>5, <1>6 DEF Next

(* Every step keeps what was not seen behind what was shown: creation only *)
(* pushes runs back, and a page that follows the last shown one begins     *)
(* where that ends.                                                        *)
LEMMA StepSweeps ==
  ASSUME PagesAssumption, TypeOK, CountInv, SweepInv, [Next]_vars
  PROVE  SweepInv'
<1>1. CASE CreatePipelineRun
  <2>1. /\ UNCHANGED <<open, unseen, swept, deleted>>
        /\ unseen \subseteq 1 .. last /\ last + 1 \in 1 .. MaxRuns /\ last \in Nat
        /\ pos \in [Runs -> 0 .. MaxRuns] /\ pos' \in [Runs -> 0 .. MaxRuns]
        /\ \A r \in 1 .. last : pos'[r] >= pos[r]
    BY <1>1, CreateNumbers DEF CreatePipelineRun, view, history, TypeOK
  <2>2. swept * PageSize \in Int
    BY TimesNext DEF TypeOK
  <2>3. ASSUME ~deleted, NEW r \in unseen PROVE pos'[r] > swept * PageSize
    <3>1. r \in 1 .. last /\ MaxRuns \in Nat
      BY <2>1 DEF PagesAssumption
    <3>2. r \in Runs
      BY <2>1, <3>1 DEF Runs
    <3>3. pos[r] \in 0 .. MaxRuns /\ pos'[r] \in 0 .. MaxRuns /\ pos'[r] >= pos[r]
      BY <2>1, <3>1, <3>2
    <3>4. pos[r] > swept * PageSize
      BY <2>3 DEF SweepInv
    <3> QED BY <2>2, <3>1, <3>3, <3>4
  <2> QED BY <2>1, <2>3 DEF SweepInv
<1>2. CASE SecondPasses \/ FailRequest \/ UNCHANGED vars
  BY <1>2 DEF SecondPasses, FailRequest, vars, SweepInv, rows, view, history
<1>3. CASE DeletePipeline
  BY <1>3 DEF DeletePipeline, SweepInv, view, history
<1>4. CASE OpenRuns
  <2>1. 0 * PageSize = 0
    BY DEF PagesAssumption
  <2> QED BY <1>4, <2>1 DEF OpenRuns, SweepInv, rows
<1>5. ASSUME NEW p \in Buttons, PressButton(p) PROVE SweepInv'
  BY <1>5 DEF PressButton, SweepInv, rows, view, history
<1>6. CASE ListPipelineRuns
  <2>1. /\ open' = TRUE /\ unseen' = unseen \ OnPage(asked)
        /\ swept' = (IF ShownPage = swept + 1 THEN swept + 1 ELSE swept)
        /\ pos' = pos /\ deleted' = deleted
    BY <1>6 DEF ListPipelineRuns, rows
  <2>2. /\ handler \in {"GetPipelineRunsPage", "GetPipelineRunsList"}
        /\ swept \in Nat /\ asked \in Nat
    BY <1>6 DEF ListPipelineRuns, RequestEnds, TypeOK
  <2>3. swept' >= 1
    BY <2>1, <2>2 DEF ShownPage, CountInv, SweepInv
  <2>4. ASSUME ~deleted, ShownPage = swept + 1, NEW r \in unseen, r \notin OnPage(asked)
        PROVE  pos[r] > (swept + 1) * PageSize
    <3>1. /\ swept * PageSize \in Int
          /\ (swept + 1) * PageSize = swept * PageSize + PageSize
          /\ (0 - 1) * PageSize = 0 * PageSize - PageSize
      <4>1. swept \in Int /\ 0 \in Int
        BY <2>2
      <4> QED BY <4>1, TimesNext, Zenon
    <3>2. 0 * PageSize = 0 /\ PageSize \in Nat /\ PageSize > 0
      BY DEF PagesAssumption
    <3>3. r \in Runs /\ pos[r] \in Int
      <4>1. r \in 1 .. last /\ last \in 0 .. MaxRuns /\ MaxRuns \in Nat
            /\ pos \in [Runs -> 0 .. MaxRuns]
        BY DEF PagesAssumption, TypeOK
      <4>2. r \in Runs
        BY <4>1 DEF Runs
      <4>3. pos[r] \in 0 .. MaxRuns
        BY <4>1, <4>2
      <4> QED BY <4>1, <4>2, <4>3
    <3>4. pos[r] > swept * PageSize
      BY <2>4 DEF SweepInv
    <3>5. \/ asked = 0 /\ swept = 0
          \/ asked = swept + 1
      BY <2>2, <2>4 DEF ShownPage, CountInv
    <3>6. CASE asked = 0 /\ swept = 0
      <4>1. (asked - 1) * PageSize < 0
        BY <3>1, <3>2, <3>6
      <4> QED BY <2>4, <3>1, <3>2, <3>3, <3>4, <3>6, <4>1 DEF OnPage
    <3>7. CASE asked = swept + 1
      <4>1. asked - 1 = swept
        BY <2>2, <3>7
      <4>2. (asked - 1) * PageSize = swept * PageSize
        BY <4>1
      <4>3. swept * PageSize >= 0
        BY <2>2, <3>2, Z3
      <4> DEFINE from == swept * PageSize
      <4>4. OnPage(asked) = {q \in Runs : pos[q] > from /\ pos[q] <= from + PageSize}
        BY <3>1, <4>2, <4>3 DEF OnPage
      <4>5. from \in Int /\ (swept + 1) * PageSize = from + PageSize /\ pos[r] > from
        BY <3>1, <3>4
      <4> HIDE DEF from
      <4> QED BY <2>4, <3>2, <3>3, <4>4, <4>5
    <3> QED BY <3>5, <3>6, <3>7
  <2> HIDE DEF OnPage, ShownPage
  <2> QED BY <2>1, <2>3, <2>4 DEF SweepInv
<1> QED BY <1>1, <1>2, <1>3, <1>4, <1>5, <1>6 DEF Next

(* Every step keeps a finished reader's knowledge complete: what is behind *)
(* the pages shown would be behind the last row.                           *)
LEMMA StepComplete ==
  ASSUME PagesAssumption, TypeOK, CountInv, SweepInv, SweepIsComplete, SweepInv', [Next]_vars
  PROVE  SweepIsComplete'
<1>1. CASE ListPipelineRuns
  <2> SUFFICES ASSUME ~deleted', swept' >= maxPages', overlap' <= 1,
                      NEW r \in unseen'
               PROVE  FALSE
    BY DEF SweepIsComplete
  <2>1. /\ open' = TRUE /\ maxPages' = MaxPages(count) /\ overlap' = late
        /\ unseen' \subseteq unseen
        /\ swept' \in {swept, swept + 1}
        /\ pos' = pos /\ deleted' = deleted
    BY <1>1 DEF ListPipelineRuns, rows
  <2>2. /\ count \in Nat /\ late \in Nat /\ last = count + late
        /\ swept' \in Nat
    <3>1. handler # "none" /\ ~deleted /\ swept \in Nat /\ last \in Nat
          /\ count \in 0 .. last /\ late \in 0 .. MaxRuns
      BY <1>1, <2>1 DEF PagesAssumption, ListPipelineRuns, RequestEnds, TypeOK
    <3> QED BY <2>1, <3>1 DEF CountInv
  <2>3. swept' >= 1 /\ pos[r] > swept' * PageSize
    BY <2>1 DEF SweepInv
  <2>4. count + 1 <= swept' * PageSize
    BY <2>1, <2>2, <2>3, MaxPagesMeans
  <2>5. swept' * PageSize \in Int
    BY <2>2, TimesNext
  <2>6. r \in Runs /\ pos[r] \in Int /\ pos[r] <= last
    <3>1. r \in 1 .. last /\ last \in 0 .. MaxRuns /\ MaxRuns \in Nat /\ Total = last
      BY <2>1 DEF PagesAssumption, TypeOK, Total
    <3>2. r \in Runs /\ r <= Total
      BY <3>1 DEF Runs
    <3>3. pos[r] \in 1 .. Total
      BY <3>2 DEF TypeOK
    <3> QED BY <3>1, <3>2, <3>3
  <2>7. late <= 1
    BY <2>1
  <2> HIDE DEF Runs
  <2> QED BY <2>2, <2>3, <2>4, <2>5, <2>6, <2>7
<1>2. CASE CreatePipelineRun \/ SecondPasses \/ FailRequest \/ UNCHANGED vars
  BY <1>2 DEF CreatePipelineRun, SecondPasses, FailRequest, vars, SweepIsComplete,
              rows, view, history
<1>3. CASE DeletePipeline
  BY <1>3 DEF DeletePipeline, SweepIsComplete
<1>4. CASE OpenRuns
  BY <1>4 DEF OpenRuns, SweepIsComplete
<1>5. ASSUME NEW p \in Buttons, PressButton(p) PROVE SweepIsComplete'
  BY <1>5 DEF PressButton, SweepIsComplete, rows, view, history
<1> QED BY <1>1, <1>2, <1>3, <1>4, <1>5 DEF Next

-----------------------------------------------------------------------------
(* At first there are no runs and nobody reads. *)
LEMMA InitHolds ==
  ASSUME PagesAssumption
  PROVE  Init => PagesInv
<1> SUFFICES ASSUME Init PROVE PagesInv
  OBVIOUS
<1>1. Total = 0 /\ \A r \in Runs : r >= 1 /\ pos[r] = 0
  BY DEF Init, Total, Runs
<1>2. MaxRuns \in Nat /\ 0 \in 0 .. MaxRuns /\ pos \in [Runs -> 0 .. MaxRuns]
  BY DEF PagesAssumption, Init
<1>3. \A r \in Runs : IF r <= Total THEN pos[r] \in 1 .. Total ELSE pos[r] = 0
  BY <1>1 DEF Runs
<1>4. 1 .. Total = {} /\ last \in 0 .. MaxRuns /\ burst \in 0 .. last
      /\ count \in 0 .. last
  BY <1>1, <1>2 DEF Init
<1>5. 0 \in Nat /\ unseen \subseteq 1 .. last
  BY DEF Init
<1>6. TypeOK
  BY <1>2, <1>3, <1>4, <1>5, Zenon DEF Init, TypeOK
<1> QED BY <1>6 DEF Init, PagesInv, CountInv, SweepInv, FitsInv, SweepIsComplete

(* The inductive invariant. *)
LEMMA PagesInvariant ==
  ASSUME PagesAssumption
  PROVE  Spec => []PagesInv
<1>1. PagesInv /\ [Next]_vars => PagesInv'
  <2> SUFFICES ASSUME PagesInv, [Next]_vars PROVE PagesInv'
    OBVIOUS
  <2>1. TypeOK /\ CountInv /\ SweepInv /\ FitsInv /\ SweepIsComplete
    BY DEF PagesInv
  <2>2. TypeOK'
    BY <2>1, StepTyped
  <2>3. CountInv'
    BY <2>1, StepCounts
  <2>4. SweepInv'
    BY <2>1, StepSweeps
  <2>5. FitsInv'
    BY <2>1, StepFits
  <2>6. SweepIsComplete'
    BY <2>1, <2>4, StepComplete
  <2> QED BY <2>2, <2>3, <2>4, <2>5, <2>6 DEF PagesInv
<1> QED BY <1>1, InitHolds, PTL DEF Spec

(* The rows of a list are always numbered without gaps, a page is a page,  *)
(* and what the reader has not seen are runs.                              *)
THEOREM PagesTypeCorrect ==
  ASSUME PagesAssumption
  PROVE  Spec => []TypeOK
<1>1. PagesInv => TypeOK
  BY DEF PagesInv
<1> QED BY <1>1, PagesInvariant, PTL

(* Whoever goes through the pages to the last one offered has seen every   *)
(* run that was there at the beginning, for any number of runs created     *)
(* meanwhile and any page size, unless two were created between the count  *)
(* and the list of the last answer.                                        *)
THEOREM SweepsAreComplete ==
  ASSUME PagesAssumption
  PROVE  Spec => []SweepIsComplete
<1>1. PagesInv => SweepIsComplete
  BY DEF PagesInv
<1> QED BY <1>1, PagesInvariant, PTL

(* The buttons never lead outside the list, whatever is created, deleted   *)
(* or pressed.                                                             *)
THEOREM ButtonsLeadToPages ==
  ASSUME PagesAssumption
  PROVE  Spec => []ButtonsLeadToRuns
<1>1. PagesInv => ButtonsLeadToRuns
  <2> SUFFICES ASSUME PagesInv, open, NEW p \in Buttons
               PROVE  p >= 1 /\ (p - 1) * PageSize <= last
    BY DEF ButtonsLeadToRuns
  <2>1. TypeOK /\ FitsInv
    BY DEF PagesInv
  <2>2. p >= 1 /\ Fits(p)
    BY <2>1, ButtonsFit
  <2> QED BY <2>2 DEF Fits
<1> QED BY <1>1, PagesInvariant, PTL
=============================================================================
