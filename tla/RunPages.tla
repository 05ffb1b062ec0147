------------------------------ MODULE RunPages ------------------------------
(***************************************************************************)
(* The list of a pipeline's runs, page by page (GetPipelineRunsPage,       *)
(* GetPipelineRunsList): each answer counts the rows, lists one page of    *)
(* them in a second statement, and draws the buttons from the count, while *)
(* runs are created and the pipeline may be deleted.  One reader presses   *)
(* one button at a time.                                                   *)
(***************************************************************************)
EXTENDS Integers

CONSTANTS MaxRuns,   \* bound: runs of the pipeline
          PageSize   \* maxRunsPerPage: 10

(* The hypothesis of the theorems. *)
PagesAssumption == MaxRuns \in Nat /\ PageSize \in Nat \ {0}

VARIABLES
    last,      \* the runs created so far are 1 .. last
    burst,     \* how many of them have the current second as created_on
    pos,       \* of each run: its place in "order by created_on desc", or 0
    deleted,   \* the pipeline's row is deleted: no run has its id any more
    handler,   \* the handler between its two queries, or "none"
    asked,     \* its page parameter; 0: there was none
    count,     \* what the first query said
    late,      \* history: runs created since then
    open,      \* the reader has a page
    page, maxPages,  \* what it was drawn with
    overlap,   \* history: late, when it was drawn
    unseen,    \* history: runs there when the reader came, and not shown yet
    swept      \* history: the pages 1 .. swept were shown, in this order

rows    == <<last, burst, pos, deleted>>
request == <<handler, asked, count, late>>
view    == <<open, page, maxPages, overlap>>
history == <<unseen, swept>>
vars == <<rows, request, view, history>>

Runs == 1 .. MaxRuns
Total == IF deleted THEN 0 ELSE last

Init == /\ last = 0 /\ burst = 0 /\ pos = [r \in Runs |-> 0] /\ deleted = FALSE
        /\ handler = "none" /\ asked = 0 /\ count = 0 /\ late = 0
        /\ open = FALSE /\ page = 0 /\ maxPages = 0 /\ overlap = 0
        /\ unseen = {} /\ swept = 0

-----------------------------------------------------------------------------
(* created_on has seconds.  SQLite keeps rows of the same second in the    *)
(* order of their ids, so a new run comes before the older seconds and     *)
(* after those of its own.                                                 *)
CreatePipelineRun ==
    /\ ~deleted /\ last < MaxRuns
    /\ last' = last + 1 /\ burst' = burst + 1
    /\ pos' = [r \in Runs |-> IF r = last + 1 THEN burst + 1
                              ELSE IF pos[r] > burst THEN pos[r] + 1 ELSE pos[r]]
    /\ late' = IF handler = "none" THEN late ELSE late + 1
    /\ UNCHANGED <<deleted, handler, asked, count, view, history>>

SecondPasses ==
    /\ burst > 0 /\ burst' = 0
    /\ UNCHANGED <<last, pos, deleted, request, view, history>>

(* The foreign key sets run_pipeline_id to null. *)
DeletePipeline ==
    /\ ~deleted /\ deleted' = TRUE
    /\ pos' = [r \in Runs |-> 0]
    /\ UNCHANGED <<last, burst, request, view, history>>

-----------------------------------------------------------------------------
MaxPages(n) == LET full == n \div PageSize
               IN  IF full >= 1 THEN full + 1 ELSE full

(* limit and offset; SQLite takes a negative offset for 0. *)
OnPage(p) ==
    LET offset == (p - 1) * PageSize
        from   == IF offset < 0 THEN 0 ELSE offset
    IN  {r \in Runs : pos[r] > from /\ pos[r] <= from + PageSize}

Low(p, max) == IF p > 5 THEN p - 5 ELSE 1
High(p, max) == IF max <= 9 \/ p + 4 > max THEN max ELSE p + 4

(* The pages that the enabled buttons ask for. *)
Buttons ==
    IF Low(page, maxPages) < High(page, maxPages)
    THEN (IF page # 1 THEN {1, page - 1} ELSE {})
            \cup ((Low(page, maxPages) .. High(page, maxPages)) \ {page})
            \cup (IF page < maxPages THEN {page + 1, maxPages} ELSE {})
    ELSE {}

CountPipelineRuns(next, p) ==
    /\ handler = "none" /\ handler' = next
    /\ asked' = p
    /\ count' = Total /\ late' = 0

(* A new visit: the link to the runs has no page parameter. *)
OpenRuns ==
    /\ CountPipelineRuns("GetPipelineRunsPage", 0)
    /\ open' = FALSE
    /\ unseen' = {r \in Runs : pos[r] > 0} /\ swept' = 0
    /\ UNCHANGED <<rows, page, maxPages, overlap>>

PressButton(p) ==
    /\ open /\ p \in Buttons
    /\ CountPipelineRuns("GetPipelineRunsList", p)
    /\ UNCHANGED <<rows, view, history>>

(* Only the page's handler has max(lrp.Page, 1). *)
ShownPage == IF handler = "GetPipelineRunsPage" /\ asked < 1 THEN 1 ELSE asked

RequestEnds == /\ handler # "none" /\ handler' = "none"
               /\ asked' = 0 /\ count' = 0 /\ late' = 0

ListPipelineRuns ==
    /\ RequestEnds
    /\ open' = TRUE
    /\ page' = ShownPage /\ maxPages' = MaxPages(count) /\ overlap' = late
    /\ unseen' = unseen \ OnPage(asked)
    /\ swept' = IF ShownPage = swept + 1 THEN swept + 1 ELSE swept
    /\ UNCHANGED rows

(* One of the queries fails: the reader keeps what there was. *)
FailRequest ==
    /\ RequestEnds
    /\ UNCHANGED <<rows, view, history>>

Next == \/ CreatePipelineRun \/ SecondPasses \/ DeletePipeline
        \/ OpenRuns \/ ListPipelineRuns \/ FailRequest
        \/ \E p \in Buttons : PressButton(p)

Spec == Init /\ [][Next]_vars

-----------------------------------------------------------------------------
(* Types; the rows are numbered 1 .. Total in the order of the list.       *)
TypeOK ==
    /\ last \in 0 .. MaxRuns /\ burst \in 0 .. last
    /\ pos \in [Runs -> 0 .. MaxRuns]
    /\ deleted \in BOOLEAN
    /\ handler \in {"none", "GetPipelineRunsPage", "GetPipelineRunsList"}
    /\ asked \in Nat /\ count \in 0 .. last /\ late \in 0 .. MaxRuns
    /\ open \in BOOLEAN
    /\ page \in Nat /\ maxPages \in Nat /\ overlap \in 0 .. MaxRuns
    /\ unseen \subseteq 1 .. last /\ swept \in Nat
    /\ \A r \in Runs : IF r <= Total THEN pos[r] \in 1 .. Total ELSE pos[r] = 0
    /\ \A n \in 1 .. Total : \E r \in Runs : pos[r] = n

(* A reader who goes through the pages from the first to the last that is  *)
(* offered sees every run that was there at the beginning, although runs   *)
(* are created meanwhile, push others to later pages, and count and list   *)
(* are two queries: the page that maxPages has beyond the full ones leaves *)
(* room for one run created between them (not for two).                    *)
SweepIsComplete ==
    open /\ ~deleted /\ swept >= maxPages /\ overlap <= 1 => unseen = {}

(* Every button leads to a page, and at most the last one is empty: no     *)
(* button leads before the first page or further behind the last run.      *)
ButtonsLeadToRuns ==
    open => \A p \in Buttons : p >= 1 /\ (p - 1) * PageSize <= last
=============================================================================
