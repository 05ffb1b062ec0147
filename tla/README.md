# Simple CI in TLA+

Simple CI is a small CI server in Go: a web application in which pipelines are
defined, started by hand, by a webhook or by a cron schedule, executed step by
step on the controller or on a remote agent, and watched live in the browser.
This directory holds TLA+ modules of its stateful parts, TLC configurations
that check them on small instances, and theorems that TLAPS proves for every
value of the constants. `PROJECT.json` maps every definition to the lines of
`src/` it models, and lists runs, mutants, findings, hazards and theorems.

    tlc -workers 2 -config RunQueueWired.cfg MCRunQueue
    tlc -workers 2 -config ServiceRaces.cfg MCPipelineService
    tlapm RunQueueProofs.tla

## 1. Inventory

| Part | State | Operations | Interacts with | Hard behaviour | Correct when |
|---|---|---|---|---|---|
| Run queue of a pipeline (`service/run_queue.go`, `cancel_map.go`) | `queue`, `done`, `outputCh`, `statusCh`, cancel map; rows of `runs` | `Run`, `processRun`, `handleProcessingFailed`, `handleOutput`, `handleStatus`, `Enqueue`, `CancelRun`, `Shutdown` | callers enqueue and cancel, the store keeps status and output, pages get broadcasts | a worker and two pumps on unbuffered channels; cancellation; store errors; the row deleted meanwhile; crash | every accepted run is taken once, gets one verdict that stays, and its log agrees with it |
| Step execution (`executePipelineStepOnController`) | the command, its pipes, `timeoutCtx`, `doneCh` | start, scan, wait, time out, cancel | worker, `outputCh` | waiter, goroutine, two scanners, timer and kill race | the result is the command's, all output is passed on, every step returns |
| Script execution (`executePipelineScriptOnController`) | position, group of parallel steps | sequential step, parallel group, join | step execution | goroutines of a group, joined errors | steps run in the order the script means |
| Live updates (`sse_client_map.go`, stream handlers) | map of client channels, its mutex | `AddClient`, `RemoveClient`, `SendToClients`, `GetClient` | pumps, request handlers | a send under the mutex, polling, pages that close | no message lost or repeated, nobody waits for ever |
| Pipeline service (`pipeline_service.go`) | map of queues, its mutex, scheduler jobs | create, delete, schedule, enqueue, initialise, shut down | store, scheduler, queues | critical sections that are not one, jobs that outlive rows, restart | every pipeline has a started queue, every schedule its job, and a start repairs both |
| Run lists (`GetPipelineRunsPage`, `GetPipelineRunsList`, `pagination.templ`) | none: the page a reader has open | count, list one page, draw buttons | rows of `runs` | count and list are two statements, runs are created between pages, page arithmetic | going through the pages shows every run, buttons lead to pages |
| Artifact collection | directory and zip per run | collect, archive, serve | file system | overlapping requests, failure half way, cached archive | one request fills a directory, an archive has what its run had finished |
| Store (`internal/store`) | SQLite: users, sessions, agents, credentials, pipelines, runs | SQL statements, one transaction | everything | foreign keys, null columns, cancelled contexts | references hold, appends are not lost |
| Users, sessions (`user_service.go`, `auth.go`, `users.go`) | users, roles, sessions, cookies | log in and out, invite, change, delete | store, middleware | read, check, write in separate statements | every session has its user, no form deletes or resets a superuser, a write hits the row that was read |
| Agents, credentials, API keys | rows | create, update, delete | pipelines | restrictions by foreign keys, forms of rows that are gone | records in use stay, references lead somewhere |
| Configuration, process (`config.go`, `main.go`) | `config.json`, environment | initialise, graceful stop | all | start order, nothing stops the queues | - |
| Web pages, encryption | none | rendering, AES | - | - | - |

## 2. Modules

| Module | What it is |
|---|---|
| `RunLifecycle` | What a run queue promises: a bounded FIFO, one run in hand, and queued, running, verdict. |
| `RunQueue` | The queue as it is written; implements `RunLifecycle` with `waiting <- queue`, `active <- run`. |
| `StepExecution` | One step on the controller; implements `StepContract` with `command <- CommandSeen`, `open <- scanning`. `RunQueue`'s `StepFails`, `StepTimesOut`, `StepCancelled` and `LateOutput` are its outcomes. |
| `StepContract` | What a step promises its callers: one command, lines while a stream is open, one truthful return. |
| `PipelineOrder` | What the order of stages, steps and parallel flags of a script means. |
| `PipelineExecution` | The loop over a script; implements `PipelineOrder`. Its step is `StepExecution` seen from outside. |
| `SSEClientMap` | The live updates of one pipeline: pump, mutex, handlers. |
| `PipelineService` | The pipelines of the service: map of queues, workers, schedules and jobs of the scheduler, start and restart. A queue is present or not; what it does with its runs is `RunQueue`. |
| `UserAccounts` | Users, sessions, cookies, the guards of the routes and every request that writes. |
| `Records` | Rows of credentials, agents and pipelines with their foreign keys, and the forms that change them. |
| `Artifacts` | Downloads of artifacts and connection tests, over `Records`, which it extends. |
| `RunPages` | The list of a pipeline's runs, page by page, under creations and the deletion. |
| `RunQueueProofs` | Theorems about `RunQueue`: types and channels; rows, logs, verdicts, the refinement of `RunLifecycle` and what follows from it. |
| `<Module>Proofs` of `StepExecution`, `PipelineExecution`, `SSEClientMap`, `PipelineService`, `UserAccounts`, `Artifacts`, `RunPages` | The inductive invariant of that module, the lemmas it needs, and its theorems (section 5). |
| `MC*` | Values of the constants for TLC. |

Operators whose comment starts with "Mutant:" are deliberately
wrong versions of the definition that follows; no specification uses them. With
one put in the place of its definition, TLC finds the property that
`PROJECT.json` pairs it with violated.

### RunQueue

`pc` names the statement the worker executes next, so each store call, each
send and each receive is an action, and everything else may happen between
any two. The variables are the rows the queue writes (`status`, `output`), the
pipeline's own row and its entry in the service's map (`pipeline`), the
channels (`queue`, `queueClosed`, `doneClosed`; a message on the unbuffered
channels exists only as the meeting of its sender and receiver), the worker
(`pc`, `run`, `err`), the cancel map and the contexts, the pumps with the
message each holds, and three history variables that no action reads: `shown`,
`taken`, `death`.

| Code | Actions |
|---|---|
| form, webhook, job: create a row, enqueue it | `CreatePipelineRun`, `Enqueue`, `EnqueueRefused`, `EnqueuePanics` |
| cancel button | `CancelRun` (a nil function panics in the handler and changes nothing), `CancelRace` (map read during a map write) |
| deletion of the pipeline | `DeletePipelineRow`, `RemoveRunQueue` |
| `Shutdown` | `ShutdownReceives`, `ShutdownCloses` |
| `Run` | `TakeRun`, `AddCancel`, `ReceiveDone`, `CloseDone`, `StopLoop` |
| `processRun` | `ReadPipelineRunData` to `SendDone`; `ParsePrivateKey` and `ConnectionError` for a remote host |
| `handleProcessingFailed` | `UpdatePipelineRunFailed`, `ReadRunByID`, `Notify`, `SayFail`, `SendDone` |
| `handleOutput`, `handleStatus` | `HandleOutput`, `HandleStatus` |
| process | `Crash`, `Restart`; also the panics above |

Abstracted: the content of output (`"log"`, `"pass"`, `"fail"`), time stamps,
the working directory, the commands, and the pages: a step of a pump is one message
sent to all of them, and that it happens is nowhere assumed but in the premise
`PagesAccept` (section 4; `SSEClientMap` says why it may not). A store call fails for a
reason the model knows (a cancelled context, a row that is gone) or, with
`StoreMayFail`, for none: `modernc.org/sqlite` takes pragmas as `_pragma=...`,
so the `_busy_timeout` of `settings.SQLiteDbString` has no effect and a busy
database is an ordinary error. A queue of capacity 0 is left out.

### StepExecution, PipelineExecution, SSEClientMap

`StepExecution` has one action per statement of the goroutine, of a scanner
and of the waiter's `select`. A line is a count; a scanner takes all lines of
a pipe into its buffer at once, and may give up at a line that is too long.
`Exit` and `Kill` belong to the command; only `Kill` is fair. `StepContract`
leaves out waiter, goroutine, timer, pipes and buffers: `CommandSeen` is the
command as a caller could know it (not begun, alive, exited with 0, or missed,
which is all the rest), and a stream is open while its scanner runs.

`PipelineExecution` has one action per iteration of the loop and three per
step (announce, return, announce the pass). Stage messages are left out, as no
property is about them. `Before` and `MayOverlap` of `PipelineOrder` say
without a loop what `NextGroup` computes.

`SSEClientMap` splits `SendToClients` into taking the mutex, choosing the next
client, the meeting with its receive, and giving the mutex back. A handler is
at its `select`, asleep in its default case, or waiting for the mutex. A slow
network, which would hold a handler in its write, is not modelled.

### PipelineService

The variables are the columns of `pipelines` that matter here (`life`,
`schedule`, `jobOf`), the keys of `s.queues`, the pipelines whose `Run` was
started, the scheduler's jobs, what `main` is doing, and for each caller the
statement its request executes next with what it has read. Three history
variables say which schedules were emptied last, which pipelines were deleted
in the middle of their creation, and which deleted ones ended a process.

| Code | Actions |
|---|---|
| `PostPipeline`, `CreatePipeline` | `CreatePipeline`, `AddRunQueue`, `StartRunQueue` |
| `DeletePipeline` | `ReadPipelineToDelete`, `DeletePipeline`, `RemoveRunQueue` |
| `PatchPipelineSchedule`, `UpdatePipelineSchedule` | `ReadPipelineToSchedule`, then `RemoveJob`, or `SchedulePipelineRun` (or `ScheduleRefused`) and `UpdatePipelineSchedule` |
| a firing job | `JobKillsProcess`; one that succeeds changes nothing here (`RunQueue`'s `CreatePipelineRun` and `Enqueue`) |
| `main` | `InitializeRunQueues`, `SchedulePipeline` per listed row, `Serve` |
| process | `Crash` |

gocron does not recover a panic of a job, so the nil run of `SchedulePipelines`
ends the process; echo and `net/http` do recover a handler's. A job that
`SchedulePipelineRun` made stops at the error instead. The page sends no
`schedule` when its field is empty, which is the model's `NoSchedule`. Pipeline
ids are autoincrement and job ids are random, so neither comes back.

### UserAccounts

A request takes its user from the session once, in the middleware; its guards
(`Authenticated`, `HasRole`) are those of the route. It then reads the row it
is about (`ReadUserByID`, `ReadUserByUsername`), where it may be refused, and
writes by the id of that row. A login has a third statement, the cookie. The
rows keep role, name and whether `password_changed_on` is null; passwords are
left out, and a comparison succeeds or ends the request (`Refuse`). Cookies
survive a restart, as their keys are kept in `.env`. The server takes any role
that a request submits, and `UpdateUserRole` writes it to any row: only the page
leaves out the other roles and the superusers' rows. So roles go up and down
freely, and what the code does hold is weaker than it looks: deletion and reset
ask for the role of the row they read, and write later. `overtaken` is history:
the requests that read their row, or passed the guard of their route, before a
promotion or a reset that they then write over. `SuperusersAreProtected` and
`ResetsHold` say that nothing else deletes or resets a superuser, or lets a user
keep the old password.

### Records, Artifacts

In `Records` every form is one action: the statement that writes decides, by
its foreign keys (`on delete restrict`, no update to a row that is gone), and
what a handler reads before it only makes it refuse earlier. The database has
one connection for writes with `foreign_keys` on, so statements are atomic.

In `Artifacts` each read of the chain pipeline, agent, credential is an action,
as are the check for the directory, `Mkdir`, creation and copy of each file,
the check for the archive, its creation, the walk, each copy into it and its
close. The files of a run are those its script names; each is absent, partial
or whole. `streams` says what the archivers wrote into the archive since it was
last truncated: more than one means that they wrote over each other. A failure
(`FailCollecting`, `FailArchiving`) leaves what is on disk; so does a restart.

The list of runs offers the download for every run (`runs.templ:78-84`; only the
run's own page hides it), and neither handler nor service asks for the status. So
the run is part of the model: `started` says whether its row has a working
directory, and `remote` what its steps have made there (`RunGoesOn`), while
requests come and go. A directory that is listed lacks the files that are not
made yet (`SkipFile`), one that is not made ends the collection
(`FailCollecting`), a file is copied as it is by then (`CopyFile`), and a queued
run has no working directory to dereference, after its directory was made here
(`MkdirQueued`). `there` is history: what the run had finished when the collection
began, which is all that a download can be held to (`DownloadHasWhatWasThere`).
`Finished` are runs that had passed before anyone asked.

### RunPages

| Code | Actions |
|---|---|
| `store.CreatePipelineRun`, the clock, the foreign key on a deletion | `CreatePipelineRun`, `SecondPasses`, `DeletePipeline` |
| `GetPipelineRunsPage`: count; `GetPipelineRunsList`: count | `OpenRuns`; `PressButton` |
| either of them: list, render | `ListPipelineRuns`, `FailRequest` |

A run is its place in `order by created_on desc` (`pos`). `created_on` is
`current_timestamp`, which has seconds, and SQLite keeps rows with equal keys in
the order in which it meets them, the order of ids: a new run comes before those
of earlier seconds and after those of its own. One reader has one page open and
presses one of its enabled buttons at a time; page numbers typed into the address
are left out. The first visit has no page parameter, so its page is 0 and its
offset negative, which SQLite takes for 0; only `GetPipelineRunsPage` then shows
it as page 1 (`ShownPage`). `unseen`, `swept`, `late` and `overlap` are history.

## 3. Runs

| Run | Module, bounds | Shows |
|---|---|---|
| `queue_faults` | `RunQueue`, 2 runs, capacity 1, one restart, failing store | `ImplementsLifecycle`, `HeldOnce`, `ShownVerdictIsFinal`, `CancelledRunHasNoBanner`, `StrandedForGood` |
| `queue_wired` | `RunQueue`, 2 runs, capacity 1, one output line, two `Shutdown`s, fair | `TypeOK`, `AtMostOneRunServed`, `NoChannelPanicAsWired`, `PassBannerMeansPassed`, `PassedIsFinal`, `TakenRunsConclude` |
| `step_races` | two streams, two lines each, timeout 0 or more | `ResultMatchesCommand`, `PassedStepIsDrained`, `KeepsContract`, `StepReturns`, `CancelledStepEnds` |
| `pipeline_scripts` | all 241 scripts of at most 2 stages with at most 3 steps | `TypeOK`, `ImplementsOrder`, `CancelledBySequentialStep`, `ScriptEnds` |
| `sse_clients` | 3 pages, 2 messages | `TypeOK`, `NoGapNoRepeat`, `SendsToOpenChannels`, `PumpReturns` |
| `service` | `PipelineService`, 2 pipelines, 2 schedules, 3 jobs, 2 callers, 2 restarts, failing store | `TypeOK`, `PipelinesAreServed`, `NoQueueOutlivesItsPipeline`, `ScheduledPipelineHasItsJob`, `StartMatchesRows`, `NoCrashLoop` |
| `accounts` | `UserAccounts`, 3 users, 2 names, 2 sessions, 2 browsers, 1 restart | `TypeOK`, `SessionsHaveTheirUser`, `SuperusersAreProtected`, `ResetsHold`, `WritesHitTheRowRead` |
| `artifacts` | `Artifacts`, 2 credentials, 2 agents, 1 pipeline, 1 queued run that makes 1 file, 2 callers, 1 restart, failures | `TypeOK`, `ChainHolds`, `OneCollectorPerRun`, `DownloadHasWhatWasThere`, `CollectedOnce` |
| `queue_stuck`, `sse_blocked`, `schedule_cleared`, `artifacts_half` | see section 6 | a disagreement with the documentation |

Why the bounds are enough. The worker serves at most one run per process (this
is proved), so two runs and one restart let one run be served before the
crash, another after it, and one wait while the other is in hand; capacity 1
with two runs reaches the full queue. Two calls of `Shutdown`, because the second
one is the first that can close `done` after another had effect. A step's
property is about one more line being read, buffered or lost, so two lines per
stream distinguish first and last. A group needs a neighbour on either side, so
three steps, and a second stage shows what the first one's end permits. Two
messages and three pages let one page leave, one stay and one arrive between
two messages. Symmetry over run ids is used where there is no liveness.
Restarts are left out of `queue_wired`, which asks what a single process does.

The service needs two callers to interleave and two pipelines so that what one
leaves behind meets the other; three jobs allow a schedule, its replacement and
one made at a start; a second restart is the first that could crash again for
the job of the same deleted pipeline. Three users under two names let a name be
given away and taken again, and one of them be the superuser; each browser holds
one session. In `artifacts` the one file may be absent, cut short or whole when
it is listed, copied and archived, and the second caller overtakes the first at
any statement; `artifacts_half` has two files, the fewest of which a download
can bring half. The second agent and credential let a row that was read be
replaced by another.

`RunPages` is proved rather than run: what could go wrong there is arithmetic at
sizes that an instance does not reach (the row of numbers is cut off from six, and
from nine pages on). `RunPages.cfg` is an instance to look at, six runs on pages of
two, in which TLC finds its three invariants to hold; with `overlap <= 2` in
`SweepIsComplete` it finds a run that no page showed.

Deadlock is not checked: in each run there is a state in which the code really
stops (the worker waiting on `done`, a finished step or script, all pages
waiting for one) or the bounds are used up (ids, names, jobs). Which of these stops
are wrong is said by a property.

## 4. Fairness

Go schedules every goroutine that can run, so worker, waiter, goroutine, scanners
and handlers are weakly fair. In `RunQueue` this includes the outcomes of git and
of the steps: `TakenRunsConclude` says that the queue loses no run whose commands
end or are given up. The pumps of `RunQueue` are another matter: each step of one
sends to every page, and a page that never takes what it is sent blocks the pump,
and the worker behind it, for good (`sse_blocked`). Their progress is therefore no
fairness of the specification but the premise `PagesAccept` of
`TakenRunsConclude` (without it TLC finds a run that never ends) and of
`AcceptedRunsStart`, so that its counterexample is not one of a blocked page. What
pages do to a pump is `SSEClientMap`, with `PumpReturns` and `LogsAreLive`. That steps are given up is
`StepReturns`, where neither the command nor the user is fair, only time and a
kill. Nothing is assumed of callers, of crashes, of the goroutine of a step
that was given up, or of a page's departure. In `SSEClientMap` a handler that
waits for the mutex is strongly fair: `sync.Mutex` hands itself over to a
waiter that starves. `PipelineService`, `UserAccounts`, `Artifacts` and
`RunPages` state safety only: a request may be lost at any statement.

## 5. Proofs

Every safety property that a passing run checks - each invariant, each action
property, and the three refinements - and each type invariant is a theorem about
`Spec`, for every value of the constants.
The argument is the same in each module: an inductive invariant that TLC agreed
with on the run's instance first, one lemma per part of it that says that a step
preserves the part, and the properties as its consequences.

Where a module has many actions that differ in little, its proofs first sum up
the actions as a few kinds of steps (`StepKinds`, `Kinds`): which parts of which
caller's request a step changes, which rows, which files. The later lemmas
go through the kinds, so that a record with one field changed is taken apart once.

### RunQueue

- `TypeCorrect`: `TypeOK`, with the bound of the queue channel. It is
  inductive; `FrameTyped` carries the groups of variables a step leaves alone.
- `OneRunPerProcess`: `AtMostOneRunServed` is not inductive by itself: a worker
  that could come back to its `select` would take another run. `ServeInv` adds
  that at `select` nothing was taken yet, and that a worker at `CloseDone` finds
  `done` closed: `ReceiveDone` lets it through only on the closed channel, so
  closing it again ends the process instead of the iteration.
- `NoPanicAsWired`: `WiredInv` adds that until `Shutdown` is called both channels
  stay open and the worker never gets past its own send.
- `RunsHeldOnce` needs `HoldInv`: a run is with a caller, in the queue, in the
  worker's hands or nowhere; its row says "queued" in the first two; and in the
  third the statement the worker is at determines the row.
- `VerdictsShownStay` needs `VerdictInv`: a verdict is on its way to the pages
  only at the worker's last statements, when it is the stored one, and until then
  none was shown.
- `CancelledLogsHaveNoBanner` needs `BannerInv`: a run that has not come to the
  end of its steps has a log of lines only and no banner with the pump, and one
  that failed by its cancellation never comes there. A cancelled context stays so,
  which also stops the late lines of a step.
- `PassBannersAreTrue` and `PassesStayStored` need `PassInv`: with a store that
  answers, and the pipeline there, the worker goes from the PASS banner to its
  last statements without failing, though log and row are written by two
  goroutines.
- `StrandedRunsStay`: each step leaves alone a run that no one holds.
- `QueueImplementsLifecycle`: under `HoldInv` each step of the queue is one step of
  `RunLifecycle` or none. `HoldInv` is what makes `Accept` and `Start` possible in
  the abstract module: it asks of a run that it is queued and in no other place.
- `StatusMovesForward`, `RunsTakenInOrder` follow from that refinement, so they say
  of the code what a reader wants of it: a status moves along queued, running,
  verdict, only for the run in hand and to "cancelled" only on request; a verdict
  changes only from passed to failed; and the queue is first in, first out.

### StepExecution, PipelineExecution, SSEClientMap

- `ResultsMatchCommands`: the result is chosen by the waiter, the verdict by the
  goroutine. `CommandInv` says where the command is at each statement of the
  goroutine, and `ResultInv` that the channel between the two carries that verdict.
- `PassedStepsAreDrained`: `LinesInv` counts each line in the pipe, in a buffer or
  sent, and gives each line in a buffer its scanner; `JoinedInv` says that the
  scanners are joined before "ok" is sent.
- `StepsKeepTheContract`: each step maps to a step of `StepContract` or to none
  (`CommandSteps` for the goroutine's, `ReturnSteps` for the waiter's). Beyond
  the invariants above it needs `WaiterInv`: a result is there just when the waiter
  has left its `select`, so the step returns once. The refinement is
  what entitles `RunQueue` and `PipelineExecution` to treat a step as one action.
- `LoopImplementsOrder`: `LoopInv` says that all steps behind the loop's position
  passed, those of its group were begun, and no other was. `GroupShape` shows that
  `NextGroup`, a set comprehension, is the interval from the current step to the
  last parallel one; it uses that a nonempty set of natural numbers has a least
  element (`Smallest`, from well-founded induction). `BeforeGroup` is the heart: what
  comes before a step of the group, in the sense of `PipelineOrder`, is behind the
  loop, since the members of a group may overlap. So `StartGroup` is `Begin`, a
  step's results are `Pass`, `Miss` or nothing, and a return is `Conclude` by
  `VerdictInv`.
- `StepsBeginInOrder` says of the loop itself what the refinement implies.
- `StepsRunOnce`, `LoopNeverGoesBack`: a step goes from idle to its result and on to
  its announcement, never back; the loop's position only grows, and each join takes
  it past the group. With finitely many stages and steps this is the safety half of
  `ScriptEnds`; that the loop moves at all is fairness, and TLC's.
- `CancelledOnlyBySequentialSteps`: `BeforeSequential` shows that a step that is not
  parallel comes after everything behind it.
- `NoPageMissesAMessage`: `StreamInv` gives each page in the map all messages since
  its registration, but the one the pump still has for it. `MapInv` says that only
  while the pump has the mutex there are pages it must still come to, and
  that all of them are in the map. `ChannelsAreOpen` follows from it.

### PipelineService, UserAccounts, Artifacts

- `EveryPipelineIsServed`, `QueuesGoWithTheirPipelines`: `ServedInv` splits the first
  into the entry and the worker, as `CreatePipeline` makes them in two critical
  sections; `OrphanInv` finds for each creation that a deletion overtook the
  request that will remove its queue, or the history of its having missed it.
- `SchedulesHaveTheirJobs`: `JobInv` says that the job a request is about to store is
  running and that nobody else knows it, so no other form can remove it.
- `StartsRepairTheJobs`: `StartInv` compares jobs and rows in the middle of the start.
- `DeletedPipelinesKillOnce`: `KillInv` says that a pipeline that ended a process is
  deleted and that no job of a start, the kind that ends one, runs for it.
- `SessionsKeepTheirUsers`, `WritesAreToTheRowRead`: `RequestInv` says what a request
  still knows when it writes. Its id was given once and is given to no other row
  (`IdInv`: autoincrement).
- `SuperusersFallToRacesOnly`, `ResetsFallToRacesOnly`: `RequestInv` adds that, unless
  it was overtaken, a request about to delete or reset holds a row that is not a
  superuser's, and one with the profile's form a row that need not choose a
  password. Only a change of role and a reset could make that untrue, and these
  put the request into `overtaken`.
- `ChainsHold`: `RecordsInv` (the foreign keys) is preserved by every form, as an id
  in use is not fresh and a row that is referred to stays.
- `OneFillsADirectory`, `DirectoriesAreFilledOnce`: `Mkdir` succeeds once.
- `DownloadsHaveWhatWasThere`: what a run had finished stays finished (`ThereInv`).
  Until its archive is closed only one request at a time is about an undisturbed run
  (`AloneInv`); of the files that were there, every one that the collector has
  taken off its list is whole (`FilledInv`), and what the archiver has written and
  has yet to write includes them all (`WholeInv`). Afterwards any number of requests
  may come, but each finds directory and archive and writes nothing (`FoundInv`).

### RunPages

- `PagesTypeCorrect`: the places of the rows are exactly `1 .. Total`. `CreateNumbers`
  is the step that could break it: a new run takes the place after those of its
  second and pushes the older ones back by one.
- `SweepsAreComplete`: `SweepInv` says that what the reader has not seen lies behind
  the end of the pages shown: creation pushes runs back only, and the page that
  follows begins where the last one ended. `MaxPagesMeans` says that the last page
  offered for n rows has room for n + 1, so a run left unseen would lie behind
  the last row. `CountInv` relates the count to the rows while a handler is between
  its two queries.
- `ButtonsLeadToPages`: `FitsInv` says that the open page and the last one offered
  begin no further than behind the last row, which stays true because no run leaves
  the numbering before the deletion; `ButtonsFit` that every button is one of
  these or lies before one.
- Products with the page size are out of the prover's reach in a large step, so
  `TimesGrows`, `TimesNext` and `DivMeans` state what is needed of them once.

### What the proofs assume

Only the named assumptions on constants, which TLC evaluates in the runs:
values that stand for "none" are no members of the sets they are added to, a queue
has a positive capacity, bounds are natural numbers, switches are Booleans,
every run has a pipeline, a script is a sequence of sequences of Booleans. In
`SSEClientMap`, `"pump"`, which names the mutex's other holder, is no client and not
`Nobody`. Nothing is assumed finite. The bounds in the guards (restarts,
lines, shutdowns) are arbitrary numbers in the theorems. Those about `RunPages` have
their one assumption, that a page has a positive size, as a hypothesis.

### Only model-checked

Liveness under fairness (`TakenRunsConclude`, `StepReturns`, `CancelledStepEnds`,
`ScriptEnds`, `PumpReturns`), since this prover reasons about neither fairness of
composed actions nor `ENABLED`; and the four runs that find a violation, whose
counterexamples are facts about an instance.

## 6. Where code and documentation disagree

| Run | What happens |
|---|---|
| `queue_stuck` | The worker sends its token on the unbuffered `done` that only its own loop reads. After the first run of a pipeline no other is taken until the process restarts. |
| `sse_blocked` | A page that closes while it is sent to waits for the mutex its sender holds: pages, pump and worker stop. |
| `schedule_cleared` | Emptying a schedule removes the one job the row names and leaves the schedule in the row. Jobs of earlier schedules keep running, and the next start schedules the row again. |
| `artifacts_half` | A directory that is there counts as collected, also while it is being filled or after a failure: the second download of a run that has passed gets, and keeps for good, an archive of what is there. |

Plain in the model's actions, and therefore without a run of their own:

- The key of a remote agent is never decrypted on the way to `connectSSH`, so
  every run on a remote host fails (`ParsePrivateKey` of `RunQueue`).
- Cancel, offered for a queued run, calls a nil function; the run is executed
  all the same (`CancelRun` needs a registered function).
- `cmd.Wait` closes the pipes before the scanners are done: a step passes with
  output missing (`WaitForCommand` of `StepExecution`).
- `timeout_seconds` is not in the documented format and defaults to 0: such a
  step can time out before it starts (`TimeoutCase`).
- The agent of the controller is made without a credential, and collecting
  artifacts dereferences it: until a form gives it one, runs on the controller
  have no artifacts to download (`GiveUp` of `Artifacts`).
- A download of a run that is still at work makes its directory and its archive of
  what there is, cut short files included, and nothing made later ever gets into
  them; that of a queued run panics and leaves an empty directory, so that the run
  has no artifacts for good (`SkipFile`, `CopyFile`, `MkdirQueued` of `Artifacts`).
- A request can give any user any role: `PATCH /:user_id/role` asks neither for the
  row's role nor for the submitted one, so a superuser can demote every superuser,
  the last one included. Only the console at the next start makes a new one
  (`PatchUserRole`, `InitializeSuperuser` of `UserAccounts`).
- `PATCH /:user_id/password` takes any row from any login that knows its current
  password, an administrator's among them, and what it sets counts as chosen by the
  user: only a reset asks for a new one (`PatchUserPassword`, `UpdateUserPassword`).
- A list with a multiple of ten runs offers an empty last page (`MaxPages` adds a
  page to every full one). `SweepIsComplete` shows what that page is good for: it
  has room for a run created between the count and the list.
- `ShutdownRunQueue` would lock a mutex it holds; nothing calls it.

True of the code and worth knowing, as properties that hold: a refused enqueue
and a restart leave runs queued or running for good (`StrandedForGood`); a
cancellation during a parallel group is stored as a failure
(`CancelledBySequentialStep`); a cancelled run has no banner in its log
(`CancelledRunHasNoBanner`); a pass can be overturned only by a store error or
by the deletion of its pipeline, and never after it was shown
(`PassedIsFinal`, `ShownVerdictIsFinal`); the job of a deleted pipeline ends the
process, though only once (`NoCrashLoop`); a pipeline deleted in the middle of
its creation leaves a queue behind (`NoQueueOutlivesItsPipeline`); a collection
that failed is never taken up again (`CollectedOnce`); a user who is made a
superuser between the read and the write of a deletion is deleted all the same, and
a reset that arrives between guard and write of the profile's form is lost
(`SuperusersAreProtected` and `ResetsHold` exclude just these); two runs created between
the count and the list of the last page can keep a reader from seeing the oldest
one (`SweepIsComplete` excludes just that).

## 7. What is not here

Not modelled because there is nothing to check: rendering, form binding, AES,
reading configuration, lists without pages. API keys are single statements on
rows that nothing refers to. Not modelled because it is never reached:
everything after `connectSSH` on an agent. `ShutdownRunQueue` and `ShutdownAll`
have no caller; what `Shutdown` does to a queue is in `RunQueue`.

What would come next:

1. Once the key of an agent is decrypted, its path: `runCommand`, the SFTP session
   and a connection that breaks, as a second implementation of `StepContract`.
2. `RunQueue` composed with `PipelineExecution` and `StepExecution` by their abstract
   modules, instead of one action per outcome of a step.
3. An abstract broadcast that `SSEClientMap` implements, with the pages' messages
   as suffixes of one sequence; `NoGapNoRepeat` says the same as an invariant.
4. Liveness: `LoopNeverGoesBack` and the invariants about what each goroutine waits
   for are the safety half. The other half, that something is always enabled until
   the end, is model-checked only.
