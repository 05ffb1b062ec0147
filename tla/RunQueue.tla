------------------------------ MODULE RunQueue ------------------------------
(***************************************************************************)
(* The run queue of one pipeline (internal/service/run_queue.go): the      *)
(* worker goroutine Run, the two pump goroutines that store and broadcast  *)
(* what it says, the callers that create, enqueue and cancel runs, the     *)
(* shutdown, the deletion of the pipeline under it, and the process going  *)
(* down and coming back with the same database.                            *)
(*                                                                         *)
(* pc names the statement the worker is about to execute.  The execution   *)
(* of the pipeline's steps is one state, "exec", with every outcome it     *)
(* can have.                                                               *)
(***************************************************************************)
EXTENDS Naturals, Sequences

CONSTANTS Runs,          \* run ids
          NoRun,         \* the worker holds no run
          QueueSize,     \* capacity of the queue channel (config queue_size)
          StoreMayFail,  \* whether any store call may return an error
          MaxLines,      \* bound: output lines of a run's steps
          MaxShutdowns,  \* bound: calls of Shutdown (main: none)
          MaxRestarts    \* bound: times the process goes down and comes back

(* queue_size 0 in config.json, an unbuffered channel, is left out.        *)
ASSUME RunQueueAssumption ==
    /\ NoRun \notin Runs
    /\ QueueSize \in Nat \ {0}
    /\ StoreMayFail \in BOOLEAN
    /\ MaxLines \in Nat
    /\ MaxShutdowns \in Nat
    /\ MaxRestarts \in Nat

VARIABLES
    status,       \* runs.status of each run; "none": the row does not exist
    output,       \* runs.output of each run, as the kinds of its lines
    pipeline,     \* "present", "rowGone" (only s.queues has it) or "gone"
    posting,      \* runs created by a caller that has not enqueued them yet
    queue,        \* rq.queue
    queueClosed,  \* close(rq.queue) was executed
    doneClosed,   \* close(rq.done) was executed
    pc, run, err, \* the worker: next statement, its run, processRun's error
    lines,        \* output lines of the run's steps so far
    leaked,       \* a step's goroutine outlives its step, with a line to send
    cancels,      \* keys of rq.cancelRunMap
    cancelled,    \* runs whose context was cancelled
    outPump,      \* handleOutput: "off", "idle", or the line it received
    statPump,     \* handleStatus: "off", "idle", or the status it received
    shown,        \* history: the statuses broadcast for each run
    taken,        \* history: the runs this process dequeued
    death,        \* history: what brought the process down last
    shutdowns, restarts

store    == <<status, output, pipeline>>
callers  == <<posting>>
channels == <<queue, queueClosed, doneClosed>>
worker   == <<pc, run, err>>
steps    == <<lines, leaked>>
contexts == <<cancels, cancelled>>
pumps    == <<outPump, statPump>>
history  == <<shown, taken, death>>
counters == <<shutdowns, restarts>>

vars == <<store, callers, channels, worker, steps, contexts, pumps, history,
          counters>>

-----------------------------------------------------------------------------
Verdicts == {"passed", "failed", "cancelled"}
Status == {"none", "queued", "running"} \cup Verdicts
Lines == {"log", "pass", "fail"}
PCs == {"select", "addCancel", "runData", "started", "readStarted",
        "notifyStarted", "connect", "connectErr", "clone", "cloning",
        "cloned", "script", "parsed", "exec", "pass", "passed", "readPassed",
        "notifyPassed", "failed", "readFailed", "notifyFailed", "fail",
        "sendDone", "recvDone", "closeDone", "exited", "down"}
(* The statements outside an iteration of the loop. *)
WithoutRun == {"select", "exited", "down"}
Errors == {"none", "cancel", "parseKey", "other"}

Up == pc # "down"
Elements(s) == {s[i] : i \in 1 .. Len(s)}

(* Whether a store call that would succeed if can succeeds. *)
StoreCall(can) == IF StoreMayFail THEN {can, FALSE} ELSE {can}

(* "select *" into store.Run fails once the pipeline's row is deleted: the *)
(* foreign key sets run_pipeline_id to null, the field is an int64.        *)
RowReadable == pipeline = "present"

Init ==
    /\ status = [r \in Runs |-> "none"]
    /\ output = [r \in Runs |-> <<>>]
    /\ pipeline = "present"
    /\ posting = {}
    /\ queue = <<>> /\ queueClosed = FALSE /\ doneClosed = FALSE
    /\ pc = "select" /\ run = NoRun /\ err = "none"
    /\ lines = 0 /\ leaked = FALSE
    /\ cancels = {} /\ cancelled = {}
    /\ outPump = "off" /\ statPump = "off"
    /\ shown = [r \in Runs |-> <<>>] /\ taken = <<>> /\ death = "none"
    /\ shutdowns = 0 /\ restarts = 0

-----------------------------------------------------------------------------
(* The process: going down loses everything but the database.              *)

GoDown(why) ==
    /\ death' = why
    /\ posting' = {}
    /\ queue' = <<>> /\ queueClosed' = FALSE /\ doneClosed' = FALSE
    /\ pc' = "down" /\ run' = NoRun /\ err' = "none"
    /\ lines' = 0 /\ leaked' = FALSE
    /\ cancels' = {}
    /\ outPump' = "off" /\ statPump' = "off"
    /\ taken' = <<>>
    /\ UNCHANGED <<store, cancelled, shown, counters>>

Crash == Up /\ restarts < MaxRestarts /\ GoDown("crash")

(* main: InitializeRunQueues gives every pipeline of the database a fresh, *)
(* empty queue; no run is read back.                                       *)
Restart ==
    /\ ~Up
    /\ pipeline = "present"
    /\ restarts < MaxRestarts
    /\ restarts' = restarts + 1
    /\ pc' = "select"
    /\ UNCHANGED <<store, callers, channels, run, err, steps, contexts, pumps,
                   history, shutdowns>>

-----------------------------------------------------------------------------
(* The callers: request handlers and the scheduler's jobs.                 *)

(* GetPipelineByID and CreatePipelineRun of the form, webhook and job.     *)
CreatePipelineRun(r) ==
    /\ Up /\ status[r] = "none" /\ pipeline = "present"
    /\ status' = [status EXCEPT ![r] = "queued"]
    /\ posting' = posting \cup {r}
    /\ UNCHANGED <<output, pipeline, channels, worker, steps,
                   contexts, pumps, history, counters>>

(* Mutant: a send that does not look at the capacity. *)
EnqueueUnbounded(r) ==
    /\ r \in posting
    /\ pipeline # "gone" /\ ~queueClosed
    /\ queue' = Append(queue, r)
    /\ posting' = posting \ {r}
    /\ UNCHANGED <<store, queueClosed, doneClosed, worker, steps,
                   contexts, pumps, history, counters>>

(* Mutant: a caller that tries again after a send that succeeded. *)
EnqueueAgain(r) ==
    /\ r \in posting
    /\ pipeline # "gone" /\ ~queueClosed
    /\ Len(queue) < QueueSize
    /\ queue' = Append(queue, r)
    /\ UNCHANGED <<store, callers, queueClosed, doneClosed, worker, steps,
                   contexts, pumps, history, counters>>

(* The send that finds room.  A nil answer is all the caller waits for.    *)
Enqueue(r) ==
    /\ r \in posting
    /\ pipeline # "gone" /\ ~queueClosed
    /\ Len(queue) < QueueSize
    /\ queue' = Append(queue, r)
    /\ posting' = posting \ {r}
    /\ UNCHANGED <<store, queueClosed, doneClosed, worker, steps,
                   contexts, pumps, history, counters>>

(* No queue in the map, a full queue, or a panic of the handler on the     *)
(* closed channel, which net/http recovers: the row stays queued.          *)
EnqueueRefused(r) ==
    /\ r \in posting
    /\ pipeline = "gone" \/ queueClosed \/ Len(queue) = QueueSize
    /\ posting' = posting \ {r}
    /\ UNCHANGED <<store, channels, worker, steps, contexts,
                   pumps, history, counters>>

(* The same panic in a scheduler's job: nothing recovers it. *)
EnqueuePanics(r) ==
    /\ r \in posting
    /\ pipeline # "gone" /\ queueClosed
    /\ GoDown("queue")

(* The registered cancel function cancels the run's context.  Nothing else *)
(* changes for a run that is queued: it has no entry, a nil function is    *)
(* called and net/http recovers the handler's panic.                       *)
CancelRun(r) ==
    /\ Up /\ pipeline # "gone"
    /\ r \in cancels
    /\ cancelled' = cancelled \cup {r}
    /\ UNCHANGED <<store, callers, channels, worker, steps, cancels, pumps,
                   history, counters>>

(* Call reads the map without its mutex while AddCancel writes it: the Go  *)
(* runtime may find out and kills the process.                             *)
CancelRace(r) ==
    /\ pc = "addCancel" /\ pipeline # "gone"
    /\ status[r] # "none"
    /\ GoDown("map")

(* DeletePipeline: the row first, the queue's entry in the map second.     *)
DeletePipelineRow ==
    /\ Up /\ pipeline = "present"
    /\ pipeline' = "rowGone"
    /\ UNCHANGED <<status, output, callers, channels, worker, steps, contexts,
                   pumps, history, counters>>

RemoveRunQueue ==
    /\ Up /\ pipeline = "rowGone"
    /\ pipeline' = "gone"
    /\ UNCHANGED <<status, output, callers, channels, worker, steps, contexts,
                   pumps, history, counters>>

(* Shutdown takes the worker's own token if the worker is waiting to send  *)
(* it; otherwise it closes done, unless that was done before.              *)
ShutdownReceives ==
    /\ Up /\ shutdowns < MaxShutdowns
    /\ shutdowns' = shutdowns + 1
    /\ pc = "sendDone" /\ ~doneClosed
    /\ pc' = "recvDone"
    /\ UNCHANGED <<store, callers, channels, run, err, steps, contexts, pumps,
                   history, restarts>>

ShutdownCloses ==
    /\ Up /\ shutdowns < MaxShutdowns
    /\ shutdowns' = shutdowns + 1
    /\ doneClosed' = TRUE
    /\ UNCHANGED <<store, callers, queue, queueClosed, worker, steps, contexts,
                   pumps, history, restarts>>

-----------------------------------------------------------------------------
(* The worker: Run's loop around processRun and handleProcessingFailed.    *)

Goto(next) == /\ pc' = next /\ UNCHANGED <<run, err>>
Fail(why)  == /\ pc' = "failed" /\ err' = why /\ UNCHANGED run

TakeRun ==
    /\ pc = "select" /\ queue # <<>>
    /\ run' = Head(queue)
    /\ queue' = Tail(queue)
    /\ taken' = Append(taken, Head(queue))
    /\ pc' = "addCancel" /\ err' = "none" /\ lines' = 0
    /\ UNCHANGED <<store, callers, queueClosed, doneClosed, leaked, contexts,
                   pumps, shown, death, counters>>

(* The other case of the select: done is closed, the worker returns. *)
StopLoop ==
    /\ pc = "select" /\ doneClosed
    /\ queueClosed' = TRUE
    /\ Goto("exited")
    /\ UNCHANGED <<store, callers, queue, doneClosed, steps, contexts, pumps,
                   history, counters>>

AddCancel ==
    /\ pc = "addCancel"
    /\ cancels' = cancels \cup {run}
    /\ outPump' = "idle" /\ statPump' = "idle"
    /\ Goto("runData")
    /\ UNCHANGED <<store, callers, channels, steps, cancelled, history,
                   counters>>

(* A step of the worker that only moves pc. *)
Internal == UNCHANGED <<store, callers, channels, steps, contexts, pumps,
                        history, counters>>

ReadPipelineRunData ==
    /\ pc = "runData"
    /\ \E ok \in StoreCall(pipeline = "present" /\ run \notin cancelled) :
          IF ok THEN Goto("started") ELSE Fail("other")
    /\ Internal

(* Mutant: an update without its "where run_id". *)
StoreStatusEverywhere(s, ok) ==
    status' = [r \in Runs |-> IF ok /\ (r = run \/ status[r] = "running")
                              THEN s ELSE status[r]]

(* The update of the row through run_id: it outlives the pipeline's row.   *)
StoreStatus(s, ok) ==
    status' = IF ok THEN [status EXCEPT ![run] = s] ELSE status

UpdatePipelineRunStartedOn ==
    /\ pc = "started"
    /\ \E ok \in StoreCall(TRUE) :
          /\ StoreStatus("running", ok)
          /\ IF ok THEN Goto("readStarted") ELSE Fail("other")
    /\ UNCHANGED <<output, pipeline, callers, channels, steps, contexts, pumps,
                   history, counters>>

UpdatePipelineRunPassed ==
    /\ pc = "passed"
    /\ \E ok \in StoreCall(TRUE) :
          /\ StoreStatus("passed", ok)
          /\ IF ok THEN Goto("readPassed") ELSE Fail("other")
    /\ UNCHANGED <<output, pipeline, callers, channels, steps, contexts, pumps,
                   history, counters>>

(* Mutant: a step that times out is taken for a cancelled one. *)
VerdictOfTimeout(e) == IF e \in {"cancel", "other"} THEN "cancelled" ELSE "failed"

(* err.(RunCancelError) holds for the unwrapped error only. *)
Verdict(e) == IF e = "cancel" THEN "cancelled" ELSE "failed"

(* handleProcessingFailed goes on when the store refuses the verdict. *)
UpdatePipelineRunFailed ==
    /\ pc = "failed"
    /\ \E ok \in StoreCall(TRUE) : StoreStatus(Verdict(err), ok)
    /\ Goto("readFailed")
    /\ UNCHANGED <<output, pipeline, callers, channels, steps, contexts, pumps,
                   history, counters>>

(* Mutant: the reads run under the run's own context. *)
ReadRunByIDUnderContext ==
    /\ \E ok \in StoreCall(RowReadable /\ run \notin cancelled) :
          \/ /\ pc = "readStarted"
             /\ IF ok THEN Goto("notifyStarted") ELSE Fail("other")
          \/ /\ pc = "readPassed"
             /\ IF ok THEN Goto("notifyPassed") ELSE Fail("other")
          \/ /\ pc = "readFailed"
             /\ Goto(IF ok THEN "notifyFailed" ELSE "fail")
    /\ Internal

(* ReadRunByID after each update; without the row there is no broadcast. *)
ReadRunByID ==
    /\ \E ok \in StoreCall(RowReadable) :
          \/ /\ pc = "readStarted"
             /\ IF ok THEN Goto("notifyStarted") ELSE Fail("other")
          \/ /\ pc = "readPassed"
             /\ IF ok THEN Goto("notifyPassed") ELSE Fail("other")
          \/ /\ pc = "readFailed"
             /\ Goto(IF ok THEN "notifyFailed" ELSE "fail")
    /\ Internal

(* Mutant: the failed run in memory is sent, not the row that was read. *)
NotifyInMemory ==
    /\ statPump = "idle"
    /\ statPump' = IF pc = "notifyFailed" THEN Verdict(err) ELSE status[run]
    /\ \/ pc = "notifyStarted" /\ \E next \in {"connect", "clone"} : Goto(next)
       \/ pc = "notifyPassed" /\ Goto("sendDone")
       \/ pc = "notifyFailed" /\ Goto("fail")
    /\ UNCHANGED <<store, callers, channels, steps, contexts, outPump, history,
                   counters>>

(* statusCh <- *r: the row read above, which only this worker changes. The *)
(* host decides where the run goes on.                                     *)
Notify ==
    /\ statPump = "idle" /\ statPump' = status[run]
    /\ \/ pc = "notifyStarted" /\ \E next \in {"connect", "clone"} : Goto(next)
       \/ pc = "notifyPassed" /\ Goto("sendDone")
       \/ pc = "notifyFailed" /\ Goto("fail")
    /\ UNCHANGED <<store, callers, channels, steps, contexts, outPump, history,
                   counters>>

(* outputCh <- line *)
Say(line) == /\ outPump = "idle" /\ outPump' = line
             /\ UNCHANGED <<store, callers, channels, contexts, statPump,
                            history, counters>>

(* A remote host: prd.SSHPrivateKey, which ReadPipelineRunData leaves nil,  *)
(* never parses, whatever key is stored.  Two lines, then the error.       *)
ParsePrivateKey ==
    /\ pc = "connect" /\ Say("log") /\ Goto("connectErr")
    /\ UNCHANGED steps

ConnectionError ==
    /\ pc = "connectErr" /\ Say("log") /\ Fail("parseKey")
    /\ UNCHANGED steps

(* The controller: the command does not start under a cancelled context,   *)
(* and is killed, if it still runs, when the context is cancelled.         *)
StartClone ==
    /\ pc = "clone"
    /\ IF run \in cancelled THEN Fail("other") ELSE Goto("cloning")
    /\ Internal

Clone ==
    /\ pc = "cloning"
    /\ Goto("cloned") \/ Fail("other")
    /\ Internal

SayCloned == /\ pc = "cloned" /\ Say("log") /\ Goto("script")
             /\ UNCHANGED steps

ReadPipelineScript ==
    /\ pc = "script"
    /\ Goto("parsed") \/ Fail("other")
    /\ Internal

SayParsed == /\ pc = "parsed" /\ Say("log") /\ Goto("exec")
             /\ UNCHANGED steps

StepOutput ==
    /\ pc = "exec" /\ lines < MaxLines
    /\ Say("log") /\ lines' = lines + 1
    /\ UNCHANGED <<worker, leaked>>

StepsPass == /\ pc = "exec" /\ Goto("pass") /\ Internal

(* A step's command fails, or a parallel group does: RunCancelErrors of a  *)
(* group are joined and so hidden.  Its output may not be drained.         *)
StepFails ==
    /\ pc = "exec" /\ Fail("other")
    /\ leaked' \in BOOLEAN
    /\ UNCHANGED <<store, callers, channels, lines, contexts, pumps, history,
                   counters>>

(* A step times out: the waiter says so and leaves the command running.    *)
StepTimesOut ==
    /\ pc = "exec" /\ Say("log") /\ Fail("other")
    /\ leaked' \in BOOLEAN /\ UNCHANGED lines

(* The waiter of a sequential step notices the cancelled context. *)
StepCancelled ==
    /\ pc = "exec" /\ run \in cancelled
    /\ Say("log") /\ Fail("cancel")
    /\ leaked' \in BOOLEAN /\ UNCHANGED lines

(* The step's goroutine sends on after the waiter has left. *)
LateOutput ==
    /\ leaked /\ lines < MaxLines /\ Say("log")
    /\ leaked' = FALSE /\ lines' = lines + 1
    /\ UNCHANGED worker

SayPass == /\ pc = "pass" /\ Say("pass") /\ Goto("passed") /\ UNCHANGED steps
SayFail == /\ pc = "fail" /\ Say("fail") /\ Goto("sendDone") /\ UNCHANGED steps

(* Mutant: done has room for one token. *)
SendDoneBuffered ==
    /\ pc = "sendDone"
    /\ IF doneClosed THEN GoDown("done") ELSE Goto("closeDone") /\ Internal

(* rq.done <- struct{}{}: the channel is unbuffered and this goroutine is  *)
(* its only reader, so the send waits for ShutdownReceives.  On a closed   *)
(* channel it panics.                                                      *)
SendDone == pc = "sendDone" /\ doneClosed /\ GoDown("done")

(* <-rq.done goes on only when the channel is closed. *)
ReceiveDone == /\ pc = "recvDone" /\ doneClosed /\ Goto("closeDone") /\ Internal

(* close(rq.done) and the rest of the iteration. *)
CloseDone ==
    /\ pc = "closeDone"
    /\ IF doneClosed
       THEN GoDown("done")
       ELSE /\ doneClosed' = TRUE
            /\ outPump' = "off" /\ statPump' = "off"
            /\ cancels' = cancels \ {run}
            /\ pc' = "select" /\ run' = NoRun /\ err' = "none"
            /\ UNCHANGED <<store, callers, queue, queueClosed, steps,
                           cancelled, history, counters>>

-----------------------------------------------------------------------------
(* The pumps.  A step handles one message and has sent it to every page,   *)
(* which may never come to pass: see PagesAccept.                          *)

(* Mutant: the append runs under a context of its own. *)
HandleOutputInBackground ==
    /\ outPump \in Lines
    /\ outPump' = "idle"
    /\ \E ok \in StoreCall(RowReadable) :
          output' = IF ok THEN [output EXCEPT ![run] = Append(@, outPump)]
                    ELSE output
    /\ UNCHANGED <<status, pipeline, callers, channels, worker, steps,
                   contexts, statPump, history, counters>>

(* Mutant: the pump returns on the first append that fails. *)
HandleOutputReturns ==
    /\ outPump \in Lines
    /\ \E ok \in StoreCall(run \notin cancelled /\ RowReadable) :
          /\ outPump' = IF ok THEN "idle" ELSE "off"
          /\ output' = IF ok THEN [output EXCEPT ![run] = Append(@, outPump)]
                       ELSE output
    /\ UNCHANGED <<status, pipeline, callers, channels, worker, steps,
                   contexts, statPump, history, counters>>

(* The append runs under the run's context. *)
HandleOutput ==
    /\ outPump \in Lines
    /\ outPump' = "idle"
    /\ \E ok \in StoreCall(run \notin cancelled /\ RowReadable) :
          output' = IF ok THEN [output EXCEPT ![run] = Append(@, outPump)]
                    ELSE output
    /\ UNCHANGED <<status, pipeline, callers, channels, worker, steps,
                   contexts, statPump, history, counters>>

HandleStatus ==
    /\ statPump \in Status
    /\ statPump' = "idle"
    /\ shown' = [shown EXCEPT ![run] = Append(@, statPump)]
    /\ UNCHANGED <<store, callers, channels, worker, steps, contexts, outPump,
                   taken, death, counters>>

-----------------------------------------------------------------------------
Request(r) == \/ CreatePipelineRun(r)
              \/ Enqueue(r) \/ EnqueueRefused(r) \/ EnqueuePanics(r)
              \/ CancelRun(r) \/ CancelRace(r)

Environment == \/ Crash \/ Restart
               \/ DeletePipelineRow \/ RemoveRunQueue
               \/ ShutdownReceives \/ ShutdownCloses

Worker == \/ TakeRun \/ StopLoop \/ AddCancel
          \/ ReadPipelineRunData \/ UpdatePipelineRunStartedOn
          \/ ReadRunByID \/ Notify
          \/ ParsePrivateKey \/ ConnectionError
          \/ StartClone \/ Clone \/ SayCloned
          \/ ReadPipelineScript \/ SayParsed
          \/ StepOutput \/ StepsPass \/ StepFails \/ StepTimesOut
          \/ StepCancelled
          \/ SayPass \/ UpdatePipelineRunPassed
          \/ UpdatePipelineRunFailed \/ SayFail
          \/ SendDone \/ ReceiveDone \/ CloseDone

Next == \/ \E r \in Runs : Request(r)
        \/ Environment
        \/ Worker \/ LateOutput
        \/ HandleOutput \/ HandleStatus

Spec == Init /\ [][Next]_vars

(* Go schedules every goroutine that can run, a store call returns, and    *)
(* git and the steps end: nothing is asked of the callers, of the          *)
(* environment, or of the goroutine of a step that was given up.           *)
FairSpec == Spec /\ WF_vars(Worker)

(* The pumps go on: every page takes what SendToClients sends it.  The     *)
(* code does not see to that (SSEClientMap, its LogsAreLive), so this is   *)
(* no fairness of the specification but a premise of a property.           *)
PagesAccept == WF_vars(HandleOutput) /\ WF_vars(HandleStatus)

-----------------------------------------------------------------------------
StoreType == /\ status \in [Runs -> Status]
             /\ output \in [Runs -> Seq(Lines)]
             /\ pipeline \in {"present", "rowGone", "gone"}
CallerType == posting \subseteq Runs
ChannelType == /\ queue \in Seq(Runs) /\ Len(queue) <= QueueSize
               /\ queueClosed \in BOOLEAN /\ doneClosed \in BOOLEAN
WorkerType == /\ pc \in PCs /\ run \in Runs \cup {NoRun} /\ err \in Errors
              /\ pc \in WithoutRun <=> run = NoRun
StepType == lines \in 0 .. MaxLines /\ leaked \in BOOLEAN
ContextType == cancels \subseteq Runs /\ cancelled \subseteq Runs
PumpType == /\ outPump \in Lines \cup {"off", "idle"}
            /\ statPump \in Status \cup {"off", "idle"}
HistoryType == /\ shown \in [Runs -> Seq(Status)]
               /\ taken \in Seq(Runs)
               /\ death \in {"none", "crash", "queue", "map", "done"}
CounterType == /\ shutdowns \in 0 .. MaxShutdowns
               /\ restarts \in 0 .. MaxRestarts

(* Types, with the bound of the queue channel: Enqueue never blocks and    *)
(* never exceeds the capacity NewRunQueue gave it.                         *)
TypeOK == /\ StoreType /\ CallerType /\ ChannelType /\ WorkerType /\ StepType
          /\ ContextType /\ PumpType /\ HistoryType /\ CounterType

(* The queue implements what it promises: FIFO, one run at a time, only    *)
(* that run's status moves, and cancelled is stored only for a run whose   *)
(* cancellation reached its context (Run, Enqueue, handleProcessingFailed).*)
Lifecycle == INSTANCE RunLifecycle WITH waiting <- queue, active <- run
ImplementsLifecycle == Lifecycle!Spec

(* No run is both waiting and held, or waiting twice, and none is in the   *)
(* queue that the store does not hold as queued: callers race from insert  *)
(* to Enqueue, and the worker from receive to UpdatePipelineRunStartedOn.  *)
HeldOnce == Lifecycle!HeldOnce

(* A worker serves one run in the life of the process: after it, the       *)
(* goroutine waits on rq.done for itself (lines 241, 291, 806 and 93), and *)
(* whatever unblocks it ends it.                                           *)
AtMostOneRunServed == Len(taken) <= 1

(* As main wires it, and until Shutdown is called, the process is never    *)
(* brought down by a send on, or a second close of, a closed channel.      *)
NoChannelPanicAsWired == shutdowns = 0 => death \notin {"queue", "done"}

(* A verdict that was broadcast to the pages watching the run is the last  *)
(* thing they see and stays the stored one, store errors, deletions and    *)
(* restarts included: a pass that is overturned was not broadcast.         *)
ShownVerdictIsFinal ==
    \A r \in Runs : \A i \in 1 .. Len(shown[r]) :
        shown[r][i] \in Verdicts => /\ i = Len(shown[r])
                                    /\ status[r] = shown[r][i]

(* The log of a run stored as cancelled ends without any banner: FAIL is   *)
(* appended under the context that was cancelled (handleOutput), PASS is   *)
(* never sent.                                                             *)
CancelledRunHasNoBanner ==
    \A r \in Runs :
        status[r] = "cancelled" => \A i \in 1 .. Len(output[r]) :
                                        output[r][i] = "log"

(* With a store that answers and a pipeline that is still there, a log     *)
(* with the PASS banner belongs to a run that is not stored as failed or   *)
(* cancelled, although banner and status are written by two goroutines.    *)
PassBannerMeansPassed ==
    (~StoreMayFail /\ pipeline = "present") =>
        \A r \in Runs :
            "pass" \in Elements(output[r]) => status[r] \in {"running", "passed"}

(* A stored pass is overturned only by a store error or by the deletion of *)
(* the pipeline between the update and the read (lines 274-287).           *)
PassedIsFinal ==
    [][\A r \in Runs :
          (~StoreMayFail /\ pipeline = "present" /\ status[r] = "passed")
              => status'[r] = "passed"]_vars

(* Runs that nothing in the process knows of. *)
Stranded == {r \in Runs : /\ status[r] \in {"queued", "running"}
                          /\ r \notin posting \cup Elements(queue) \cup {run}}

(* A run whose enqueue was refused, or that a crash took from the queue or *)
(* from the worker, keeps its status queued or running for good: neither   *)
(* the restart (InitializeRunQueues) nor any later call picks it up.       *)
StrandedForGood ==
    [][\A r \in Stranded : status'[r] = status[r] /\ r \in Stranded']_vars

(* As long as pages accept what they are sent, every run the worker takes  *)
(* gets a verdict, unless the process dies: no cancellation, deletion,     *)
(* early return or pump that ends (Run, processRun, handleOutput,          *)
(* handleStatus) loses it.  A page that does not accept stops the pump,    *)
(* and with it the worker and its run.                                     *)
TakenRunsConclude ==
    PagesAccept => \A r \in Runs : (run = r) ~> (status[r] \in Verdicts \/ ~Up)

-----------------------------------------------------------------------------
(* What the documentation says and the code does not do. *)

(* readme.md:23, "Schedule pipelines to run using cron": an accepted run   *)
(* is eventually taken, if the pages accept what they are sent.             *)
AcceptedRunsStart ==
    PagesAccept => \A r \in Runs : (r \in Elements(queue)) ~> (run = r \/ ~Up)
=============================================================================
