---------------------------- MODULE StepExecution ---------------------------
(***************************************************************************)
(* One step on the controller (executePipelineStepOnController): the       *)
(* waiter's select over timeout, cancellation and result, the goroutine    *)
(* that starts the command and waits for it, the two scanners that pass    *)
(* its output on, the command itself and the library goroutine that kills  *)
(* it when the run's context is cancelled.  The pump accepts every line.   *)
(***************************************************************************)
EXTENDS Naturals

CONSTANTS Streams,    \* stdout and stderr
          MaxLines,   \* bound: lines the command writes to a stream
          Timeouts    \* timeout_seconds a step may have; absent in yaml: 0

ASSUME StepAssumption == MaxLines \in Nat /\ Timeouts \subseteq Nat

VARIABLES
    timeout,     \* the step's timeout_seconds
    cancelled,   \* ctx: CancelRun was called
    expired,     \* the timer of timeoutCtx fired
    released,    \* the goroutine's deferred cancel ran
    waiter,      \* "select" or "returned"
    result,      \* what the waiter returns
    g,           \* the goroutine's next statement
    doneCh,      \* the buffered channel: "empty", "ok", "error"
    command,     \* "off", "alive", "exited0", "exited1", "killed"
    closed,      \* Wait has closed the reading ends of the pipes
    written,     \* lines the command wrote, per stream
    pipe,        \* lines in the pipe, per stream
    buffer,      \* lines in the scanner's buffer, per stream
    scanning,    \* the streams whose scanner has not ended
    sent         \* lines sent to outputCh, per stream

contexts == <<cancelled, expired, released>>
process  == <<command, written>>
streams  == <<pipe, buffer, scanning, sent>>
vars == <<timeout, contexts, waiter, result, g, doneCh, process, closed, streams>>

Ended == {"exited0", "exited1", "killed"}
TimeoutCtxDone == expired \/ cancelled \/ released

(* context.WithTimeout(ctx, 0) is done when it is returned; the run may    *)
(* have been cancelled before the step.                                    *)
Init ==
    /\ timeout \in Timeouts
    /\ cancelled \in BOOLEAN
    /\ expired = (timeout = 0)
    /\ released = FALSE
    /\ waiter = "select" /\ result = "none"
    /\ g = "start" /\ doneCh = "empty"
    /\ command = "off" /\ closed = FALSE
    /\ written = [s \in Streams |-> 0]
    /\ pipe = [s \in Streams |-> 0]
    /\ buffer = [s \in Streams |-> 0]
    /\ scanning = {}
    /\ sent = [s \in Streams |-> 0]

-----------------------------------------------------------------------------
CancelRun ==
    /\ ~cancelled /\ cancelled' = TRUE
    /\ UNCHANGED <<timeout, expired, released, waiter, result, g, doneCh,
                   process, closed, streams>>

TimerFires ==
    /\ ~expired /\ expired' = TRUE
    /\ UNCHANGED <<timeout, cancelled, released, waiter, result, g, doneCh,
                   process, closed, streams>>

-----------------------------------------------------------------------------
(* The goroutine. *)

(* Start refuses a cancelled context, and fails without sh or directory. *)
StartCommand ==
    /\ g = "start"
    /\ \/ /\ ~cancelled
          /\ command' = "alive" /\ g' = "wait" /\ scanning' = Streams
       \/ g' = "sendError" /\ UNCHANGED <<command, scanning>>
    /\ UNCHANGED <<timeout, contexts, waiter, result, doneCh, written, closed,
                   pipe, buffer, sent>>

(* Mutant: the exit status is ignored. *)
WaitForAnyExit ==
    /\ g = "wait" /\ command \in Ended
    /\ closed' = TRUE
    /\ g' = "drain"
    /\ UNCHANGED <<timeout, contexts, waiter, result, doneCh, process, streams>>

(* Wait returns once the command has ended, and closes the pipes: what the *)
(* scanners have not read by then is lost.                                 *)
WaitForCommand ==
    /\ g = "wait" /\ command \in Ended
    /\ closed' = TRUE
    /\ g' = IF command = "exited0" THEN "drain" ELSE "sendError"
    /\ UNCHANGED <<timeout, contexts, waiter, result, doneCh, process, streams>>

(* Mutant: the result is sent without wg.Wait for the scanners. *)
JoinNoScanner ==
    /\ g = "drain"
    /\ g' = "sendNil"
    /\ UNCHANGED <<timeout, contexts, waiter, result, doneCh, process, closed,
                   streams>>

JoinScanners ==
    /\ g = "drain" /\ scanning = {}
    /\ g' = "sendNil"
    /\ UNCHANGED <<timeout, contexts, waiter, result, doneCh, process, closed,
                   streams>>

SendResult ==
    /\ g \in {"sendNil", "sendError"}
    /\ doneCh' = IF g = "sendNil" THEN "ok" ELSE "error"
    /\ g' = "release"
    /\ UNCHANGED <<timeout, contexts, waiter, result, process, closed, streams>>

(* defer cancel(): timeoutCtx is done from here on, whatever the timer. *)
Release ==
    /\ g = "release"
    /\ released' = TRUE /\ g' = "end"
    /\ UNCHANGED <<timeout, cancelled, expired, waiter, result, doneCh, process,
                   closed, streams>>

-----------------------------------------------------------------------------
(* The command and the scanners. *)

Write(s) ==
    /\ command = "alive" /\ written[s] < MaxLines
    /\ written' = [written EXCEPT ![s] = @ + 1]
    /\ pipe' = [pipe EXCEPT ![s] = @ + 1]
    /\ UNCHANGED <<timeout, contexts, waiter, result, g, doneCh, command,
                   closed, buffer, scanning, sent>>

Exit ==
    /\ command = "alive"
    /\ command' \in {"exited0", "exited1"}
    /\ UNCHANGED <<timeout, contexts, waiter, result, g, doneCh, written,
                   closed, streams>>

(* Mutant: the command is made with exec.Command, which nothing kills. *)
KillNothing == cancelled /\ command = "killed" /\ UNCHANGED vars

(* exec.CommandContext(ctx, ...): the run's context, not timeoutCtx. *)
Kill ==
    /\ command = "alive" /\ cancelled
    /\ command' = "killed"
    /\ UNCHANGED <<timeout, contexts, waiter, result, g, doneCh, written,
                   closed, streams>>

Read(s) ==
    /\ s \in scanning /\ ~closed
    /\ buffer[s] = 0 /\ pipe[s] > 0
    /\ buffer' = [buffer EXCEPT ![s] = pipe[s]]
    /\ pipe' = [pipe EXCEPT ![s] = 0]
    /\ UNCHANGED <<timeout, contexts, waiter, result, g, doneCh, process,
                   closed, scanning, sent>>

SendLine(s) ==
    /\ buffer[s] > 0
    /\ buffer' = [buffer EXCEPT ![s] = @ - 1]
    /\ sent' = [sent EXCEPT ![s] = @ + 1]
    /\ UNCHANGED <<timeout, contexts, waiter, result, g, doneCh, process,
                   closed, pipe, scanning>>

(* End of file, an error on the closed pipe, or a line that is longer than *)
(* bufio.Scanner takes: Scan gives up and nobody reads the pipe any more.  *)
EndScan(s) ==
    /\ s \in scanning /\ buffer[s] = 0
    /\ closed \/ pipe[s] > 0 \/ command \in Ended
    /\ scanning' = scanning \ {s}
    /\ UNCHANGED <<timeout, contexts, waiter, result, g, doneCh, process,
                   closed, pipe, buffer, sent>>

-----------------------------------------------------------------------------
(* The waiter: a select, which takes any case that is ready. *)

Return(r) == /\ waiter = "select" /\ waiter' = "returned" /\ result' = r
             /\ UNCHANGED <<timeout, contexts, g, doneCh, process, closed, streams>>

(* Mutant: the timed out command is waited for. *)
TimeoutCaseWaits == TimeoutCtxDone /\ command # "alive" /\ Return("timeout")

(* Mutant: the case waits for timeoutCtx instead of ctx. *)
CancelCaseOfTimeout == TimeoutCtxDone /\ Return("cancel")

TimeoutCase == TimeoutCtxDone /\ Return("timeout")
CancelCase  == cancelled /\ Return("cancel")
DoneCase    == doneCh # "empty" /\ Return(doneCh)

-----------------------------------------------------------------------------
Waiter == TimeoutCase \/ CancelCase \/ DoneCase
Goroutine == \/ StartCommand \/ WaitForCommand \/ JoinScanners
             \/ SendResult \/ Release
Scanner(s) == Read(s) \/ SendLine(s) \/ EndScan(s)

Next == \/ CancelRun \/ TimerFires
        \/ Goroutine \/ Waiter
        \/ Exit \/ Kill
        \/ \E s \in Streams : Write(s) \/ Scanner(s)

(* Time passes, goroutines run and a kill is effective; nothing says that  *)
(* the command of a step ends or that anyone cancels the run.              *)
Spec == /\ Init /\ [][Next]_vars
        /\ WF_vars(TimerFires) /\ WF_vars(Waiter) /\ WF_vars(Goroutine)
        /\ WF_vars(Kill)
        /\ \A s \in Streams : WF_vars(Scanner(s))

-----------------------------------------------------------------------------
TypeOK ==
    /\ timeout \in Timeouts
    /\ cancelled \in BOOLEAN /\ expired \in BOOLEAN /\ released \in BOOLEAN
    /\ waiter \in {"select", "returned"}
    /\ result \in {"none", "ok", "error", "timeout", "cancel"}
    /\ g \in {"start", "wait", "drain", "sendNil", "sendError", "release", "end"}
    /\ doneCh \in {"empty", "ok", "error"}
    /\ command \in {"off", "alive"} \cup Ended
    /\ closed \in BOOLEAN
    /\ \A f \in {written, pipe, buffer, sent} : f \in [Streams -> 0 .. MaxLines]
    /\ scanning \subseteq Streams

(* A step passes only if its command exited with 0, and fails with the     *)
(* command's error only if there is no command left: whichever way the     *)
(* select and the goroutine race, only a timeout or a cancellation leaves  *)
(* a command running behind the pipeline's back.                           *)
ResultMatchesCommand ==
    /\ result = "ok" => command = "exited0"
    /\ result = "error" => command \in {"off", "exited1", "killed"}

(* When a step passes, every line its scanners got hold of was sent: no    *)
(* line of a passed step can follow "STEP PASSED" in the log.              *)
PassedStepIsDrained ==
    result = "ok" => scanning = {} /\ \A s \in Streams : buffer[s] = 0

(* The step keeps its contract: one command, lines only while a scanner    *)
(* is there, and one return that agrees with command, lines and context.   *)
CommandSeen == CASE command = "off"     -> IF g = "start" THEN "pending" ELSE "missed"
                 [] command = "alive"   -> "alive"
                 [] command = "exited0" -> "passed"
                 [] OTHER               -> "missed"

Contract == INSTANCE StepContract WITH command <- CommandSeen, open <- scanning
KeepsContract == Contract!Spec

(* No script, hanging or not, keeps the worker: every step returns. *)
StepReturns == <>(waiter = "returned")

(* Cancelling the run ends the command and the step's goroutine, even when *)
(* the step had timed out before.                                          *)
CancelledStepEnds == cancelled ~> (command # "alive" /\ g = "end")
=============================================================================
