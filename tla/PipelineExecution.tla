-------------------------- MODULE PipelineExecution -------------------------
(***************************************************************************)
(* executePipelineScriptOnController: the loop over the stages of a script *)
(* and over the steps of a stage, which runs a step that is not parallel   *)
(* by itself and neighbouring parallel steps in goroutines of a group, and *)
(* turns their errors into the error RunQueue classifies.  What happens    *)
(* inside a step is StepExecution; here it returns one of its results.     *)
(***************************************************************************)
EXTENDS Naturals, Sequences, FiniteSetsExt

CONSTANT Scripts    \* the scripts a repository may hold: see PipelineOrder

ASSUME ScriptsAssumption == Scripts \subseteq Seq(Seq(BOOLEAN))

VARIABLES
    script,      \* the script that was read: parallel flags per stage
    k, si,       \* the current stage and the next step of it
    at,          \* "stage", "steps", "join" or "returned"
    group,       \* the steps of the stage that are in progress
    step,        \* of every step: "idle", "spawned", "running" or a result
    cancelled,   \* the run's context was cancelled
    verdict      \* how handleProcessingFailed will classify the return

vars == <<script, k, si, at, group, step, cancelled, verdict>>

StepResults == {"ok", "error", "timeout", "cancel"}
Missed == {"error", "timeout", "cancel"}

Order == INSTANCE PipelineOrder WITH
            begun  <- {a \in DOMAIN step : step[a] # "idle"},
            passed <- {a \in DOMAIN step : step[a] = "passed"},
            failed <- {a \in DOMAIN step : step[a] \in Missed}

Stage == script[k]

Init ==
    /\ script \in Scripts
    /\ k = 1 /\ si = 1 /\ at = "stage" /\ group = {}
    /\ step = [a \in Order!StepsOf(script) |-> "idle"]
    /\ cancelled \in BOOLEAN
    /\ verdict = "none"

CancelRun ==
    /\ ~cancelled /\ cancelled' = TRUE
    /\ UNCHANGED <<script, k, si, at, group, step, verdict>>

EnterStage ==
    /\ at = "stage" /\ k <= Len(script)
    /\ si' = 1 /\ at' = "steps"
    /\ UNCHANGED <<script, k, group, step, cancelled, verdict>>

LeaveStage ==
    /\ at = "steps" /\ si > Len(Stage)
    /\ k' = k + 1 /\ at' = "stage"
    /\ UNCHANGED <<script, si, group, step, cancelled, verdict>>

ReturnNil ==
    /\ at = "stage" /\ k > Len(script)
    /\ at' = "returned" /\ verdict' = "passed"
    /\ UNCHANGED <<script, k, si, group, step, cancelled>>

(* Mutant: the scan takes in the step after the last parallel one. *)
NextGroupTooLong ==
    IF Stage[si] THEN {i \in si .. Len(Stage) : \A j \in si .. i - 1 : Stage[j]}
    ELSE {si}

(* The step at si, or the parallel steps from si to the first that is not. *)
NextGroup ==
    IF Stage[si] THEN {i \in si .. Len(Stage) : \A j \in si .. i : Stage[j]}
    ELSE {si}

StartGroup ==
    /\ at = "steps" /\ si <= Len(Stage)
    /\ group' = NextGroup
    /\ step' = [a \in DOMAIN step |->
                   IF a \in {k} \X NextGroup THEN "spawned" ELSE step[a]]
    /\ at' = "join"
    /\ UNCHANGED <<script, k, si, cancelled, verdict>>

Move(i, from, to) ==
    /\ at = "join" /\ i \in group
    /\ step[<<k, i>>] = from
    /\ step' = [step EXCEPT ![<<k, i>>] = to]
    /\ UNCHANGED <<script, k, si, at, group, cancelled, verdict>>

SayExecuting(i) == Move(i, "spawned", "running")

(* executePipelineStepOnController returns (StepExecution). *)
StepReturns(i) ==
    \E r \in StepResults : /\ r = "cancel" => cancelled
                           /\ Move(i, "running", r)

SayPassed(i) == Move(i, "ok", "passed")

(* wg.Wait, or the return of the only step. *)
GroupOver == \A i \in group : step[<<k, i>>] \in Missed \cup {"passed"}

(* Mutant: errors.As finds a RunCancelError inside the joined error. *)
ClassifyJoined(S) ==
    IF \E i \in S : step[<<k, i>>] = "cancel" THEN "cancelled" ELSE "failed"

(* A single step's error is returned as it is; errors.Join hides what the  *)
(* errors of a group are, even when there is only one.                     *)
Classify(S) ==
    IF ~Stage[si] /\ \E i \in S : step[<<k, i>>] = "cancel"
    THEN "cancelled" ELSE "failed"

(* Mutant: the group is not a fresh one for every scan. *)
JoinKeepsGroup ==
    /\ at = "join" /\ GroupOver
    /\ IF \E i \in group : step[<<k, i>>] \in Missed
       THEN at' = "returned" /\ verdict' = Classify(group) /\ UNCHANGED si
       ELSE at' = "steps" /\ si' = Max(group) + 1 /\ UNCHANGED verdict
    /\ UNCHANGED <<script, k, group, step, cancelled>>

(* Mutant: the loop goes on at the last step of the group. *)
JoinOffByOne ==
    /\ at = "join" /\ GroupOver
    /\ IF \E i \in group : step[<<k, i>>] \in Missed
       THEN at' = "returned" /\ verdict' = Classify(group) /\ UNCHANGED si
       ELSE at' = "steps" /\ si' = Max(group) /\ UNCHANGED verdict
    /\ group' = {}
    /\ UNCHANGED <<script, k, step, cancelled>>

Join ==
    /\ at = "join" /\ GroupOver
    /\ IF \E i \in group : step[<<k, i>>] \in Missed
       THEN at' = "returned" /\ verdict' = Classify(group) /\ UNCHANGED si
       ELSE at' = "steps" /\ si' = Max(group) + 1 /\ UNCHANGED verdict
    /\ group' = {}
    /\ UNCHANGED <<script, k, step, cancelled>>

Loop == EnterStage \/ LeaveStage \/ ReturnNil \/ StartGroup \/ Join
Step(i) == SayExecuting(i) \/ StepReturns(i) \/ SayPassed(i)

Next == CancelRun \/ Loop \/ \E i \in group : Step(i)

(* The goroutines run, and every step returns: StepExecution!StepReturns.  *)
Spec == Init /\ [][Next]_vars /\ WF_vars(Loop \/ \E i \in group : Step(i))

-----------------------------------------------------------------------------
TypeOK ==
    /\ script \in Scripts
    /\ k \in 1 .. Len(script) + 1
    /\ si \in Nat /\ group \subseteq Nat /\ (at = "join" <=> group # {})
    /\ at \in {"stage", "steps", "join", "returned"}
    /\ step \in [Order!StepsOf(script) ->
                    {"idle", "spawned", "running", "passed"} \cup StepResults]
    /\ cancelled \in BOOLEAN
    /\ verdict \in {"none", "passed", "failed", "cancelled"}

(* The loop executes the script in the order the script means: no step     *)
(* before the ones it comes after have passed, no verdict while a step is  *)
(* in progress, no pass with a step left out.                              *)
ImplementsOrder == Order!Spec

(* A run is cancelled only through a step that is not parallel; a          *)
(* cancellation that reaches a parallel group ends as a failure, although  *)
(* every one of its steps said "cancelled by user".                        *)
CancelledBySequentialStep ==
    verdict = "cancelled" =>
        \E a \in DOMAIN step :
            /\ step[a] = "cancel" /\ ~script[a[1]][a[2]]
            /\ \A b \in DOMAIN step :
                  b # a => step[b] = IF Order!Before(b, a) THEN "passed"
                                     ELSE "idle"

(* The loop comes to an end with every script. *)
ScriptEnds == <>(at = "returned")
=============================================================================
