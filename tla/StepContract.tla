---------------------------- MODULE StepContract ----------------------------
(***************************************************************************)
(* What a step promises the loop over the script and the run queue,        *)
(* whatever its goroutines do: it is given to one command, which is        *)
(* started at most once; its lines come while a stream is open; it returns *)
(* once; and it says "ok" only when the command passed and no line can     *)
(* follow, its error only when the command missed, and "cancel" only when  *)
(* the run was cancelled.  StepExecution is shown to implement this        *)
(* module; PipelineExecution's StepReturns and RunQueue's StepsPass,       *)
(* StepFails, StepTimesOut, StepCancelled and LateOutput rely on it.       *)
(***************************************************************************)
EXTENDS Naturals

CONSTANT Streams    \* stdout and stderr

VARIABLES cancelled,  \* the run's context was cancelled
          command,    \* "pending", "alive", "passed" or "missed"
          open,       \* the streams whose lines are still passed on
          sent,       \* lines passed on, per stream
          result      \* what the step returned

vars == <<cancelled, command, open, sent, result>>

Init == /\ cancelled \in BOOLEAN
        /\ command = "pending"
        /\ open = {}
        /\ sent = [s \in Streams |-> 0]
        /\ result = "none"

Cancel == /\ ~cancelled /\ cancelled' = TRUE
          /\ UNCHANGED <<command, open, sent, result>>

(* Also after the step has returned: a step with timeout 0 may be given up *)
(* before its goroutine has come to the command.                           *)
Start == /\ command = "pending"
         /\ command' = "alive" /\ open' = Streams
         /\ UNCHANGED <<cancelled, sent, result>>

(* A command misses when it does not start, is killed, or exits with 1.    *)
End(how) == /\ \/ command = "alive" /\ how \in {"passed", "missed"}
               \/ command = "pending" /\ how = "missed"
            /\ command' = how
            /\ UNCHANGED <<cancelled, open, sent, result>>

Line(s) == /\ s \in open
           /\ sent' = [sent EXCEPT ![s] = @ + 1]
           /\ UNCHANGED <<cancelled, command, open, result>>

Close(s) == /\ s \in open
            /\ open' = open \ {s}
            /\ UNCHANGED <<cancelled, command, sent, result>>

Return(r) == /\ result = "none"
             /\ r = "ok" => command = "passed" /\ open = {}
             /\ r = "error" => command = "missed"
             /\ r = "cancel" => cancelled
             /\ result' = r
             /\ UNCHANGED <<cancelled, command, open, sent>>

Next == \/ Cancel \/ Start
        \/ \E how \in {"passed", "missed"} : End(how)
        \/ \E s \in Streams : Line(s) \/ Close(s)
        \/ \E r \in {"ok", "error", "timeout", "cancel"} : Return(r)

Spec == Init /\ [][Next]_vars
=============================================================================
