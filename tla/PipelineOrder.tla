---------------------------- MODULE PipelineOrder ---------------------------
(***************************************************************************)
(* What a pipeline script means, without the loop that reads it: stages    *)
(* and steps are in order, except that neighbouring steps of a stage that  *)
(* are all marked parallel may overlap.  A script is a sequence of stages, *)
(* a stage the sequence of its steps' parallel flags, and a step the pair  *)
(* of its positions.                                                       *)
(***************************************************************************)
EXTENDS Naturals, Sequences

VARIABLES script,    \* the pipeline script
          begun,     \* steps that were started
          passed,    \* steps that passed
          failed,    \* steps that did not pass
          verdict    \* "none", "passed", "failed", "cancelled"

vars == <<script, begun, passed, failed, verdict>>

StepsOf(sc) == UNION {{k} \X (1 .. Len(sc[k])) : k \in 1 .. Len(sc)}

MayOverlap(a, b) ==
    /\ a[1] = b[1]
    /\ \A i \in 1 .. Len(script[a[1]]) :
          (a[2] <= i /\ i <= b[2]) \/ (b[2] <= i /\ i <= a[2])
              => script[a[1]][i]

Before(a, b) == /\ a[1] < b[1] \/ (a[1] = b[1] /\ a[2] < b[2])
                /\ ~MayOverlap(a, b)

Init == begun = {} /\ passed = {} /\ failed = {} /\ verdict = "none"

(* Starting some steps at once: all that each of them comes after passed. *)
Begin(S) ==
    /\ verdict = "none"
    /\ S # {} /\ S \subseteq StepsOf(script) \ begun
    /\ \A b \in S : \A a \in StepsOf(script) : Before(a, b) => a \in passed
    /\ begun' = begun \cup S
    /\ UNCHANGED <<script, passed, failed, verdict>>

Pass(a) == /\ a \in begun \ (passed \cup failed) /\ verdict = "none"
           /\ passed' = passed \cup {a}
           /\ UNCHANGED <<script, begun, failed, verdict>>

Miss(a) == /\ a \in begun \ (passed \cup failed) /\ verdict = "none"
           /\ failed' = failed \cup {a}
           /\ UNCHANGED <<script, begun, passed, verdict>>

(* The verdict is given when no step is in progress: passed when all       *)
(* passed, anything else when one did not.                                 *)
Conclude(v) ==
    /\ verdict = "none"
    /\ begun = passed \cup failed
    /\ IF v = "passed" THEN passed = StepsOf(script) ELSE failed # {}
    /\ verdict' = v
    /\ UNCHANGED <<script, begun, passed, failed>>

Next == \/ \E S \in SUBSET StepsOf(script) : Begin(S)
        \/ \E a \in StepsOf(script) : Pass(a) \/ Miss(a)
        \/ \E v \in {"passed", "failed", "cancelled"} : Conclude(v)

Spec == Init /\ [][Next]_vars
=============================================================================
