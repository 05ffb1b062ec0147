--------------------------- MODULE MCStepExecution --------------------------
(* Instances of StepExecution for TLC. *)
EXTENDS StepExecution

BothStreams == {"stdout", "stderr"}
NoneOrSome == {0, 30}
=============================================================================
