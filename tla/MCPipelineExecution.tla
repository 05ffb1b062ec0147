------------------------- MODULE MCPipelineExecution ------------------------
(* Instances of PipelineExecution for TLC. *)
EXTENDS PipelineExecution, SequencesExt

(* All scripts of up to two stages of up to three steps. *)
SmallScripts == BoundedSeq(BoundedSeq(BOOLEAN, 3), 2)
=============================================================================
