------------------------- MODULE MCPipelineService -------------------------
(* Instances of PipelineService for TLC. *)
EXTENDS PipelineService, TLC

CONSTANTS p1, p2, c1, c2, j1, j2, j3, s1, s2

TwoPipelines == {p1, p2}
OnePipeline == {p1}
TwoCallers == {c1, c2}
OneCaller == {c1}
ThreeJobs == {j1, j2, j3}

TwoSchedules == {s1, s2}

(* Ids are only compared; used for safety runs only. *)
Symmetry == Permutations(Pipelines) \cup Permutations(Callers)
            \cup Permutations(Jobs) \cup Permutations(Schedules)
=============================================================================
