---------------------------- MODULE MCArtifacts ----------------------------
(* Instances of Artifacts for TLC. *)
EXTENDS Artifacts, TLC

CONSTANTS k1, k2, a1, a2, p1, r1, f1, f2, c1, c2

TwoCredentials == {k1, k2}
TwoAgents == {a1, a2}
OnePipeline == {p1}
OneRun == {r1}
NoRuns == {}
OfOnePipeline == [r \in OneRun |-> p1]
OneFile == {f1}
TwoFiles == {f1, f2}
TwoCallers == {c1, c2}

(* Ids and files are only compared; safety runs only. *)
Symmetry == Permutations(Credentials) \cup Permutations(Agents)
            \cup Permutations(Files) \cup Permutations(Callers)
=============================================================================
