----------------------- MODULE PipelineExecutionProofs -----------------------
(***************************************************************************)
(* The loop over stages and steps executes every script in the order the   *)
(* script means, and says "cancelled" only for a step that is not parallel.*)
(***************************************************************************)
EXTENDS PipelineExecution, WellFoundedInduction, TLAPS

Steps == Order!StepsOf(script)
Progress == {"spawned", "running", "passed"} \cup StepResults

(* Where the loop is: the steps before it, the ones of its group, and the  *)
(* ones it has yet to come to.                                             *)
Behind(a) == a[1] < k \/ (at # "stage" /\ a[1] = k /\ a[2] < si)
InGroup(a) == a[1] = k /\ a[2] \in group

LoopInv ==
    /\ at \in {"steps", "join"} => k <= Len(script) /\ si \in 1 .. Len(Stage) + 1
    /\ at = "join" => si <= Len(Stage) /\ group = NextGroup
    /\ at # "join" => group = {}
    /\ at # "returned" =>
           \A a \in Steps : /\ Behind(a) => step[a] = "passed"
                            /\ InGroup(a) => step[a] # "idle"
                            /\ ~Behind(a) /\ ~InGroup(a) => step[a] = "idle"

(* A verdict comes with the end, and says what became of the steps.        *)
VerdictInv ==
    /\ verdict = "none" <=> at # "returned"
    /\ verdict = "passed" => \A a \in Steps : step[a] = "passed"
    /\ verdict \in {"failed", "cancelled"} => \E a \in Steps : step[a] \in Missed
    /\ at = "returned" =>
           \A a \in Steps : step[a] \in {"idle", "passed"} \cup Missed

ScriptInv == TypeOK /\ LoopInv /\ VerdictInv /\ CancelledBySequentialStep

-----------------------------------------------------------------------------
(* Scripts and groups. *)

(* A set of natural numbers that has one has a smallest. *)
LEMMA Smallest ==
  ASSUME NEW T \in SUBSET Nat, T # {}
  PROVE  \E m \in T : \A n \in T : m <= n
<1> DEFINE R == OpToRel(<, Nat)
<1>1. IsWellFoundedOn(R, Nat)
  BY NatLessThanWellFounded
<1>2. PICK m \in T : \A n \in T : ~(<<n, m>> \in R)
  <2> HIDE DEF R
  <2> QED BY <1>1, WFMin
<1>3. \A n \in T : ~(n < m)
  BY <1>2 DEF OpToRel
<1> QED BY <1>3

(* The largest of consecutive numbers is the last. *)
LEMMA LastIsMax ==
  ASSUME NEW i \in Nat, NEW j \in Nat, i <= j
  PROVE  Max(i .. j) = j
BY DEF Max

(* A step is the pair of its positions. *)
LEMMA StepsArePairs ==
  ASSUME NEW sc \in Seq(Seq(BOOLEAN))
  PROVE  /\ \A a \in Order!StepsOf(sc) :
               /\ a = <<a[1], a[2]>>
               /\ a[1] \in 1 .. Len(sc) /\ a[2] \in 1 .. Len(sc[a[1]])
         /\ \A j \in 1 .. Len(sc) : \A i \in 1 .. Len(sc[j]) :
               <<j, i>> \in Order!StepsOf(sc)
BY DEF Order!StepsOf

(* The group of the step at si ends with it, or with the last step before  *)
(* one that is not parallel.                                               *)
LEMMA GroupShape ==
  ASSUME script \in Seq(Seq(BOOLEAN)), k \in 1 .. Len(script),
         si \in 1 .. Len(Stage)
  PROVE  \E m \in si .. Len(Stage) :
            /\ NextGroup = si .. m /\ Max(NextGroup) = m
            /\ Stage[si] => \A j \in si .. m : Stage[j]
            /\ ~Stage[si] => m = si
<1>1. Stage \in Seq(BOOLEAN) /\ Len(Stage) \in Nat /\ si \in Nat /\ si <= Len(Stage)
  BY DEF Stage
<1>2. CASE ~Stage[si]
  <2>1. NextGroup = si .. si
    BY <1>1, <1>2 DEF NextGroup
  <2>2. Max(si .. si) = si
    <3>1. si \in Nat /\ si <= si
      BY <1>1
    <3> QED BY <3>1, LastIsMax
  <2>3. si \in si .. Len(Stage)
    BY <1>1
  <2> QED BY <1>2, <2>1, <2>2, <2>3
<1>3. CASE Stage[si]
  <2> DEFINE T == {i \in si .. Len(Stage) + 1 : i = Len(Stage) + 1 \/ ~Stage[i]}
  <2>1. T \in SUBSET Nat /\ Len(Stage) + 1 \in T
    BY <1>1
  <2>2. PICK p \in T : \A n \in T : p <= n
    <3> HIDE DEF T
    <3> QED BY <2>1, Smallest
  <2>3. p \in si + 1 .. Len(Stage) + 1
    BY <1>1, <1>3, <2>2
  <2>4. \A j \in si .. p - 1 : Stage[j]
    BY <1>1, <2>2, <2>3
  <2>5. NextGroup = {i \in si .. Len(Stage) : \A j \in si .. i : Stage[j]}
    BY <1>3 DEF NextGroup
  <2>6. ASSUME NEW i \in si .. Len(Stage)
        PROVE  (\A j \in si .. i : Stage[j]) <=> i \in si .. p - 1
    <3>1. CASE i \in si .. p - 1
      BY <1>1, <2>3, <2>4, <3>1
    <3>2. CASE i >= p
      <4>1. p \in si .. i /\ ~Stage[p]
        BY <1>1, <2>2, <2>3, <2>6, <3>2
      <4> QED BY <1>1, <2>3, <3>2, <4>1
    <3> QED BY <1>1, <2>3, <3>1, <3>2
  <2>7. NextGroup = si .. p - 1
    BY <1>1, <2>3, <2>5, <2>6
  <2>8. p - 1 \in si .. Len(Stage) /\ Max(NextGroup) = p - 1
    BY <1>1, <2>3, <2>7, LastIsMax
  <2> QED BY <1>3, <2>4, <2>7, <2>8
<1> QED BY <1>2, <1>3

-----------------------------------------------------------------------------
(* What a step of a group does, and what is known of its stage.            *)
LEMMA StageTyped ==
  ASSUME TypeOK
  PROVE  /\ script \in Seq(Seq(BOOLEAN)) /\ Len(script) \in Nat
         /\ k \in 1 .. Len(script) + 1 /\ step \in [Steps -> {"idle"} \cup Progress]
         /\ k <= Len(script) =>
                k \in 1 .. Len(script) /\ Stage \in Seq(BOOLEAN) /\ Len(Stage) \in Nat
<1>1. script \in Seq(Seq(BOOLEAN))
  BY ScriptsAssumption DEF TypeOK
<1>2. step \in [Steps -> {"idle"} \cup Progress] /\ k \in 1 .. Len(script) + 1
  BY DEF TypeOK, Steps, Progress
<1> QED BY <1>1, <1>2 DEF Stage

(* The group in progress, as a run of positions of the stage. *)
LEMMA GroupTyped ==
  ASSUME TypeOK, LoopInv, at = "join"
  PROVE  \E m \in si .. Len(Stage) :
            /\ group = si .. m /\ Max(group) = m
            /\ Stage[si] => \A j \in si .. m : Stage[j]
            /\ ~Stage[si] => m = si
<1>1. k \in 1 .. Len(script) /\ script \in Seq(Seq(BOOLEAN))
      /\ Stage \in Seq(BOOLEAN) /\ Len(Stage) \in Nat
  BY StageTyped DEF LoopInv
<1>2. si \in 1 .. Len(Stage) /\ group = NextGroup
  BY <1>1 DEF LoopInv
<1> QED BY <1>1, <1>2, GroupShape

(* Its steps are steps of the script that the loop has come to. *)
LEMMA GroupSteps ==
  ASSUME TypeOK, LoopInv, at = "join", NEW i \in group
  PROVE  <<k, i>> \in Steps /\ ~Behind(<<k, i>>) /\ InGroup(<<k, i>>) /\ i \in Nat
<1>1. PICK m \in si .. Len(Stage) : group = si .. m
  BY GroupTyped
<1>2. k \in 1 .. Len(script) /\ script \in Seq(Seq(BOOLEAN)) /\ Len(Stage) \in Nat
      /\ si \in 1 .. Len(Stage) + 1
  BY StageTyped DEF LoopInv
<1>3. i \in 1 .. Len(script[k]) /\ i >= si
  BY <1>1, <1>2 DEF Stage
<1> QED
  BY <1>2, <1>3, StepsArePairs DEF Steps, Behind, InGroup

(* A move changes one step of the group. *)
LEMMA MoveMeans ==
  ASSUME TypeOK, LoopInv, NEW i \in group, NEW from, NEW to \in Progress,
         Move(i, from, to)
  PROVE  /\ at = "join" /\ <<k, i>> \in Steps /\ InGroup(<<k, i>>)
         /\ step' \in [Steps -> {"idle"} \cup Progress]
         /\ step[<<k, i>>] = from /\ step'[<<k, i>>] = to
         /\ \A a \in Steps \ {<<k, i>>} : step'[a] = step[a]
         /\ UNCHANGED <<script, k, si, at, group, cancelled, verdict>>
<1>1. at = "join"
  BY DEF Move
<1>2. <<k, i>> \in Steps /\ InGroup(<<k, i>>)
  BY <1>1, GroupSteps
<1>3. step \in [Steps -> {"idle"} \cup Progress]
  BY StageTyped
<1>4. step' = [step EXCEPT ![<<k, i>>] = to]
  BY DEF Move
<1>5. /\ step' \in [Steps -> {"idle"} \cup Progress] /\ step'[<<k, i>>] = to
      /\ \A a \in Steps \ {<<k, i>>} : step'[a] = step[a]
  BY <1>2, <1>3, <1>4
<1> QED BY <1>1, <1>2, <1>5 DEF Move

(* A step in progress moves to the next of its states. *)
LEMMA StepMoves ==
  ASSUME TypeOK, LoopInv, NEW i \in group, Step(i)
  PROVE  /\ at = "join" /\ <<k, i>> \in Steps /\ InGroup(<<k, i>>)
         /\ step' \in [Steps -> {"idle"} \cup Progress]
         /\ step'[<<k, i>>] # "idle"
         /\ \/ step[<<k, i>>] = "spawned" /\ step'[<<k, i>>] = "running"
            \/ step[<<k, i>>] = "running" /\ step'[<<k, i>>] \in StepResults
            \/ step[<<k, i>>] = "ok" /\ step'[<<k, i>>] = "passed"
         /\ \A a \in Steps \ {<<k, i>>} : step'[a] = step[a]
         /\ UNCHANGED <<script, k, si, at, group, cancelled, verdict>>
<1>1. CASE SayExecuting(i)
  BY <1>1, MoveMeans DEF SayExecuting, Progress
<1>2. CASE StepReturns(i)
  <2>1. PICK r \in StepResults : Move(i, "running", r)
    BY <1>2 DEF StepReturns
  <2>2. r \in Progress /\ r # "idle"
    BY DEF Progress, StepResults
  <2> QED BY <2>1, <2>2, MoveMeans
<1>3. CASE SayPassed(i)
  BY <1>3, MoveMeans DEF SayPassed, Progress
<1> QED BY <1>1, <1>2, <1>3 DEF Step

-----------------------------------------------------------------------------
(* The steps of the loop. *)
LEMMA StepTyped ==
  ASSUME TypeOK, LoopInv, [Next]_vars
  PROVE  TypeOK'
<1>0. /\ script \in Seq(Seq(BOOLEAN)) /\ Len(script) \in Nat
      /\ k \in 1 .. Len(script) + 1 /\ step \in [Steps -> {"idle"} \cup Progress]
      /\ k <= Len(script) =>
             k \in 1 .. Len(script) /\ Stage \in Seq(BOOLEAN) /\ Len(Stage) \in Nat
  BY StageTyped
<1> DEFINE Rest == /\ script \in Scripts /\ si \in Nat /\ group \subseteq Nat
                   /\ at \in {"stage", "steps", "join", "returned"}
                   /\ cancelled \in BOOLEAN
                   /\ verdict \in {"none", "passed", "failed", "cancelled"}
<1>00. Rest /\ (at = "join" <=> group # {})
  BY DEF TypeOK
<1>1. CASE CancelRun
  BY <1>1 DEF CancelRun, TypeOK
<1>2. CASE EnterStage
  BY <1>2 DEF EnterStage, TypeOK
<1>3. CASE LeaveStage
  <2>1. k + 1 \in 1 .. Len(script) + 1
    BY <1>0, <1>3 DEF LeaveStage, LoopInv
  <2> QED BY <1>3, <2>1 DEF LeaveStage, TypeOK
<1>4. CASE ReturnNil
  BY <1>4 DEF ReturnNil, TypeOK
<1>5. CASE StartGroup
  <2>1. PICK m \in si .. Len(Stage) : NextGroup = si .. m
    BY <1>0, <1>5, GroupShape DEF StartGroup, LoopInv
  <2>2. NextGroup \subseteq Nat /\ NextGroup # {}
    <3>1. si \in Nat /\ m \in Nat /\ si <= m
      BY <1>0, <1>00, <1>5, <2>1 DEF LoopInv, StartGroup
    <3> QED BY <2>1, <3>1
  <2>3. step' \in [Steps -> {"idle"} \cup Progress]
    BY <1>0, <1>5 DEF StartGroup, Progress
  <2> QED BY <1>5, <2>2, <2>3 DEF StartGroup, TypeOK, Steps, Progress
<1>6. CASE Join
  <2>1. at = "join" /\ group' = {} /\ UNCHANGED <<script, k, step, cancelled>>
    BY <1>6 DEF Join
  <2>2. Max(group) + 1 \in Nat
    BY <1>0, <2>1, GroupTyped DEF LoopInv
  <2>3. \/ at' = "returned" /\ verdict' \in {"failed", "cancelled"} /\ si' = si
        \/ at' = "steps" /\ verdict' = verdict /\ si' = Max(group) + 1
    BY <1>6 DEF Join, Classify
  <2> QED BY <2>1, <2>2, <2>3 DEF TypeOK
<1>7. ASSUME NEW i \in group, Step(i) PROVE TypeOK'
  <2>1. /\ step' \in [Steps -> {"idle"} \cup Progress]
        /\ UNCHANGED <<script, k, si, at, group, cancelled, verdict>>
    BY <1>7, StepMoves
  <2> QED BY <2>1 DEF TypeOK, Steps, Progress
<1>8. CASE UNCHANGED vars
  BY <1>8 DEF vars, TypeOK
<1> QED
  BY <1>1, <1>2, <1>3, <1>4, <1>5, <1>6, <1>7, <1>8 DEF Next, Loop

(* What the group that was joined leaves to the loop. *)
LEMMA JoinMeans ==
  ASSUME TypeOK, LoopInv, Join
  PROVE  /\ at = "join" /\ group' = {} /\ UNCHANGED <<script, k, step, cancelled>>
         /\ \A a \in Steps : InGroup(a) => step[a] \in Missed \cup {"passed"}
         /\ \/ /\ at' = "returned" /\ si' = si /\ verdict' = Classify(group)
               /\ \E i \in group : step[<<k, i>>] \in Missed
            \/ /\ at' = "steps" /\ si' = Max(group) + 1 /\ verdict' = verdict
               /\ \A a \in Steps : InGroup(a) => step[a] = "passed"
<1>1. at = "join" /\ group' = {} /\ UNCHANGED <<script, k, step, cancelled>>
      /\ \A i \in group : step[<<k, i>>] \in Missed \cup {"passed"}
  BY DEF Join, GroupOver
<1>2. \A a \in Steps : InGroup(a) => a = <<k, a[2]>> /\ a[2] \in group
  BY StageTyped, StepsArePairs DEF Steps, InGroup
<1>3. CASE \E i \in group : step[<<k, i>>] \in Missed
  BY <1>1, <1>2, <1>3 DEF Join
<1>4. CASE ~\E i \in group : step[<<k, i>>] \in Missed
  BY <1>1, <1>2, <1>4 DEF Join
<1> QED BY <1>3, <1>4

(* Steps of a script have numbers for positions. *)
LEMMA Positions ==
  ASSUME TypeOK, NEW a \in Steps
  PROVE  /\ a = <<a[1], a[2]>> /\ a[1] \in Nat /\ a[2] \in Nat
         /\ a[1] \in 1 .. Len(script) /\ a[2] \in 1 .. Len(script[a[1]])
<1>1. script \in Seq(Seq(BOOLEAN))
  BY StageTyped
<1>2. /\ a = <<a[1], a[2]>>
      /\ a[1] \in 1 .. Len(script) /\ a[2] \in 1 .. Len(script[a[1]])
  BY <1>1, StepsArePairs DEF Steps
<1> QED BY <1>1, <1>2

(* Every step of the loop leaves passed steps behind it, and steps it has  *)
(* not started before it.                                                  *)
LEMMA StepLoop ==
  ASSUME TypeOK, LoopInv, [Next]_vars
  PROVE  LoopInv'
<1>0. /\ script \in Seq(Seq(BOOLEAN)) /\ Len(script) \in Nat
      /\ k \in 1 .. Len(script) + 1 /\ step \in [Steps -> {"idle"} \cup Progress]
      /\ k <= Len(script) =>
             k \in 1 .. Len(script) /\ Stage \in Seq(BOOLEAN) /\ Len(Stage) \in Nat
      /\ si \in Nat
  BY StageTyped DEF TypeOK
<1>00. \A a \in Steps : /\ a[1] \in Nat /\ a[2] \in Nat
                        /\ a = <<a[1], a[2]>>
                        /\ a[1] \in 1 .. Len(script) /\ a[2] \in 1 .. Len(script[a[1]])
  BY Positions
<1>1. CASE CancelRun
  BY <1>1 DEF CancelRun, LoopInv, Behind, InGroup, Steps, Stage, NextGroup
<1>2. CASE EnterStage
  <2>1. /\ at = "stage" /\ k <= Len(script) /\ si' = 1 /\ at' = "steps" /\ group = {}
        /\ UNCHANGED <<script, k, group, step, Steps, Stage>>
    BY <1>2 DEF EnterStage, LoopInv, Steps, Stage
  <2>2. si' \in 1 .. Len(Stage') + 1
    BY <1>0, <2>1
  <2>3. \A a \in Steps : (Behind(a) <=> Behind(a)') /\ ~InGroup(a) /\ ~InGroup(a)'
    BY <1>0, <1>00, <2>1 DEF Behind, InGroup
  <2> QED BY <2>1, <2>2, <2>3 DEF LoopInv
<1>3. CASE LeaveStage
  <2>1. /\ at = "steps" /\ si > Len(Stage) /\ k' = k + 1 /\ at' = "stage"
        /\ group = {} /\ k \in 1 .. Len(script) /\ Len(Stage) \in Nat
        /\ UNCHANGED <<script, si, group, step, Steps>>
    BY <1>0, <1>3 DEF LeaveStage, LoopInv, Steps
  <2>2. \A a \in Steps : (Behind(a) <=> Behind(a)') /\ ~InGroup(a) /\ ~InGroup(a)'
    <3>1. \A a \in Steps : a[1] = k => a[2] < si
      BY <1>0, <1>00, <2>1 DEF Stage
    <3> QED BY <1>0, <1>00, <2>1, <3>1 DEF Behind, InGroup
  <2> QED BY <2>1, <2>2 DEF LoopInv
<1>4. CASE ReturnNil
  BY <1>4 DEF ReturnNil, LoopInv
<1>5. CASE StartGroup
  <2>1. /\ at = "steps" /\ si <= Len(Stage) /\ k \in 1 .. Len(script)
        /\ si \in 1 .. Len(Stage) + 1 /\ at' = "join" /\ group' = NextGroup
        /\ group = {} /\ UNCHANGED <<script, k, si, Steps, Stage>>
        /\ NextGroup' = NextGroup
    BY <1>0, <1>5 DEF StartGroup, LoopInv, Steps, Stage, NextGroup
  <2>2. PICK m \in si .. Len(Stage) : NextGroup = si .. m
    BY <1>0, <2>1, GroupShape
  <2>3. \A a \in Steps : step'[a] = IF a[1] = k /\ a[2] \in NextGroup
                                     THEN "spawned" ELSE step[a]
    <3>1. step' = [a \in Steps |-> IF a \in {k} \X NextGroup THEN "spawned" ELSE step[a]]
      BY <1>0, <1>5 DEF StartGroup
    <3> QED BY <1>00, <3>1
  <2>4. \A a \in Steps : /\ Behind(a) <=> Behind(a)'
                         /\ Behind(a) => ~(a[1] = k /\ a[2] \in NextGroup)
                         /\ ~InGroup(a)
                         /\ InGroup(a)' <=> a[1] = k /\ a[2] \in NextGroup
    BY <1>0, <1>00, <2>1, <2>2 DEF Behind, InGroup
  <2>5. \A a \in Steps' : /\ Behind(a)' => step'[a] = "passed"
                          /\ InGroup(a)' => step'[a] # "idle"
                          /\ ~Behind(a)' /\ ~InGroup(a)' => step'[a] = "idle"
    BY <2>1, <2>3, <2>4 DEF LoopInv
  <2> QED BY <1>0, <2>1, <2>5 DEF LoopInv
<1>6. CASE Join
  <2>1. /\ at = "join" /\ group' = {} /\ UNCHANGED <<script, k, step, Steps, Stage>>
        /\ k \in 1 .. Len(script) /\ si \in 1 .. Len(Stage) + 1
    BY <1>0, <1>6, JoinMeans DEF Steps, Stage, LoopInv
  <2>2. CASE at' = "returned"
    BY <2>1, <2>2 DEF LoopInv
  <2>3. CASE at' = "steps"
    <3>1. si' = Max(group) + 1 /\ \A a \in Steps : InGroup(a) => step[a] = "passed"
      BY <1>6, <2>3, JoinMeans
    <3>2. PICK m \in si .. Len(Stage) : group = si .. m /\ Max(group) = m
      BY <2>1, GroupTyped
    <3>3. si' \in 1 .. Len(Stage') + 1
      BY <1>0, <2>1, <3>1, <3>2
    <3>4. \A a \in Steps : (Behind(a)' <=> Behind(a) \/ InGroup(a)) /\ ~InGroup(a)'
      BY <1>0, <1>00, <2>1, <2>3, <3>1, <3>2 DEF Behind, InGroup
    <3>5. \A a \in Steps' : /\ Behind(a)' => step'[a] = "passed"
                            /\ InGroup(a)' => step'[a] # "idle"
                            /\ ~Behind(a)' /\ ~InGroup(a)' => step'[a] = "idle"
      BY <2>1, <3>1, <3>4 DEF LoopInv
    <3> QED BY <1>0, <2>1, <2>3, <3>3, <3>5 DEF LoopInv
  <2> QED BY <1>6, <2>2, <2>3, JoinMeans
<1>7. ASSUME NEW i \in group, Step(i) PROVE LoopInv'
  <2>1. /\ at = "join" /\ <<k, i>> \in Steps /\ InGroup(<<k, i>>)
        /\ ~Behind(<<k, i>>) /\ step'[<<k, i>>] # "idle"
        /\ \A a \in Steps \ {<<k, i>>} : step'[a] = step[a]
        /\ UNCHANGED <<script, k, si, at, group, cancelled, verdict>>
    BY <1>7, StepMoves, GroupSteps
  <2>2. UNCHANGED <<Steps, Stage, NextGroup>>
        /\ \A a \in Steps : (Behind(a)' <=> Behind(a)) /\ (InGroup(a)' <=> InGroup(a))
    BY <2>1 DEF Steps, Stage, NextGroup, Behind, InGroup
  <2>3. \A a \in Steps' : /\ Behind(a)' => step'[a] = "passed"
                          /\ InGroup(a)' => step'[a] # "idle"
                          /\ ~Behind(a)' /\ ~InGroup(a)' => step'[a] = "idle"
    BY <2>1, <2>2 DEF LoopInv
  <2> QED BY <2>1, <2>2, <2>3 DEF LoopInv
<1>8. CASE UNCHANGED vars
  BY <1>8 DEF vars, LoopInv, Behind, InGroup, Steps, Stage, NextGroup
<1> QED
  BY <1>1, <1>2, <1>3, <1>4, <1>5, <1>6, <1>7, <1>8 DEF Next, Loop

(* A verdict is given once, when every step is idle or over. *)
LEMMA StepVerdict ==
  ASSUME TypeOK, LoopInv, VerdictInv, [Next]_vars
  PROVE  VerdictInv'
<1>1. CASE CancelRun
  BY <1>1 DEF CancelRun, VerdictInv, Steps
<1>2. CASE EnterStage
  BY <1>2 DEF EnterStage, VerdictInv
<1>3. CASE LeaveStage
  BY <1>3 DEF LeaveStage, VerdictInv
<1>4. CASE ReturnNil
  <2>1. /\ at = "stage" /\ k > Len(script) /\ at' = "returned" /\ verdict' = "passed"
        /\ UNCHANGED <<script, step, Steps>>
    BY <1>4 DEF ReturnNil, Steps
  <2>2. \A a \in Steps : Behind(a)
    BY <2>1, Positions, StageTyped DEF Behind
  <2>3. \A a \in Steps' : step'[a] = "passed"
    BY <2>1, <2>2 DEF LoopInv
  <2> QED BY <2>1, <2>3 DEF VerdictInv
<1>5. CASE StartGroup
  BY <1>5 DEF StartGroup, VerdictInv
<1>6. CASE Join
  <2>1. /\ at = "join" /\ UNCHANGED <<script, k, step, Steps>>
        /\ \A a \in Steps : InGroup(a) => step[a] \in Missed \cup {"passed"}
    BY <1>6, JoinMeans DEF Steps
  <2>2. CASE at' = "steps"
    <3>1. verdict' = verdict
      BY <1>6, <2>2, JoinMeans
    <3> QED BY <2>1, <2>2, <3>1 DEF VerdictInv
  <2>3. CASE at' = "returned"
    <3>1. verdict' \in {"failed", "cancelled"} /\ \E i \in group : step[<<k, i>>] \in Missed
      BY <1>6, <2>3, JoinMeans DEF Classify
    <3>2. \E a \in Steps : step[a] \in Missed
      BY <2>1, <3>1, GroupSteps
    <3>3. \A a \in Steps : step[a] \in {"idle", "passed"} \cup Missed
      BY <2>1 DEF LoopInv
    <3> QED BY <2>1, <2>3, <3>1, <3>2, <3>3 DEF VerdictInv
  <2> QED BY <1>6, <2>2, <2>3, JoinMeans
<1>7. ASSUME NEW i \in group, Step(i) PROVE VerdictInv'
  <2>1. at = "join" /\ UNCHANGED <<at, verdict>>
    BY <1>7, StepMoves
  <2> QED BY <2>1 DEF VerdictInv
<1>8. CASE UNCHANGED vars
  BY <1>8 DEF vars, VerdictInv, Steps
<1> QED
  BY <1>1, <1>2, <1>3, <1>4, <1>5, <1>6, <1>7, <1>8 DEF Next, Loop

-----------------------------------------------------------------------------
(* What comes before a step. *)

(* Steps of one group may overlap, so that what comes before one of them   *)
(* is behind the loop.                                                     *)
LEMMA BeforeGroup ==
  ASSUME TypeOK, at # "stage", NEW m \in Nat, si <= m,
         Stage[si] => \A j \in si .. m : Stage[j],
         ~Stage[si] => m = si,
         NEW a \in Steps, NEW b \in Steps, b[1] = k, b[2] \in si .. m,
         Order!Before(a, b)
  PROVE  Behind(a)
<1>1. /\ a[1] \in Nat /\ a[2] \in Nat /\ b[2] \in Nat /\ k \in Nat /\ si \in Nat
  BY Positions, StageTyped DEF TypeOK
<1>2. a[1] < k \/ (a[1] = k /\ a[2] < b[2])
  BY <1>1 DEF Order!Before
<1>3. ASSUME a[1] = k, a[2] < b[2], a[2] >= si PROVE FALSE
  <2>1. Stage[si]
    BY <1>1, <1>3
  <2>2. \A i \in 1 .. Len(script[k]) :
            (a[2] <= i /\ i <= b[2]) \/ (b[2] <= i /\ i <= a[2]) => script[k][i]
    BY <1>1, <1>3, <2>1 DEF Stage
  <2>3. Order!MayOverlap(a, b)
    BY <1>3, <2>2 DEF Order!MayOverlap
  <2> QED BY <2>3 DEF Order!Before
<1> QED BY <1>1, <1>2, <1>3 DEF Behind

(* A step that is not parallel comes after everything behind it. *)
LEMMA BeforeSequential ==
  ASSUME TypeOK, at # "stage", NEW a \in Steps, NEW b \in Steps,
         b = <<k, si>>, ~Stage[si]
  PROVE  Order!Before(a, b) <=> Behind(a)
<1>1. /\ a[1] \in Nat /\ a[2] \in Nat /\ k \in Nat /\ si \in Nat
      /\ b[1] = k /\ b[2] = si /\ si \in 1 .. Len(script[k])
  BY Positions, StageTyped DEF TypeOK
<1>2. ~Order!MayOverlap(a, b)
  BY <1>1 DEF Order!MayOverlap, Stage
<1> QED BY <1>1, <1>2 DEF Order!Before, Behind

(* Only the return of a step that is not parallel makes a verdict of       *)
(* "cancelled", and then the rest of the script was passed or not begun.   *)
LEMMA StepCancelled ==
  ASSUME TypeOK, LoopInv, VerdictInv, CancelledBySequentialStep, [Next]_vars
  PROVE  CancelledBySequentialStep'
<1>0. DOMAIN step = Steps
  BY StageTyped
<1>1. CASE CancelRun \/ UNCHANGED vars
  <2>1. UNCHANGED <<script, step, verdict>>
    BY <1>1 DEF CancelRun, vars
  <2> QED
    BY <2>1 DEF CancelledBySequentialStep, Order!Before, Order!MayOverlap
<1>2. CASE EnterStage \/ LeaveStage \/ ReturnNil \/ StartGroup
  <2>1. verdict' # "cancelled"
    BY <1>2 DEF EnterStage, LeaveStage, ReturnNil, StartGroup, VerdictInv
  <2> QED BY <2>1 DEF CancelledBySequentialStep
<1>3. ASSUME NEW i \in group, Step(i) PROVE CancelledBySequentialStep'
  <2>1. at = "join" /\ UNCHANGED verdict
    BY <1>3, StepMoves
  <2> QED BY <2>1 DEF CancelledBySequentialStep, VerdictInv
<1>4. CASE Join
  <2> SUFFICES ASSUME verdict' = "cancelled"
               PROVE  CancelledBySequentialStep'
    BY DEF CancelledBySequentialStep
  <2>1. at = "join" /\ verdict = "none" /\ UNCHANGED <<script, k, step>>
    BY <1>4, JoinMeans DEF VerdictInv
  <2>2. verdict' = Classify(group)
    BY <1>4, <2>1, JoinMeans
  <2>3. PICK i \in group : step[<<k, i>>] = "cancel"
    BY <2>2 DEF Classify
  <2>4. ~Stage[si]
    BY <2>2 DEF Classify
  <2>5. group = {si}
    <3>1. group = si .. si
      BY <2>1, <2>4, GroupTyped
    <3>2. si \in Nat
      BY DEF TypeOK
    <3> QED BY <3>1, <3>2
  <2> DEFINE a == <<k, si>>
  <2>6. a \in Steps /\ step[a] = "cancel" /\ ~script[a[1]][a[2]] /\ ~Behind(a)
    BY <2>1, <2>3, <2>4, <2>5, GroupSteps DEF Stage
  <2>7. ASSUME NEW b \in Steps, b # a
        PROVE  step[b] = IF Order!Before(b, a) THEN "passed" ELSE "idle"
    <3>1. ~InGroup(b)
      BY <2>5, <2>7, Positions DEF InGroup
    <3>2. Order!Before(b, a) <=> Behind(b)
      BY <2>1, <2>4, <2>6, BeforeSequential
    <3> QED BY <2>1, <3>1, <3>2 DEF LoopInv
  <2>8. \E c \in DOMAIN step :
           /\ step[c] = "cancel" /\ ~script[c[1]][c[2]]
           /\ \A b \in DOMAIN step :
                 b # c => step[b] = IF Order!Before(b, c) THEN "passed" ELSE "idle"
    BY <1>0, <2>6, <2>7
  <2> QED
    BY <2>1, <2>8 DEF CancelledBySequentialStep, Order!Before, Order!MayOverlap
<1> QED BY <1>1, <1>2, <1>3, <1>4 DEF Next, Loop

-----------------------------------------------------------------------------
(* The invariant. *)
LEMMA InitHolds ==
  ASSUME Init
  PROVE  ScriptInv
<1>1. script \in Seq(Seq(BOOLEAN)) /\ Len(script) \in Nat
  BY ScriptsAssumption DEF Init
<1>2. \A a \in Steps : step[a] = "idle" /\ a[1] >= 1
  BY <1>1, StepsArePairs DEF Init, Steps
<1>3. TypeOK
  BY <1>1 DEF Init, TypeOK
<1>4. LoopInv
  BY <1>2, <1>3, Positions DEF Init, LoopInv, Behind, InGroup
<1>5. VerdictInv /\ CancelledBySequentialStep
  BY DEF Init, VerdictInv, CancelledBySequentialStep
<1> QED BY <1>3, <1>4, <1>5 DEF ScriptInv

(* Where the loop is, and what it made of the steps, is known throughout.  *)
LEMMA ScriptInvariant == Spec => []ScriptInv
<1>1. ScriptInv /\ [Next]_vars => ScriptInv'
  BY StepTyped, StepLoop, StepVerdict, StepCancelled DEF ScriptInv
<1> QED BY InitHolds, <1>1, PTL DEF Spec

(* The loop's variables keep their types; it waits just when a group is in *)
(* progress.                                                               *)
THEOREM ScriptTypeCorrect == Spec => []TypeOK
<1>1. ScriptInv => TypeOK
  BY DEF ScriptInv
<1> QED BY <1>1, ScriptInvariant, PTL

(* A run ends as cancelled only through the one step that is not parallel  *)
(* and said so, with everything before it passed and nothing after begun.  *)
THEOREM CancelledOnlyBySequentialSteps == Spec => []CancelledBySequentialStep
<1>1. ScriptInv => CancelledBySequentialStep
  BY DEF ScriptInv
<1> QED BY <1>1, ScriptInvariant, PTL

-----------------------------------------------------------------------------
(* The order the script means. *)

(* The steps as PipelineOrder sees them. *)
Begun == {a \in DOMAIN step : step[a] # "idle"}
Passed == {a \in DOMAIN step : step[a] = "passed"}
Failed == {a \in DOMAIN step : step[a] \in Missed}

(* A step of the loop that changes neither the verdict nor what was begun, *)
(* passed and missed is no step of the order.                              *)
LEMMA NothingOrdered ==
  ASSUME UNCHANGED <<script, step, verdict>>
  PROVE  UNCHANGED Order!vars
BY DEF Order!vars

(* The steps of a new group are steps of the script that nothing began.   *)
LEMMA GroupIsIdle ==
  ASSUME TypeOK, LoopInv, StartGroup
  PROVE  \A i \in NextGroup : <<k, i>> \in Steps /\ step[<<k, i>>] = "idle"
<1>1. /\ at = "steps" /\ k \in 1 .. Len(script) /\ group = {}
      /\ si \in 1 .. Len(Stage) /\ script \in Seq(Seq(BOOLEAN))
      /\ Stage \in Seq(BOOLEAN) /\ Len(Stage) \in Nat
  BY StageTyped DEF StartGroup, LoopInv
<1>2. PICK m \in si .. Len(Stage) : NextGroup = si .. m
  BY <1>1, GroupShape
<1>3. \A i \in NextGroup : i \in 1 .. Len(script[k]) /\ si <= i /\ i \in Nat
  BY <1>1, <1>2 DEF Stage
<1> SUFFICES ASSUME NEW i \in NextGroup
             PROVE  <<k, i>> \in Steps /\ step[<<k, i>>] = "idle"
  OBVIOUS
<1>4. <<k, i>> \in Steps
  BY <1>1, <1>3, StepsArePairs DEF Steps
<1>5. ~Behind(<<k, i>>) /\ ~InGroup(<<k, i>>)
  BY <1>1, <1>3 DEF Behind, InGroup
<1> QED BY <1>1, <1>4, <1>5 DEF LoopInv

(* Starting a group begins steps that all have passed steps before them.   *)
LEMMA GroupBegins ==
  ASSUME TypeOK, LoopInv, VerdictInv, StartGroup
  PROVE  \E S \in SUBSET Steps : Order!Begin(S)
<1>1. /\ at = "steps" /\ si <= Len(Stage) /\ k \in 1 .. Len(script) /\ group = {}
      /\ si \in 1 .. Len(Stage) /\ script \in Seq(Seq(BOOLEAN))
      /\ DOMAIN step = Steps /\ verdict = "none" /\ si \in Nat
      /\ UNCHANGED <<script, verdict>>
  BY StageTyped DEF StartGroup, LoopInv, VerdictInv, TypeOK
<1>2. PICK m \in si .. Len(Stage) :
         /\ NextGroup = si .. m
         /\ Stage[si] => \A j \in si .. m : Stage[j]
         /\ ~Stage[si] => m = si
  BY <1>1, GroupShape
<1>3. m \in Nat /\ si <= m
  BY <1>1, <1>2
<1> DEFINE S == {k} \X NextGroup
<1>4. \A b \in S : b[1] = k /\ b[2] \in si .. m /\ b \in Steps
  <2>1. \A i \in si .. m : i \in 1 .. Len(script[k])
    BY <1>1, <1>2 DEF Stage
  <2>2. \A i \in NextGroup : i \in si .. m /\ <<k, i>> \in Steps
    BY <1>1, <1>2, <2>1, StepsArePairs DEF Steps
  <2>3. \A b \in S : b = <<k, b[2]>> /\ b[2] \in NextGroup /\ b[1] = k
    OBVIOUS
  <2> QED BY <2>2, <2>3
<1>5. S # {}
  <2>1. si \in NextGroup
    BY <1>1, <1>2, <1>3
  <2>2. <<k, si>> \in S
    BY <2>1
  <2> QED BY <2>2
<1>6. \A b \in S : step[b] = "idle"
  BY GroupIsIdle
<1>7. \A b \in S : \A a \in Steps : Order!Before(a, b) => step[a] = "passed"
  <2>1. ASSUME NEW b \in S, NEW a \in Steps, Order!Before(a, b)
        PROVE  Behind(a)
    BY <1>1, <1>2, <1>3, <1>4, <2>1, BeforeGroup
  <2> QED BY <1>1, <2>1 DEF LoopInv
<1>8. step' = [a \in Steps |-> IF a \in S THEN "spawned" ELSE step[a]]
  BY <1>1 DEF StartGroup
<1> HIDE DEF S
<1>9. Begun' = Begun \cup S /\ Passed' = Passed /\ Failed' = Failed
  BY <1>1, <1>4, <1>6, <1>8 DEF Begun, Passed, Failed, Missed
<1>10. S \subseteq Steps \ Begun
  BY <1>4, <1>6 DEF Begun
<1>11. \A b \in S : \A a \in Steps : Order!Before(a, b) => a \in Passed
  BY <1>1, <1>7 DEF Passed
<1>12. Order!Begin(S)
  BY <1>1, <1>5, <1>9, <1>10, <1>11 DEF Order!Begin, Begun, Passed, Failed, Steps
<1> QED BY <1>4, <1>12 DEF Order!Begin

(* A step of a group that moves on passes, misses, or is still in progress.*)
LEMMA MoveOrdered ==
  ASSUME TypeOK, LoopInv, VerdictInv, NEW i \in group, Step(i)
  PROVE  \/ \E a \in Steps : Order!Pass(a) \/ Order!Miss(a)
         \/ UNCHANGED Order!vars
<1> DEFINE a == <<k, i>>
<1>1. /\ at = "join" /\ a \in Steps /\ verdict = "none"
      /\ \/ step[a] = "spawned" /\ step'[a] = "running"
         \/ step[a] = "running" /\ step'[a] \in StepResults
         \/ step[a] = "ok" /\ step'[a] = "passed"
      /\ \A b \in Steps \ {a} : step'[b] = step[b]
      /\ UNCHANGED <<script, verdict>>
  BY StepMoves DEF VerdictInv
<1>2. DOMAIN step = Steps /\ DOMAIN step' = Steps
  BY StageTyped, StepMoves
<1> HIDE DEF a
<1>3. Begun' = Begun /\ a \in Begun \ (Passed \cup Failed)
  BY <1>1, <1>2 DEF Begun, Passed, Failed, StepResults, Missed
<1>4. CASE step'[a] \in {"running", "ok"}
  <2>1. Passed' = Passed /\ Failed' = Failed
    BY <1>1, <1>2, <1>4 DEF Passed, Failed, Missed
  <2> QED BY <1>1, <1>3, <2>1 DEF Order!vars, Begun, Passed, Failed
<1>5. CASE step'[a] = "passed"
  <2>1. Passed' = Passed \cup {a} /\ Failed' = Failed
    BY <1>1, <1>2, <1>5 DEF Passed, Failed, Missed, StepResults
  <2>2. Order!Pass(a)
    BY <1>1, <1>3, <2>1 DEF Order!Pass, Begun, Passed, Failed
  <2> QED BY <1>1, <2>2 DEF Order!Pass
<1>6. CASE step'[a] \in Missed
  <2>1. Passed' = Passed /\ Failed' = Failed \cup {a}
    BY <1>1, <1>2, <1>6 DEF Passed, Failed, Missed
  <2>2. Order!Miss(a)
    BY <1>1, <1>3, <2>1 DEF Order!Miss, Begun, Passed, Failed
  <2> QED BY <1>1, <2>2 DEF Order!Miss
<1> QED BY <1>1, <1>4, <1>5, <1>6 DEF StepResults, Missed

(* The loop's return is the verdict of the order. *)
LEMMA ReturnConcludes ==
  ASSUME TypeOK, VerdictInv, VerdictInv', TypeOK',
         at # "returned", at' = "returned", UNCHANGED <<script, step>>
  PROVE  Order!Conclude(verdict')
<1>1. /\ verdict = "none" /\ verdict' \in {"passed", "failed", "cancelled"}
      /\ DOMAIN step = Steps /\ Steps' = Steps
  BY StageTyped DEF VerdictInv, TypeOK, Steps
<1>2. \A a \in Steps : step[a] \in {"idle", "passed"} \cup Missed
  BY <1>1 DEF VerdictInv
<1>3. Begun = Passed \cup Failed
  BY <1>1, <1>2 DEF Begun, Passed, Failed, Missed
<1>4. IF verdict' = "passed" THEN Passed = Steps ELSE Failed # {}
  BY <1>1 DEF VerdictInv, Passed, Failed
<1> QED
  BY <1>1, <1>3, <1>4 DEF Order!Conclude, Begun, Passed, Failed, Steps

(* Every step of the loop is a step of the order, or none. *)
LEMMA StepOrdered ==
  ASSUME ScriptInv, ScriptInv', [Next]_vars
  PROVE  [Order!Next]_(Order!vars)
<1> USE DEF ScriptInv
<1>1. CASE CancelRun \/ EnterStage \/ LeaveStage \/ UNCHANGED vars
  <2>1. UNCHANGED <<script, step, verdict>>
    BY <1>1 DEF CancelRun, EnterStage, LeaveStage, vars
  <2> QED BY <2>1, NothingOrdered
<1>2. CASE StartGroup
  BY <1>2, GroupBegins DEF Order!Next, Steps
<1>3. ASSUME NEW i \in group, Step(i) PROVE [Order!Next]_(Order!vars)
  BY <1>3, MoveOrdered DEF Order!Next, Steps
<1>4. CASE ReturnNil \/ (Join /\ at' = "returned")
  <2>1. at # "returned" /\ at' = "returned" /\ UNCHANGED <<script, step>>
    BY <1>4, JoinMeans DEF ReturnNil
  <2>2. Order!Conclude(verdict')
    BY <2>1, ReturnConcludes
  <2>3. verdict' \in {"passed", "failed", "cancelled"}
    BY <2>1 DEF VerdictInv, TypeOK
  <2> QED BY <2>2, <2>3 DEF Order!Next
<1>5. CASE Join /\ at' # "returned"
  <2>1. UNCHANGED <<script, step, verdict>>
    BY <1>5, JoinMeans
  <2> QED BY <2>1, NothingOrdered
<1> QED BY <1>1, <1>2, <1>3, <1>4, <1>5 DEF Next, Loop

(* The loop implements the order the script means: no step before those it *)
(* comes after have passed, no verdict while a step is in progress, no pass*)
(* with a step left out.                                                   *)
THEOREM LoopImplementsOrder == Spec => ImplementsOrder
<1>1. Init => Order!Init
  <2>1. ASSUME Init PROVE Order!Init
    <3>1. DOMAIN step = Steps /\ \A a \in Steps : step[a] = "idle"
      BY <2>1 DEF Init, Steps
    <3> QED BY <2>1, <3>1 DEF Init, Order!Init, Missed
  <2> QED BY <2>1
<1>2. ScriptInv /\ ScriptInv' /\ [Next]_vars => [Order!Next]_(Order!vars)
  BY StepOrdered
<1> QED
  BY <1>1, <1>2, ScriptInvariant, PTL DEF Spec, ImplementsOrder, Order!Spec

(* No step was begun before every step it comes after had passed.          *)
BegunInOrder ==
    \A a \in Steps : \A b \in Steps :
        Order!Before(a, b) /\ step[b] # "idle" => step[a] = "passed"

(* As long as the loop goes on, its position says so. *)
LEMMA LoopInOrder ==
  ASSUME TypeOK, LoopInv, at # "returned"
  PROVE  BegunInOrder
<1> SUFFICES ASSUME NEW a \in Steps, NEW b \in Steps,
                    Order!Before(a, b), step[b] # "idle"
             PROVE  Behind(a)
  BY DEF BegunInOrder, LoopInv
<1>1. /\ a[1] \in Nat /\ a[2] \in Nat /\ b[1] \in Nat /\ b[2] \in Nat
      /\ k \in Nat /\ si \in Nat
  BY Positions, StageTyped DEF TypeOK
<1>2. a[1] < b[1] \/ (a[1] = b[1] /\ a[2] < b[2])
  BY <1>1 DEF Order!Before
<1>3. CASE Behind(b)
  BY <1>1, <1>2, <1>3 DEF Behind
<1>4. CASE ~Behind(b)
  <2>1. InGroup(b) /\ at = "join"
    BY <1>4 DEF LoopInv, InGroup
  <2>2. PICK m \in si .. Len(Stage) :
           /\ group = si .. m
           /\ Stage[si] => \A j \in si .. m : Stage[j]
           /\ ~Stage[si] => m = si
    BY <2>1, GroupTyped
  <2>3. m \in Nat /\ si <= m
    BY <1>1, <2>2
  <2> QED BY <2>1, <2>2, <2>3, BeforeGroup DEF InGroup
<1> QED BY <1>3, <1>4

(* Steps begin in the order of the script, also when the loop returned     *)
(* because a step did not pass: what came after that one stays unbegun.    *)
THEOREM StepsBeginInOrder == Spec => []BegunInOrder
<1>1. Init => BegunInOrder
  BY InitHolds, LoopInOrder DEF Init, ScriptInv
<1>2. TypeOK /\ LoopInv /\ at # "returned" => BegunInOrder
  BY LoopInOrder
<1>3. (TypeOK /\ LoopInv /\ at # "returned" => BegunInOrder)'
  BY <1>2, PTL
<1>4. ScriptInv /\ ScriptInv' /\ BegunInOrder /\ [Next]_vars => BegunInOrder'
  <2> SUFFICES ASSUME ScriptInv, ScriptInv', BegunInOrder, [Next]_vars
               PROVE  BegunInOrder'
    OBVIOUS
  <2>1. CASE at' # "returned"
    BY <1>3, <2>1 DEF ScriptInv
  <2>2. CASE at' = "returned"
    <3>1. UNCHANGED <<script, step>>
      <4>1. ASSUME NEW i \in group, Step(i) PROVE at' # "returned"
        BY <4>1, StepMoves DEF ScriptInv
      <4> QED
        BY <2>2, <4>1
        DEF Next, Loop, vars, CancelRun, EnterStage, LeaveStage, ReturnNil,
            StartGroup, Join
    <3> QED
      BY <3>1 DEF BegunInOrder, Steps, Order!Before, Order!MayOverlap
  <2> QED BY <2>1, <2>2
<1> QED BY <1>1, <1>4, ScriptInvariant, PTL DEF Spec

-----------------------------------------------------------------------------
(* What a step goes through: it is started and executed at most once, and  *)
(* the results other than "ok" are final.                                  *)
Forward == ({"idle"} \X {"spawned"}) \cup ({"spawned"} \X {"running"})
           \cup ({"running"} \X StepResults) \cup ({"ok"} \X {"passed"})

StepsMove ==
    \A a \in Steps : step'[a] # step[a] => <<step[a], step'[a]>> \in Forward

(* The position of the loop: first the stage, then within it the group.    *)
LoopMoves ==
    \/ UNCHANGED <<k, si, at>>
    \/ k' = k + 1 /\ at = "steps" /\ at' = "stage"
    \/ k' = k /\ at = "stage" /\ at' = "steps" /\ si' = 1
    \/ k' = k /\ at = "steps" /\ at' = "join" /\ si' = si
    \/ k' = k /\ at = "join" /\ at' = "steps" /\ si' \in si + 1 .. Len(Stage) + 1
    \/ k' = k /\ at \in {"stage", "join"} /\ at' = "returned"

(* Each action of the loop goes one way. *)
LEMMA LoopGoesForward ==
  ASSUME TypeOK, LoopInv, [Next]_vars
  PROVE  StepsMove /\ LoopMoves
<1>1. CASE CancelRun \/ EnterStage \/ LeaveStage \/ ReturnNil \/ UNCHANGED vars
  BY <1>1
  DEF CancelRun, EnterStage, LeaveStage, ReturnNil, vars, StepsMove, LoopMoves
<1>2. CASE StartGroup
  <2>1. step \in [Steps -> {"idle"} \cup Progress] /\ LoopMoves
    BY <1>2, StageTyped DEF StartGroup, LoopMoves
  <2>2. \A a \in Steps :
           \/ step'[a] = step[a]
           \/ a \in {k} \X NextGroup /\ step'[a] = "spawned"
    BY <1>2, <2>1 DEF StartGroup
  <2>3. \A a \in {k} \X NextGroup : step[a] = "idle"
    <3>1. \A a \in {k} \X NextGroup : a = <<k, a[2]>> /\ a[2] \in NextGroup
      OBVIOUS
    <3> QED BY <1>2, <3>1, GroupIsIdle
  <2> QED BY <2>1, <2>2, <2>3 DEF StepsMove, Forward
<1>3. CASE Join
  <2>1. UNCHANGED <<script, k, step>>
    BY <1>3, JoinMeans
  <2>2. CASE at' = "returned"
    BY <1>3, <2>1, <2>2, JoinMeans DEF StepsMove, LoopMoves
  <2>3. CASE at' # "returned"
    <3>1. at = "join" /\ at' = "steps" /\ si' = Max(group) + 1
      BY <1>3, <2>3, JoinMeans
    <3>2. PICK m \in si .. Len(Stage) : Max(group) = m
      BY <3>1, GroupTyped
    <3>3. si \in Nat /\ Len(Stage) \in Nat
      BY <3>1, StageTyped DEF TypeOK, LoopInv
    <3>4. si' \in si + 1 .. Len(Stage) + 1
      BY <3>1, <3>2, <3>3
    <3> QED BY <2>1, <3>1, <3>4 DEF StepsMove, LoopMoves
  <2> QED BY <2>2, <2>3
<1>4. ASSUME NEW i \in group, Step(i) PROVE StepsMove /\ LoopMoves
  BY <1>4, StepMoves DEF StepsMove, LoopMoves, Forward
<1> QED BY <1>1, <1>2, <1>3, <1>4 DEF Next, Loop

(* No step of a script is started or executed twice, and none goes on      *)
(* after its result, however groups overlap and whenever the run is        *)
(* cancelled (executePipelineScriptOnController).                          *)
THEOREM StepsRunOnce == Spec => [][StepsMove]_vars
<1>1. ScriptInv /\ [Next]_vars => [StepsMove]_vars
  BY LoopGoesForward DEF ScriptInv
<1> QED BY <1>1, ScriptInvariant, PTL DEF Spec

(* The position in the script never goes back, and each join takes it past *)
(* the group: the safety half of ScriptEnds, since stages and steps are    *)
(* finitely many.                                                          *)
THEOREM LoopNeverGoesBack == Spec => [][LoopMoves]_vars
<1>1. ScriptInv /\ [Next]_vars => [LoopMoves]_vars
  BY LoopGoesForward DEF ScriptInv
<1> QED BY <1>1, ScriptInvariant, PTL DEF Spec
=============================================================================
