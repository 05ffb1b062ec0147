------------------------- MODULE StepExecutionProofs -------------------------
(***************************************************************************)
(* What a step returns agrees with its command, and a passed step has sent *)
(* all its scanners read, for any streams, numbers of lines and timeouts.  *)
(***************************************************************************)
EXTENDS StepExecution, TLAPS

(* Where the command is when the goroutine is at a statement: it leaves    *)
(* Wait with the verdict of the exit, and nothing changes a command that   *)
(* has ended, or one that was never started.                               *)
Passing == command = "exited0"
Missing == command \in {"off", "exited1", "killed"}

CommandInv ==
    /\ g = "start" => command = "off" /\ scanning = {}
    /\ g = "wait" => command # "off"
    /\ g \in {"drain", "sendNil"} => Passing
    /\ g \in {"start", "sendError"} => Missing
    /\ g \in {"start", "wait", "drain", "sendNil", "sendError"} => doneCh = "empty"

(* The channel holds the goroutine's verdict, and the waiter has no other  *)
(* "ok" or "error" to return.                                              *)
ResultInv ==
    /\ doneCh = "ok" => Passing
    /\ doneCh = "error" => Missing
    /\ doneCh # "empty" => g \in {"release", "end"}
    /\ result \in {"ok", "error"} => doneCh = result

(* No line is lost or made up between the command and the log, except what *)
(* nobody reads from the pipe any more; a line in a buffer has its scanner.*)
LinesInv ==
    \A s \in Streams :
        /\ written[s] = pipe[s] + buffer[s] + sent[s]
        /\ buffer[s] > 0 => s \in scanning

(* The goroutine joins the scanners before it says that the step passed.   *)
JoinedInv == g = "sendNil" \/ doneCh = "ok" => scanning = {}

(* The waiter has a result just when it has returned. *)
WaiterInv == result = "none" <=> waiter = "select"

StepInv == TypeOK /\ CommandInv /\ ResultInv /\ LinesInv /\ JoinedInv /\ WaiterInv

-----------------------------------------------------------------------------
(* A step begins with everything at rest. *)
LEMMA InitHolds ==
  ASSUME Init
  PROVE  StepInv
<1> USE StepAssumption DEF Init
<1>1. TypeOK
  <2>1. \A f \in {written, pipe, buffer, sent} : f \in [Streams -> 0 .. MaxLines]
    OBVIOUS
  <2>2. expired \in BOOLEAN
    BY Zenon
  <2> QED BY <2>1, <2>2 DEF TypeOK
<1>2. CommandInv /\ ResultInv /\ JoinedInv /\ WaiterInv
  BY DEF CommandInv, ResultInv, JoinedInv, WaiterInv, Missing
<1>3. LinesInv
  <2>1. ASSUME NEW s \in Streams
        PROVE  /\ written[s] = pipe[s] + buffer[s] + sent[s]
               /\ ~(buffer[s] > 0)
    <3>1. written[s] = 0 /\ pipe[s] = 0 /\ buffer[s] = 0 /\ sent[s] = 0
      OBVIOUS
    <3> QED BY <3>1
  <2> QED BY <2>1 DEF LinesInv
<1> QED BY <1>1, <1>2, <1>3 DEF StepInv

(* The steps by their actors, for the lemmas below. *)
LEMMA StepCases ==
  ASSUME [Next]_vars
  PROVE  \/ CancelRun \/ TimerFires \/ Exit \/ Kill
         \/ StartCommand \/ WaitForCommand \/ JoinScanners \/ SendResult \/ Release
         \/ TimeoutCase \/ CancelCase \/ DoneCase
         \/ \E s \in Streams : Write(s) \/ Read(s) \/ SendLine(s) \/ EndScan(s)
         \/ UNCHANGED vars
BY DEF Next, Goroutine, Waiter, Scanner

(* Every step keeps the types; what is counted stays below what was written. *)
LEMMA StepTyped ==
  ASSUME TypeOK, LinesInv, [Next]_vars
  PROVE  TypeOK'
<1> USE StepAssumption DEF TypeOK, Ended
<1>1. CASE CancelRun
  BY <1>1 DEF CancelRun, contexts, process, streams
<1>2. CASE TimerFires
  BY <1>2 DEF TimerFires, contexts, process, streams
<1>3. CASE Exit
  BY <1>3 DEF Exit, contexts, process, streams
<1>4. CASE Kill
  BY <1>4 DEF Kill, contexts, process, streams
<1>5. CASE StartCommand
  BY <1>5 DEF StartCommand, contexts, process, streams
<1>6. CASE WaitForCommand
  BY <1>6 DEF WaitForCommand, contexts, process, streams
<1>7. CASE JoinScanners
  BY <1>7 DEF JoinScanners, contexts, process, streams
<1>8. CASE SendResult
  BY <1>8 DEF SendResult, contexts, process, streams
<1>9. CASE Release
  BY <1>9 DEF Release, contexts, process, streams
<1>10. CASE TimeoutCase
  BY <1>10 DEF TimeoutCase, Return, contexts, process, streams
<1>11. CASE CancelCase
  BY <1>11 DEF CancelCase, Return, contexts, process, streams
<1>12. CASE DoneCase
  BY <1>12 DEF DoneCase, Return, contexts, process, streams
<1>13. ASSUME NEW s \in Streams, Write(s) PROVE TypeOK'
  <2>1. /\ written \in [Streams -> 0 .. MaxLines] /\ pipe \in [Streams -> 0 .. MaxLines]
        /\ buffer \in [Streams -> 0 .. MaxLines] /\ sent \in [Streams -> 0 .. MaxLines]
        /\ written[s] = pipe[s] + buffer[s] + sent[s]
    BY DEF TypeOK, LinesInv
  <2>2. written[s] + 1 \in 0 .. MaxLines /\ pipe[s] + 1 \in 0 .. MaxLines
    BY <1>13, <2>1 DEF Write
  <2>3. written' \in [Streams -> 0 .. MaxLines] /\ pipe' \in [Streams -> 0 .. MaxLines]
    BY <1>13, <2>1, <2>2 DEF Write
  <2> QED
    BY <1>13, <2>1, <2>3 DEF Write, contexts
<1>14. ASSUME NEW s \in Streams, Read(s) PROVE TypeOK'
  BY <1>14 DEF Read, contexts, process, streams
<1>15. ASSUME NEW s \in Streams, SendLine(s) PROVE TypeOK'
  <2>1. /\ written \in [Streams -> 0 .. MaxLines] /\ pipe \in [Streams -> 0 .. MaxLines]
        /\ buffer \in [Streams -> 0 .. MaxLines] /\ sent \in [Streams -> 0 .. MaxLines]
        /\ written[s] = pipe[s] + buffer[s] + sent[s]
    BY DEF TypeOK, LinesInv
  <2>2. buffer[s] - 1 \in 0 .. MaxLines /\ sent[s] + 1 \in 0 .. MaxLines
    BY <1>15, <2>1 DEF SendLine
  <2>3. buffer' \in [Streams -> 0 .. MaxLines] /\ sent' \in [Streams -> 0 .. MaxLines]
    BY <1>15, <2>1, <2>2 DEF SendLine
  <2> QED
    BY <1>15, <2>1, <2>3 DEF SendLine, contexts, process
<1>16. ASSUME NEW s \in Streams, EndScan(s) PROVE TypeOK'
  BY <1>16 DEF EndScan, contexts, process, streams
<1>17. CASE UNCHANGED vars
  BY <1>17 DEF vars, contexts, process, streams
<1> QED
  BY <1>1, <1>2, <1>3, <1>4, <1>5, <1>6, <1>7, <1>8, <1>9,
     <1>10, <1>11, <1>12, <1>13, <1>14, <1>15, <1>16, <1>17, StepCases

(* Every step keeps the goroutine with its command. *)
LEMMA StepCommand ==
  ASSUME TypeOK, CommandInv, [Next]_vars
  PROVE  CommandInv'
<1> USE DEF TypeOK, CommandInv, Passing, Missing, Ended
<1>1. CASE CancelRun
  BY <1>1 DEF CancelRun, contexts, process, streams
<1>2. CASE TimerFires
  BY <1>2 DEF TimerFires, contexts, process, streams
<1>3. CASE Exit
  BY <1>3 DEF Exit, contexts, process, streams
<1>4. CASE Kill
  BY <1>4 DEF Kill, contexts, process, streams
<1>5. CASE StartCommand
  BY <1>5 DEF StartCommand, contexts, process, streams
<1>6. CASE WaitForCommand
  BY <1>6 DEF WaitForCommand, contexts, process, streams
<1>7. CASE JoinScanners
  BY <1>7 DEF JoinScanners, contexts, process, streams
<1>8. CASE SendResult
  BY <1>8 DEF SendResult, contexts, process, streams
<1>9. CASE Release
  BY <1>9 DEF Release, contexts, process, streams
<1>10. CASE TimeoutCase
  BY <1>10 DEF TimeoutCase, Return, contexts, process, streams
<1>11. CASE CancelCase
  BY <1>11 DEF CancelCase, Return, contexts, process, streams
<1>12. CASE DoneCase
  BY <1>12 DEF DoneCase, Return, contexts, process, streams
<1>13. ASSUME NEW s \in Streams, Write(s) PROVE CommandInv'
  BY <1>13 DEF Write, contexts, process, streams
<1>14. ASSUME NEW s \in Streams, Read(s) PROVE CommandInv'
  BY <1>14 DEF Read, contexts, process, streams
<1>15. ASSUME NEW s \in Streams, SendLine(s) PROVE CommandInv'
  BY <1>15 DEF SendLine, contexts, process, streams
<1>16. ASSUME NEW s \in Streams, EndScan(s) PROVE CommandInv'
  BY <1>16 DEF EndScan, contexts, process, streams
<1>17. CASE UNCHANGED vars
  BY <1>17 DEF vars, contexts, process, streams
<1> QED
  BY <1>1, <1>2, <1>3, <1>4, <1>5, <1>6, <1>7, <1>8, <1>9,
     <1>10, <1>11, <1>12, <1>13, <1>14, <1>15, <1>16, <1>17, StepCases

(* Every step keeps the result with the command. *)
LEMMA StepResult ==
  ASSUME TypeOK, CommandInv, ResultInv, [Next]_vars
  PROVE  ResultInv'
<1> USE DEF TypeOK, CommandInv, ResultInv, Passing, Missing, Ended
<1>1. CASE CancelRun
  BY <1>1 DEF CancelRun, contexts, process, streams
<1>2. CASE TimerFires
  BY <1>2 DEF TimerFires, contexts, process, streams
<1>3. CASE Exit
  BY <1>3 DEF Exit, contexts, process, streams
<1>4. CASE Kill
  BY <1>4 DEF Kill, contexts, process, streams
<1>5. CASE StartCommand
  BY <1>5 DEF StartCommand, contexts, process, streams
<1>6. CASE WaitForCommand
  BY <1>6 DEF WaitForCommand, contexts, process, streams
<1>7. CASE JoinScanners
  BY <1>7 DEF JoinScanners, contexts, process, streams
<1>8. CASE SendResult
  BY <1>8 DEF SendResult, contexts, process, streams
<1>9. CASE Release
  BY <1>9 DEF Release, contexts, process, streams
<1>10. CASE TimeoutCase
  BY <1>10 DEF TimeoutCase, Return, contexts, process, streams
<1>11. CASE CancelCase
  BY <1>11 DEF CancelCase, Return, contexts, process, streams
<1>12. CASE DoneCase
  BY <1>12 DEF DoneCase, Return, contexts, process, streams
<1>13. ASSUME NEW s \in Streams, Write(s) PROVE ResultInv'
  BY <1>13 DEF Write, contexts, process, streams
<1>14. ASSUME NEW s \in Streams, Read(s) PROVE ResultInv'
  BY <1>14 DEF Read, contexts, process, streams
<1>15. ASSUME NEW s \in Streams, SendLine(s) PROVE ResultInv'
  BY <1>15 DEF SendLine, contexts, process, streams
<1>16. ASSUME NEW s \in Streams, EndScan(s) PROVE ResultInv'
  BY <1>16 DEF EndScan, contexts, process, streams
<1>17. CASE UNCHANGED vars
  BY <1>17 DEF vars, contexts, process, streams
<1> QED
  BY <1>1, <1>2, <1>3, <1>4, <1>5, <1>6, <1>7, <1>8, <1>9,
     <1>10, <1>11, <1>12, <1>13, <1>14, <1>15, <1>16, <1>17, StepCases

(* Every step keeps the lines counted. *)
LEMMA StepLines ==
  ASSUME TypeOK, CommandInv, LinesInv, [Next]_vars
  PROVE  LinesInv'
<1> USE DEF TypeOK, CommandInv, LinesInv
<1>1. CASE CancelRun
  BY <1>1 DEF CancelRun, contexts, process, streams
<1>2. CASE TimerFires
  BY <1>2 DEF TimerFires, contexts, process, streams
<1>3. CASE Exit
  BY <1>3 DEF Exit, contexts, process, streams
<1>4. CASE Kill
  BY <1>4 DEF Kill, contexts, process, streams
<1>5. CASE StartCommand
  BY <1>5 DEF StartCommand, contexts, process, streams
<1>6. CASE WaitForCommand
  BY <1>6 DEF WaitForCommand, contexts, process, streams
<1>7. CASE JoinScanners
  BY <1>7 DEF JoinScanners, contexts, process, streams
<1>8. CASE SendResult
  BY <1>8 DEF SendResult, contexts, process, streams
<1>9. CASE Release
  BY <1>9 DEF Release, contexts, process, streams
<1>10. CASE TimeoutCase
  BY <1>10 DEF TimeoutCase, Return, contexts, process, streams
<1>11. CASE CancelCase
  BY <1>11 DEF CancelCase, Return, contexts, process, streams
<1>12. CASE DoneCase
  BY <1>12 DEF DoneCase, Return, contexts, process, streams
<1>13. ASSUME NEW s \in Streams, Write(s) PROVE LinesInv'
  BY <1>13 DEF Write, contexts, process, streams
<1>14. ASSUME NEW s \in Streams, Read(s) PROVE LinesInv'
  BY <1>14 DEF Read, contexts, process, streams
<1>15. ASSUME NEW s \in Streams, SendLine(s) PROVE LinesInv'
  <2>1. buffer[s] \in 0 .. MaxLines /\ sent[s] \in 0 .. MaxLines
        /\ written[s] \in 0 .. MaxLines /\ pipe[s] \in 0 .. MaxLines
    OBVIOUS
  <2>2. buffer'[s] = buffer[s] - 1 /\ sent'[s] = sent[s] + 1
    BY <1>15 DEF SendLine
  <2>3. \A r \in Streams \ {s} : buffer'[r] = buffer[r] /\ sent'[r] = sent[r]
    BY <1>15 DEF SendLine
  <2>4. written' = written /\ pipe' = pipe /\ scanning' = scanning /\ buffer[s] > 0
    BY <1>15 DEF SendLine, process
  <2>5. written'[s] = pipe'[s] + buffer'[s] + sent'[s] /\ s \in scanning'
    BY <2>1, <2>2, <2>4
  <2>6. \A r \in Streams \ {s} : /\ written'[r] = pipe'[r] + buffer'[r] + sent'[r]
                                 /\ buffer'[r] > 0 => r \in scanning'
    BY <2>3, <2>4
  <2> QED BY <2>5, <2>6
<1>16. ASSUME NEW s \in Streams, EndScan(s) PROVE LinesInv'
  BY <1>16 DEF EndScan, contexts, process, streams
<1>17. CASE UNCHANGED vars
  BY <1>17 DEF vars, contexts, process, streams
<1> QED
  BY <1>1, <1>2, <1>3, <1>4, <1>5, <1>6, <1>7, <1>8, <1>9,
     <1>10, <1>11, <1>12, <1>13, <1>14, <1>15, <1>16, <1>17, StepCases

(* Every step keeps a passed step without scanners. *)
LEMMA StepJoined ==
  ASSUME TypeOK, CommandInv, ResultInv, JoinedInv, [Next]_vars
  PROVE  JoinedInv'
<1> USE DEF CommandInv, ResultInv, JoinedInv
<1>1. CASE CancelRun
  BY <1>1 DEF CancelRun, contexts, process, streams
<1>2. CASE TimerFires
  BY <1>2 DEF TimerFires, contexts, process, streams
<1>3. CASE Exit
  BY <1>3 DEF Exit, contexts, process, streams
<1>4. CASE Kill
  BY <1>4 DEF Kill, contexts, process, streams
<1>5. CASE StartCommand
  BY <1>5 DEF StartCommand, contexts, process, streams
<1>6. CASE WaitForCommand
  BY <1>6 DEF WaitForCommand, contexts, process, streams
<1>7. CASE JoinScanners
  BY <1>7 DEF JoinScanners, contexts, process, streams
<1>8. CASE SendResult
  BY <1>8 DEF SendResult, contexts, process, streams
<1>9. CASE Release
  BY <1>9 DEF Release, contexts, process, streams
<1>10. CASE TimeoutCase
  BY <1>10 DEF TimeoutCase, Return, contexts, process, streams
<1>11. CASE CancelCase
  BY <1>11 DEF CancelCase, Return, contexts, process, streams
<1>12. CASE DoneCase
  BY <1>12 DEF DoneCase, Return, contexts, process, streams
<1>13. ASSUME NEW s \in Streams, Write(s) PROVE JoinedInv'
  BY <1>13 DEF Write, contexts, process, streams
<1>14. ASSUME NEW s \in Streams, Read(s) PROVE JoinedInv'
  BY <1>14 DEF Read, contexts, process, streams
<1>15. ASSUME NEW s \in Streams, SendLine(s) PROVE JoinedInv'
  BY <1>15 DEF SendLine, contexts, process, streams
<1>16. ASSUME NEW s \in Streams, EndScan(s) PROVE JoinedInv'
  BY <1>16 DEF EndScan, contexts, process, streams
<1>17. CASE UNCHANGED vars
  BY <1>17 DEF vars, contexts, process, streams
<1> QED
  BY <1>1, <1>2, <1>3, <1>4, <1>5, <1>6, <1>7, <1>8, <1>9,
     <1>10, <1>11, <1>12, <1>13, <1>14, <1>15, <1>16, <1>17, StepCases

(* Only the waiter's return touches its result. *)
LEMMA StepWaiter ==
  ASSUME TypeOK, WaiterInv, [Next]_vars
  PROVE  WaiterInv'
<1>1. CASE TimeoutCase \/ CancelCase \/ DoneCase
  BY <1>1 DEF TimeoutCase, CancelCase, DoneCase, Return, TypeOK, WaiterInv
<1>2. CASE ~(TimeoutCase \/ CancelCase \/ DoneCase)
  <2>1. UNCHANGED <<waiter, result>>
    BY <1>2, StepCases
    DEF CancelRun, TimerFires, Exit, Kill, StartCommand, WaitForCommand,
        JoinScanners, SendResult, Release, Write, Read, SendLine, EndScan, vars
  <2> QED BY <2>1 DEF WaiterInv
<1> QED BY <1>1, <1>2

-----------------------------------------------------------------------------
(* The invariant of every behaviour. *)
LEMMA StepInvariant ==
  Spec => []StepInv
<1>1. StepInv /\ [Next]_vars => StepInv'
  BY StepTyped, StepCommand, StepResult, StepLines, StepJoined, StepWaiter
     DEF StepInv
<1> QED BY InitHolds, <1>1, PTL DEF Spec

(* Channels, counters and processes keep their types; no stream carries    *)
(* more lines than the command wrote.                                      *)
THEOREM StepTypeCorrect ==
  Spec => []TypeOK
<1>1. StepInv => TypeOK
  BY DEF StepInv
<1> QED BY <1>1, StepInvariant, PTL

(* A step passes only with a command that exited with 0, and fails with    *)
(* its error only when no command is left, whichever way the waiter, the   *)
(* goroutine, the timer and a cancellation race.                           *)
THEOREM ResultsMatchCommands ==
  Spec => []ResultMatchesCommand
<1>1. StepInv => ResultMatchesCommand
  BY DEF StepInv, ResultInv, ResultMatchesCommand, Passing, Missing
<1> QED BY <1>1, StepInvariant, PTL

(* A passed step has sent every line its scanners got hold of. *)
THEOREM PassedStepsAreDrained ==
  Spec => []PassedStepIsDrained
<1>1. StepInv => PassedStepIsDrained
  BY StepAssumption
  DEF StepInv, TypeOK, ResultInv, JoinedInv, LinesInv, PassedStepIsDrained
<1> QED BY <1>1, StepInvariant, PTL

-----------------------------------------------------------------------------
(* The command and the streams that a step leaves alone. *)
Quiet == UNCHANGED <<cancelled, CommandSeen, scanning, sent, result>>

(* Steps of the goroutine, of the command and of the timer that the        *)
(* contract does not see: those that do not start or end the command.      *)
LEMMA QuietSteps ==
  ASSUME CommandInv, ResultInv, TypeOK,
         \/ TimerFires \/ WaitForCommand \/ JoinScanners \/ SendResult \/ Release
         \/ \E s \in Streams : Write(s) \/ Read(s)
         \/ UNCHANGED vars
  PROVE  Quiet
<1> USE DEF Quiet, CommandSeen, CommandInv, ResultInv, TypeOK, Ended, Passing, Missing,
            contexts, process, streams
<1>1. CASE TimerFires
  BY <1>1 DEF TimerFires
<1>2. CASE WaitForCommand
  BY <1>2 DEF WaitForCommand
<1>3. CASE JoinScanners
  BY <1>3 DEF JoinScanners
<1>4. CASE SendResult
  BY <1>4 DEF SendResult
<1>5. CASE Release
  BY <1>5 DEF Release
<1>6. ASSUME NEW s \in Streams, Write(s) \/ Read(s) PROVE Quiet
  BY <1>6 DEF Write, Read
<1>7. CASE UNCHANGED vars
  BY <1>7 DEF vars
<1> QED BY <1>1, <1>2, <1>3, <1>4, <1>5, <1>6, <1>7

(* The command ends by itself or by the kill, or is never started. *)
LEMMA CommandSteps ==
  ASSUME CommandInv, TypeOK, StartCommand \/ Exit \/ Kill
  PROVE  Contract!Start \/ \E how \in {"passed", "missed"} : Contract!End(how)
<1> USE DEF CommandSeen, CommandInv, TypeOK, contexts, process, streams,
            Contract!Start, Contract!End
<1>1. CASE StartCommand
  BY <1>1 DEF StartCommand
<1>2. CASE Exit
  BY <1>2 DEF Exit
<1>3. CASE Kill
  BY <1>3 DEF Kill
<1> QED BY <1>1, <1>2, <1>3

(* The waiter returns once, and only what the contract allows. *)
LEMMA ReturnSteps ==
  ASSUME StepInv, TimeoutCase \/ CancelCase \/ DoneCase
  PROVE  \E r \in {"ok", "error", "timeout", "cancel"} : Contract!Return(r)
<1>1. waiter = "select" /\ result = "none"
  BY DEF StepInv, WaiterInv, TimeoutCase, CancelCase, DoneCase, Return
<1>2. UNCHANGED <<cancelled, CommandSeen, scanning, sent>>
  BY DEF TimeoutCase, CancelCase, DoneCase, Return, CommandSeen,
         contexts, process, streams
<1>3. CASE TimeoutCase
  BY <1>1, <1>2, <1>3 DEF TimeoutCase, Return, Contract!Return
<1>4. CASE CancelCase
  BY <1>1, <1>2, <1>4 DEF CancelCase, Return, Contract!Return
<1>5. CASE DoneCase
  <2>1. result' = doneCh /\ doneCh \in {"ok", "error"}
    BY <1>5 DEF DoneCase, Return, StepInv, TypeOK
  <2>2. doneCh = "ok" => CommandSeen = "passed" /\ scanning = {}
    BY DEF StepInv, ResultInv, JoinedInv, Passing, CommandSeen
  <2>3. doneCh = "error" => CommandSeen = "missed"
    BY DEF StepInv, ResultInv, CommandInv, Missing, CommandSeen
  <2> QED BY <1>1, <1>2, <2>1, <2>2, <2>3 DEF Contract!Return
<1> QED BY <1>3, <1>4, <1>5

(* Every step of the step is one of its contract, or none. *)
LEMMA StepKeepsContract ==
  ASSUME StepInv, [Next]_vars
  PROVE  [Contract!Next]_(Contract!vars)
<1> USE DEF StepInv
<1>1. CASE CancelRun
  <2>1. Contract!Cancel
    BY <1>1 DEF CancelRun, Contract!Cancel, CommandSeen, contexts, process, streams
  <2> QED BY <2>1 DEF Contract!Next
<1>2. CASE StartCommand \/ Exit \/ Kill
  BY <1>2, CommandSteps DEF Contract!Next
<1>3. CASE TimeoutCase \/ CancelCase \/ DoneCase
  BY <1>3, ReturnSteps DEF Contract!Next
<1>4. ASSUME NEW s \in Streams, SendLine(s) PROVE [Contract!Next]_(Contract!vars)
  <2>1. s \in scanning
    BY <1>4 DEF SendLine, LinesInv
  <2>2. Contract!Line(s)
    BY <1>4, <2>1 DEF SendLine, Contract!Line, CommandSeen, contexts, process
  <2> QED BY <2>2 DEF Contract!Next
<1>5. ASSUME NEW s \in Streams, EndScan(s) PROVE [Contract!Next]_(Contract!vars)
  <2>1. Contract!Close(s)
    BY <1>5 DEF EndScan, Contract!Close, CommandSeen, contexts, process
  <2> QED BY <2>1 DEF Contract!Next
<1>6. CASE \/ TimerFires \/ WaitForCommand \/ JoinScanners \/ SendResult \/ Release
           \/ UNCHANGED vars
  BY <1>6, QuietSteps DEF Quiet, Contract!vars
<1>7. ASSUME NEW s \in Streams, Write(s) \/ Read(s)
      PROVE  [Contract!Next]_(Contract!vars)
  BY <1>7, QuietSteps DEF Quiet, Contract!vars
<1> QED
  <2> HIDE DEF StepInv
  <2> QED BY <1>1, <1>2, <1>3, <1>4, <1>5, <1>6, <1>7, StepCases

(* The step with its goroutines, scanners, timer and cancellation keeps    *)
(* the contract that the script loop and the run queue rely on, for any    *)
(* streams, lines and timeouts.                                            *)
THEOREM StepsKeepTheContract == Spec => KeepsContract
<1>1. Init => Contract!Init
  BY DEF Init, Contract!Init, CommandSeen
<1>2. StepInv /\ [Next]_vars => [Contract!Next]_(Contract!vars)
  BY StepKeepsContract
<1> QED BY <1>1, <1>2, StepInvariant, PTL DEF Spec, KeepsContract, Contract!Spec
=============================================================================
