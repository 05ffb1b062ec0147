--------------------------- MODULE RunQueueProofs ---------------------------
(***************************************************************************)
(* What the run queue promises about its goroutines and channels, and then *)
(* about its runs: none is executed twice, a verdict that was shown stays, *)
(* log and status agree, and every step is a step of RunLifecycle.  For    *)
(* the second half the forty actions of RunQueue are first sorted by what  *)
(* they do to a run (StepKinds); the proofs go by these kinds.             *)
(***************************************************************************)
EXTENDS RunQueue, TLAPS

(* A group of variables that a step leaves alone stays well typed. *)
LEMMA FrameTyped ==
  ASSUME TypeOK
  PROVE  /\ UNCHANGED store => StoreType'
         /\ UNCHANGED callers => CallerType'
         /\ UNCHANGED channels => ChannelType'
         /\ UNCHANGED worker => WorkerType'
         /\ UNCHANGED steps => StepType'
         /\ UNCHANGED contexts => ContextType'
         /\ UNCHANGED pumps => PumpType'
         /\ UNCHANGED history => HistoryType'
         /\ UNCHANGED counters => CounterType'
<1> USE DEF TypeOK
<1>1. UNCHANGED store => StoreType'       BY DEF store, StoreType
<1>2. UNCHANGED callers => CallerType'    BY DEF callers, CallerType
<1>3. UNCHANGED channels => ChannelType'  BY DEF channels, ChannelType
<1>4. UNCHANGED worker => WorkerType'     BY DEF worker, WorkerType
<1>5. UNCHANGED steps => StepType'        BY DEF steps, StepType
<1>6. UNCHANGED contexts => ContextType'  BY DEF contexts, ContextType
<1>7. UNCHANGED pumps => PumpType'        BY DEF pumps, PumpType
<1>8. UNCHANGED history => HistoryType'   BY DEF history, HistoryType
<1>9. UNCHANGED counters => CounterType'  BY DEF counters, CounterType
<1> QED BY <1>1, <1>2, <1>3, <1>4, <1>5, <1>6, <1>7, <1>8, <1>9

(* Appending to one of a function's sequences keeps it a function to       *)
(* sequences: an append to runs.output, or to what a run's pages were shown.*)
LEMMA AppendTyped ==
  ASSUME NEW S, NEW T, NEW f \in [S -> Seq(T)], NEW x, NEW v \in T
  PROVE  [f EXCEPT ![x] = Append(@, v)] \in [S -> Seq(T)]
<1>1. ASSUME NEW y \in S
      PROVE  [f EXCEPT ![x] = Append(@, v)][y] \in Seq(T)
  <2>1. f[y] \in Seq(T) /\ Append(f[y], v) \in Seq(T)
    OBVIOUS
  <2> QED BY <2>1
<1> QED BY <1>1

(* A step of the worker that only goes to another statement of the same    *)
(* iteration keeps its variables typed.                                    *)
LEMMA GotoTyped ==
  ASSUME WorkerType, NEW next \in PCs, pc \notin WithoutRun,
         next \notin WithoutRun, Goto(next)
  PROVE  WorkerType'
BY DEF WorkerType, Goto

(* So does one that ends processRun with an error. *)
LEMMA FailTyped ==
  ASSUME WorkerType, NEW why \in Errors, pc \notin WithoutRun, Fail(why)
  PROVE  WorkerType'
BY DEF WorkerType, Fail, PCs, WithoutRun

(* A send on outputCh is typed when the worker and the step's counters are. *)
LEMMA SayTyped ==
  ASSUME TypeOK, NEW line \in Lines, Say(line), WorkerType', StepType'
  PROVE  TypeOK'
<1>1. PumpType'
  BY DEF TypeOK, PumpType, Say
<1> QED
  BY <1>1, FrameTyped DEF TypeOK, Say, history

(* So is a step that changes nothing but the worker. *)
LEMMA InternalTyped ==
  ASSUME TypeOK, Internal, WorkerType'
  PROVE  TypeOK'
BY FrameTyped DEF TypeOK, Internal

(* The end of the process, whatever brought it about, leaves typed values. *)
LEMMA DownTyped ==
  ASSUME TypeOK, NEW why \in {"crash", "queue", "map", "done"}, GoDown(why)
  PROVE  TypeOK'
<1> USE RunQueueAssumption DEF store
<1>1. StoreType'    BY FrameTyped DEF GoDown
<1>2. CallerType'   BY DEF GoDown, CallerType
<1>3. ChannelType'
  <2>1. queueClosed' \in BOOLEAN /\ doneClosed' \in BOOLEAN
    BY DEF GoDown
  <2>2. queue' \in Seq(Runs) /\ Len(queue') <= QueueSize
    BY DEF GoDown
  <2> QED BY <2>1, <2>2 DEF ChannelType
<1>4. WorkerType'   BY DEF GoDown, WorkerType, PCs, Errors, WithoutRun
<1>5. StepType'
  <2>1. leaked' \in BOOLEAN
    BY DEF GoDown
  <2>2. lines' \in 0 .. MaxLines
    BY DEF GoDown
  <2> QED BY <2>1, <2>2 DEF StepType
<1>6. ContextType'  BY DEF GoDown, ContextType, TypeOK
<1>7. PumpType'     BY DEF GoDown, PumpType
<1>8. HistoryType'  BY DEF GoDown, HistoryType, TypeOK
<1>9. CounterType'  BY DEF GoDown, CounterType, TypeOK, counters
<1> QED BY <1>1, <1>2, <1>3, <1>4, <1>5, <1>6, <1>7, <1>8, <1>9 DEF TypeOK

(* Every step of callers, environment, worker and pumps preserves TypeOK.  *)
LEMMA StepTyped == TypeOK /\ [Next]_vars => TypeOK'
<1> SUFFICES ASSUME TypeOK, [Next]_vars PROVE TypeOK'
  OBVIOUS
<1> USE DEF TypeOK
<1>1. ASSUME NEW r \in Runs, CreatePipelineRun(r) PROVE TypeOK'
  <2>1. StoreType'
    BY <1>1 DEF CreatePipelineRun, StoreType, Status
  <2>2. CallerType'
    BY <1>1 DEF CreatePipelineRun, CallerType
  <2> QED BY <1>1, <2>1, <2>2, FrameTyped DEF CreatePipelineRun
<1>2. ASSUME NEW r \in Runs, Enqueue(r) PROVE TypeOK'
  <2>1. CallerType'
    BY <1>2 DEF Enqueue, CallerType
  <2>2. ChannelType'
    BY <1>2, RunQueueAssumption
    DEF Enqueue, ChannelType
  <2> QED BY <1>2, <2>1, <2>2, FrameTyped DEF Enqueue
<1>3. ASSUME NEW r \in Runs, EnqueueRefused(r) PROVE TypeOK'
  <2>1. CallerType'
    BY <1>3 DEF EnqueueRefused, CallerType
  <2> QED BY <1>3, <2>1, FrameTyped DEF EnqueueRefused
<1>4. ASSUME NEW r \in Runs, EnqueuePanics(r) PROVE TypeOK'
  BY <1>4, DownTyped DEF EnqueuePanics
<1>5. ASSUME NEW r \in Runs, CancelRun(r) PROVE TypeOK'
  <2>1. ContextType'
    BY <1>5 DEF CancelRun, ContextType
  <2> QED BY <1>5, <2>1, FrameTyped DEF CancelRun
<1>7. ASSUME NEW r \in Runs, CancelRace(r) PROVE TypeOK'
  BY <1>7, DownTyped DEF CancelRace
<1>8. CASE Crash
  BY <1>8, DownTyped DEF Crash
<1>9. CASE Restart
  <2>1. WorkerType'
    BY <1>9 DEF Restart, WorkerType, PCs, WithoutRun, Up
  <2>2. CounterType'
    BY <1>9, RunQueueAssumption
    DEF Restart, CounterType
  <2> QED BY <1>9, <2>1, <2>2, FrameTyped DEF Restart
<1>10. CASE DeletePipelineRow
  <2>1. StoreType'
    BY <1>10 DEF DeletePipelineRow, StoreType
  <2> QED BY <1>10, <2>1, FrameTyped DEF DeletePipelineRow
<1>11. CASE RemoveRunQueue
  <2>1. StoreType'
    BY <1>11 DEF RemoveRunQueue, StoreType
  <2> QED BY <1>11, <2>1, FrameTyped DEF RemoveRunQueue
<1>12. CASE ShutdownReceives
  <2>1. WorkerType'
    BY <1>12 DEF ShutdownReceives, WorkerType, PCs, WithoutRun
  <2>2. CounterType'
    BY <1>12, RunQueueAssumption
    DEF ShutdownReceives, CounterType
  <2> QED BY <1>12, <2>1, <2>2, FrameTyped DEF ShutdownReceives
<1>13. CASE ShutdownCloses
  <2>1. ChannelType'
    BY <1>13, RunQueueAssumption
    DEF ShutdownCloses, ChannelType
  <2>2. CounterType'
    BY <1>13, RunQueueAssumption
    DEF ShutdownCloses, CounterType
  <2> QED BY <1>13, <2>1, <2>2, FrameTyped DEF ShutdownCloses
<1>14. CASE TakeRun
  <2>1. ChannelType'
    BY <1>14, RunQueueAssumption
    DEF TakeRun, ChannelType
  <2>2. WorkerType'
    <3>1. Head(queue) \in Runs
      BY <1>14 DEF TakeRun, ChannelType
    <3> QED
      BY <1>14, <3>1, RunQueueAssumption
      DEF TakeRun, WorkerType, PCs, Errors, WithoutRun
  <2>3. StepType'
    BY <1>14, RunQueueAssumption
    DEF TakeRun, StepType
  <2>4. HistoryType'
    BY <1>14 DEF TakeRun, HistoryType, ChannelType
  <2> QED BY <1>14, <2>1, <2>2, <2>3, <2>4, FrameTyped DEF TakeRun
<1>15. CASE StopLoop
  <2>1. ChannelType'
    BY <1>15, RunQueueAssumption
    DEF StopLoop, ChannelType
  <2>2. WorkerType'
    BY <1>15 DEF StopLoop, WorkerType, Goto, PCs, WithoutRun
  <2> QED BY <1>15, <2>1, <2>2, FrameTyped DEF StopLoop
<1>16. CASE AddCancel
  <2>1. WorkerType'
    BY <1>16 DEF AddCancel, WorkerType, Goto, PCs, WithoutRun
  <2>2. ContextType'
    BY <1>16 DEF AddCancel, ContextType, WorkerType, WithoutRun
  <2>3. PumpType'
    BY <1>16 DEF AddCancel, PumpType
  <2> QED BY <1>16, <2>1, <2>2, <2>3, FrameTyped DEF AddCancel
<1>17. CASE ReadPipelineRunData
  <2>1. WorkerType'
    BY <1>17, GotoTyped, FailTyped DEF ReadPipelineRunData, PCs, Errors, WithoutRun
  <2> QED BY <1>17, <2>1, InternalTyped DEF ReadPipelineRunData
<1>18. CASE UpdatePipelineRunStartedOn
  <2>1. StoreType'
    BY <1>18 DEF UpdatePipelineRunStartedOn, StoreType, StoreStatus, Status
  <2>2. WorkerType'
    BY <1>18, GotoTyped, FailTyped DEF UpdatePipelineRunStartedOn, PCs, Errors, WithoutRun
  <2> QED BY <1>18, <2>1, <2>2, FrameTyped DEF UpdatePipelineRunStartedOn
<1>19. CASE ReadRunByID
  <2>1. WorkerType'
    BY <1>19, GotoTyped, FailTyped DEF ReadRunByID, PCs, Errors, WithoutRun
  <2> QED BY <1>19, <2>1, InternalTyped DEF ReadRunByID
<1>20. CASE Notify
  <2>1. WorkerType'
    BY <1>20, GotoTyped, FailTyped DEF Notify, PCs, Errors, WithoutRun
  <2>2. PumpType'
    BY <1>20 DEF Notify, PumpType, StoreType, WorkerType, WithoutRun
  <2> QED BY <1>20, <2>1, <2>2, FrameTyped DEF Notify
<1>21. CASE ParsePrivateKey
  <2>1. WorkerType'
    BY <1>21, GotoTyped, FailTyped DEF ParsePrivateKey, PCs, Errors, WithoutRun
  <2>2. StepType'
    BY <1>21, FrameTyped DEF ParsePrivateKey
  <2> QED BY <1>21, <2>1, <2>2, SayTyped DEF ParsePrivateKey, Lines
<1>22. CASE ConnectionError
  <2>1. WorkerType'
    BY <1>22, GotoTyped, FailTyped DEF ConnectionError, PCs, Errors, WithoutRun
  <2>2. StepType'
    BY <1>22, FrameTyped DEF ConnectionError
  <2> QED BY <1>22, <2>1, <2>2, SayTyped DEF ConnectionError, Lines
<1>23. CASE StartClone
  <2>1. WorkerType'
    BY <1>23, GotoTyped, FailTyped DEF StartClone, PCs, Errors, WithoutRun
  <2> QED BY <1>23, <2>1, InternalTyped DEF StartClone
<1>24. CASE Clone
  <2>1. WorkerType'
    BY <1>24, GotoTyped, FailTyped DEF Clone, PCs, Errors, WithoutRun
  <2> QED BY <1>24, <2>1, InternalTyped DEF Clone
<1>25. CASE SayCloned
  <2>1. WorkerType'
    BY <1>25, GotoTyped, FailTyped DEF SayCloned, PCs, Errors, WithoutRun
  <2>2. StepType'
    BY <1>25, FrameTyped DEF SayCloned
  <2> QED BY <1>25, <2>1, <2>2, SayTyped DEF SayCloned, Lines
<1>26. CASE ReadPipelineScript
  <2>1. WorkerType'
    BY <1>26, GotoTyped, FailTyped DEF ReadPipelineScript, PCs, Errors, WithoutRun
  <2> QED BY <1>26, <2>1, InternalTyped DEF ReadPipelineScript
<1>27. CASE SayParsed
  <2>1. WorkerType'
    BY <1>27, GotoTyped, FailTyped DEF SayParsed, PCs, Errors, WithoutRun
  <2>2. StepType'
    BY <1>27, FrameTyped DEF SayParsed
  <2> QED BY <1>27, <2>1, <2>2, SayTyped DEF SayParsed, Lines
<1>28. CASE StepOutput
  <2>1. WorkerType'
    BY <1>28, FrameTyped DEF StepOutput
  <2>2. StepType'
    <3>1. leaked' \in BOOLEAN
      BY <1>28 DEF StepOutput, StepType
    <3>2. lines' \in 0 .. MaxLines
      BY <1>28, RunQueueAssumption DEF StepOutput, StepType
    <3> QED BY <3>1, <3>2 DEF StepType
  <2> QED BY <1>28, <2>1, <2>2, SayTyped DEF StepOutput, Lines
<1>29. CASE StepsPass
  <2>1. WorkerType'
    BY <1>29, GotoTyped, FailTyped DEF StepsPass, PCs, Errors, WithoutRun
  <2> QED BY <1>29, <2>1, InternalTyped DEF StepsPass
<1>30. CASE StepFails
  <2>1. WorkerType'
    BY <1>30, GotoTyped, FailTyped DEF StepFails, PCs, Errors, WithoutRun
  <2>2. StepType'
    BY <1>30, RunQueueAssumption
    DEF StepFails, StepType
  <2> QED BY <1>30, <2>1, <2>2, FrameTyped DEF StepFails
<1>31. CASE StepTimesOut
  <2>1. WorkerType'
    BY <1>31, FailTyped DEF StepTimesOut, Errors, WithoutRun
  <2>2. StepType'
    BY <1>31 DEF StepTimesOut, StepType
  <2> QED BY <1>31, <2>1, <2>2, SayTyped DEF StepTimesOut, Lines
<1>32. CASE StepCancelled
  <2>1. WorkerType'
    BY <1>32, FailTyped DEF StepCancelled, Errors, WithoutRun
  <2>2. StepType'
    BY <1>32 DEF StepCancelled, StepType
  <2> QED BY <1>32, <2>1, <2>2, SayTyped DEF StepCancelled, Lines
<1>33. CASE SayPass
  <2>1. WorkerType'
    BY <1>33, GotoTyped, FailTyped DEF SayPass, PCs, Errors, WithoutRun
  <2>2. StepType'
    BY <1>33, FrameTyped DEF SayPass
  <2> QED BY <1>33, <2>1, <2>2, SayTyped DEF SayPass, Lines
<1>34. CASE UpdatePipelineRunPassed
  <2>1. StoreType'
    BY <1>34 DEF UpdatePipelineRunPassed, StoreType, StoreStatus, Status, Verdicts
  <2>2. WorkerType'
    BY <1>34, GotoTyped, FailTyped DEF UpdatePipelineRunPassed, PCs, Errors, WithoutRun
  <2> QED BY <1>34, <2>1, <2>2, FrameTyped DEF UpdatePipelineRunPassed
<1>35. CASE UpdatePipelineRunFailed
  <2>1. StoreType'
    BY <1>35 DEF UpdatePipelineRunFailed, StoreType, StoreStatus, Status, Verdicts, Verdict
  <2>2. WorkerType'
    BY <1>35, GotoTyped, FailTyped DEF UpdatePipelineRunFailed, PCs, Errors, WithoutRun
  <2> QED BY <1>35, <2>1, <2>2, FrameTyped DEF UpdatePipelineRunFailed
<1>36. CASE SayFail
  <2>1. WorkerType'
    BY <1>36, GotoTyped, FailTyped DEF SayFail, PCs, Errors, WithoutRun
  <2>2. StepType'
    BY <1>36, FrameTyped DEF SayFail
  <2> QED BY <1>36, <2>1, <2>2, SayTyped DEF SayFail, Lines
<1>37. CASE SendDone
  BY <1>37, DownTyped DEF SendDone
<1>38. CASE ReceiveDone
  <2>1. WorkerType'
    BY <1>38, GotoTyped, FailTyped DEF ReceiveDone, PCs, Errors, WithoutRun
  <2> QED BY <1>38, <2>1, InternalTyped DEF ReceiveDone
<1>39. CASE CloseDone
  <2>1. CASE doneClosed
    BY <1>39, <2>1, DownTyped DEF CloseDone
  <2>2. CASE ~doneClosed
    <3>1. ChannelType'
      BY <1>39, <2>2 DEF CloseDone, ChannelType
    <3>2. WorkerType'
      BY <1>39, <2>2 DEF CloseDone, WorkerType, PCs, Errors, WithoutRun
    <3>3. ContextType'
      BY <1>39, <2>2 DEF CloseDone, ContextType
    <3>4. PumpType'
      BY <1>39, <2>2 DEF CloseDone, PumpType
    <3> QED
      BY <1>39, <2>2, <3>1, <3>2, <3>3, <3>4, FrameTyped DEF CloseDone
  <2> QED BY <2>1, <2>2
<1>40. CASE LateOutput
  <2>1. WorkerType'
    BY <1>40, FrameTyped DEF LateOutput
  <2>2. StepType'
    <3>1. leaked' \in BOOLEAN
      BY <1>40 DEF LateOutput, StepType
    <3>2. lines' \in 0 .. MaxLines
      BY <1>40, RunQueueAssumption DEF LateOutput, StepType
    <3> QED BY <3>1, <3>2 DEF StepType
  <2> QED BY <1>40, <2>1, <2>2, SayTyped DEF LateOutput, Lines
<1>41. CASE HandleOutput
  <2>1. StoreType'
    <3>1. [output EXCEPT ![run] = Append(@, outPump)] \in [Runs -> Seq(Lines)]
      BY <1>41, AppendTyped DEF HandleOutput, StoreType
    <3> QED BY <1>41, <3>1 DEF HandleOutput, StoreType
  <2>2. PumpType'
    BY <1>41 DEF HandleOutput, PumpType
  <2> QED BY <1>41, <2>1, <2>2, FrameTyped DEF HandleOutput
<1>42. CASE HandleStatus
  <2>1. HistoryType'
    <3>1. shown' \in [Runs -> Seq(Status)]
      BY <1>42, AppendTyped DEF HandleStatus, HistoryType
    <3> QED BY <1>42, <3>1 DEF HandleStatus, HistoryType
  <2>2. PumpType'
    BY <1>42 DEF HandleStatus, PumpType
  <2> QED BY <1>42, <2>1, <2>2, FrameTyped DEF HandleStatus
<1>43. CASE UNCHANGED vars
  BY <1>43, FrameTyped DEF vars
<1> QED
  BY <1>1, <1>2, <1>3, <1>4, <1>5, <1>7, <1>8, <1>9,
     <1>10, <1>11, <1>12, <1>13, <1>14, <1>15, <1>16, <1>17, <1>18,
     <1>19, <1>20, <1>21, <1>22, <1>23, <1>24, <1>25, <1>26, <1>27,
     <1>28, <1>29, <1>30, <1>31, <1>32, <1>33, <1>34, <1>35, <1>36,
     <1>37, <1>38, <1>39, <1>40, <1>41, <1>42, <1>43
  DEF Next, Request, Environment, Worker

(***************************************************************************)
(* One run in the life of a process.  The receive needs pc = "select",     *)
(* where nothing was taken yet: the way back there, CloseDone, is behind   *)
(* ReceiveDone, which lets the worker through only when done is closed,    *)
(* and then closing done again ends the process.                           *)
(***************************************************************************)
ServeInv == /\ pc \in {"select", "down"} => taken = <<>>
            /\ pc = "closeDone" => doneClosed
            /\ AtMostOneRunServed

(* Every step preserves ServeInv. *)
LEMMA StepServes == TypeOK /\ ServeInv /\ [Next]_vars => ServeInv'
<1> SUFFICES ASSUME TypeOK, ServeInv, [Next]_vars PROVE ServeInv'
  OBVIOUS
<1> USE DEF ServeInv, AtMostOneRunServed, channels, worker, history
<1>1. ASSUME NEW r \in Runs, CreatePipelineRun(r) PROVE ServeInv'
  BY <1>1 DEF CreatePipelineRun
<1>2. ASSUME NEW r \in Runs, Enqueue(r) PROVE ServeInv'
  BY <1>2 DEF Enqueue
<1>3. ASSUME NEW r \in Runs, EnqueueRefused(r) PROVE ServeInv'
  BY <1>3 DEF EnqueueRefused
<1>4. ASSUME NEW r \in Runs, EnqueuePanics(r) PROVE ServeInv'
  BY <1>4 DEF EnqueuePanics, GoDown
<1>5. ASSUME NEW r \in Runs, CancelRun(r) PROVE ServeInv'
  BY <1>5 DEF CancelRun
<1>7. ASSUME NEW r \in Runs, CancelRace(r) PROVE ServeInv'
  BY <1>7 DEF CancelRace, GoDown
<1>8. CASE Crash
  BY <1>8 DEF Crash, GoDown
<1>9. CASE Restart
  BY <1>9 DEF Restart, Up
<1>10. CASE DeletePipelineRow
  BY <1>10 DEF DeletePipelineRow
<1>11. CASE RemoveRunQueue
  BY <1>11 DEF RemoveRunQueue
<1>12. CASE ShutdownReceives
  BY <1>12 DEF ShutdownReceives
<1>13. CASE ShutdownCloses
  BY <1>13 DEF ShutdownCloses
<1>14. CASE TakeRun
  BY <1>14 DEF TakeRun, TypeOK, HistoryType
<1>15. CASE StopLoop
  BY <1>15 DEF StopLoop, Goto
<1>16. CASE AddCancel
  BY <1>16 DEF AddCancel, Goto
<1>17. CASE ReadPipelineRunData
  BY <1>17 DEF ReadPipelineRunData, Goto, Fail, Internal
<1>18. CASE UpdatePipelineRunStartedOn
  BY <1>18 DEF UpdatePipelineRunStartedOn, Goto, Fail
<1>19. CASE ReadRunByID
  BY <1>19 DEF ReadRunByID, Goto, Fail, Internal
<1>20. CASE Notify
  BY <1>20 DEF Notify, Goto
<1>21. CASE ParsePrivateKey
  BY <1>21 DEF ParsePrivateKey, Say, Goto
<1>22. CASE ConnectionError
  BY <1>22 DEF ConnectionError, Say, Fail
<1>23. CASE StartClone
  BY <1>23 DEF StartClone, Goto, Fail, Internal
<1>24. CASE Clone
  BY <1>24 DEF Clone, Goto, Fail, Internal
<1>25. CASE SayCloned
  BY <1>25 DEF SayCloned, Say, Goto
<1>26. CASE ReadPipelineScript
  BY <1>26 DEF ReadPipelineScript, Goto, Fail, Internal
<1>27. CASE SayParsed
  BY <1>27 DEF SayParsed, Say, Goto
<1>28. CASE StepOutput
  BY <1>28 DEF StepOutput, Say
<1>29. CASE StepsPass
  BY <1>29 DEF StepsPass, Goto, Internal
<1>30. CASE StepFails
  BY <1>30 DEF StepFails, Fail
<1>31. CASE StepTimesOut
  BY <1>31 DEF StepTimesOut, Say, Fail
<1>32. CASE StepCancelled
  BY <1>32 DEF StepCancelled, Say, Fail
<1>33. CASE SayPass
  BY <1>33 DEF SayPass, Say, Goto
<1>34. CASE UpdatePipelineRunPassed
  BY <1>34 DEF UpdatePipelineRunPassed, Goto, Fail
<1>35. CASE UpdatePipelineRunFailed
  BY <1>35 DEF UpdatePipelineRunFailed, Goto
<1>36. CASE SayFail
  BY <1>36 DEF SayFail, Say, Goto
<1>37. CASE SendDone
  BY <1>37 DEF SendDone, GoDown
<1>38. CASE ReceiveDone
  BY <1>38 DEF ReceiveDone, Goto, Internal
<1>39. CASE CloseDone
  BY <1>39 DEF CloseDone, GoDown
<1>40. CASE LateOutput
  BY <1>40 DEF LateOutput, Say
<1>41. CASE HandleOutput
  BY <1>41 DEF HandleOutput
<1>42. CASE HandleStatus
  BY <1>42 DEF HandleStatus
<1>43. CASE UNCHANGED vars
  BY <1>43 DEF vars
<1> QED
  BY <1>1, <1>2, <1>3, <1>4, <1>5, <1>7, <1>8, <1>9,
     <1>10, <1>11, <1>12, <1>13, <1>14, <1>15, <1>16, <1>17, <1>18,
     <1>19, <1>20, <1>21, <1>22, <1>23, <1>24, <1>25, <1>26, <1>27,
     <1>28, <1>29, <1>30, <1>31, <1>32, <1>33, <1>34, <1>35, <1>36,
     <1>37, <1>38, <1>39, <1>40, <1>41, <1>42, <1>43
  DEF Next, Request, Environment, Worker

(***************************************************************************)
(* Without calls of Shutdown nobody closes done, so the worker stays at    *)
(* SendDone, neither channel is ever closed, and nothing panics on them.   *)
(***************************************************************************)
WiredInv == shutdowns = 0 =>
                /\ ~doneClosed /\ ~queueClosed
                /\ pc \notin {"recvDone", "closeDone", "exited"}
                /\ death \notin {"queue", "done"}

(* Every step preserves WiredInv. *)
LEMMA StepWired == TypeOK /\ WiredInv /\ [Next]_vars => WiredInv'
<1> SUFFICES ASSUME TypeOK, WiredInv, [Next]_vars
             PROVE  WiredInv'
  OBVIOUS
<1> USE DEF WiredInv, channels, worker, history, counters
<1>1. ASSUME NEW r \in Runs, CreatePipelineRun(r) PROVE WiredInv'
  BY <1>1 DEF CreatePipelineRun
<1>2. ASSUME NEW r \in Runs, Enqueue(r) PROVE WiredInv'
  BY <1>2 DEF Enqueue
<1>3. ASSUME NEW r \in Runs, EnqueueRefused(r) PROVE WiredInv'
  BY <1>3 DEF EnqueueRefused
<1>4. ASSUME NEW r \in Runs, EnqueuePanics(r) PROVE WiredInv'
  BY <1>4 DEF EnqueuePanics, GoDown
<1>5. ASSUME NEW r \in Runs, CancelRun(r) PROVE WiredInv'
  BY <1>5 DEF CancelRun
<1>7. ASSUME NEW r \in Runs, CancelRace(r) PROVE WiredInv'
  BY <1>7 DEF CancelRace, GoDown
<1>8. CASE Crash
  BY <1>8 DEF Crash, GoDown
<1>9. CASE Restart
  BY <1>9 DEF Restart
<1>10. CASE DeletePipelineRow
  BY <1>10 DEF DeletePipelineRow
<1>11. CASE RemoveRunQueue
  BY <1>11 DEF RemoveRunQueue
<1>12. CASE ShutdownReceives
  BY <1>12 DEF ShutdownReceives, TypeOK, CounterType
<1>13. CASE ShutdownCloses
  BY <1>13 DEF ShutdownCloses, TypeOK, CounterType
<1>14. CASE TakeRun
  BY <1>14 DEF TakeRun
<1>15. CASE StopLoop
  BY <1>15 DEF StopLoop, Goto
<1>16. CASE AddCancel
  BY <1>16 DEF AddCancel, Goto
<1>17. CASE ReadPipelineRunData
  BY <1>17 DEF ReadPipelineRunData, Goto, Fail, Internal
<1>18. CASE UpdatePipelineRunStartedOn
  BY <1>18 DEF UpdatePipelineRunStartedOn, Goto, Fail
<1>19. CASE ReadRunByID
  BY <1>19 DEF ReadRunByID, Goto, Fail, Internal
<1>20. CASE Notify
  BY <1>20 DEF Notify, Goto
<1>21. CASE ParsePrivateKey
  BY <1>21 DEF ParsePrivateKey, Say, Goto
<1>22. CASE ConnectionError
  BY <1>22 DEF ConnectionError, Say, Fail
<1>23. CASE StartClone
  BY <1>23 DEF StartClone, Goto, Fail, Internal
<1>24. CASE Clone
  BY <1>24 DEF Clone, Goto, Fail, Internal
<1>25. CASE SayCloned
  BY <1>25 DEF SayCloned, Say, Goto
<1>26. CASE ReadPipelineScript
  BY <1>26 DEF ReadPipelineScript, Goto, Fail, Internal
<1>27. CASE SayParsed
  BY <1>27 DEF SayParsed, Say, Goto
<1>28. CASE StepOutput
  BY <1>28 DEF StepOutput, Say
<1>29. CASE StepsPass
  BY <1>29 DEF StepsPass, Goto, Internal
<1>30. CASE StepFails
  BY <1>30 DEF StepFails, Fail
<1>31. CASE StepTimesOut
  BY <1>31 DEF StepTimesOut, Say, Fail
<1>32. CASE StepCancelled
  BY <1>32 DEF StepCancelled, Say, Fail
<1>33. CASE SayPass
  BY <1>33 DEF SayPass, Say, Goto
<1>34. CASE UpdatePipelineRunPassed
  BY <1>34 DEF UpdatePipelineRunPassed, Goto, Fail
<1>35. CASE UpdatePipelineRunFailed
  BY <1>35 DEF UpdatePipelineRunFailed, Goto
<1>36. CASE SayFail
  BY <1>36 DEF SayFail, Say, Goto
<1>37. CASE SendDone
  BY <1>37 DEF SendDone, GoDown
<1>38. CASE ReceiveDone
  BY <1>38 DEF ReceiveDone, Goto, Internal
<1>39. CASE CloseDone
  BY <1>39 DEF CloseDone, GoDown
<1>40. CASE LateOutput
  BY <1>40 DEF LateOutput, Say
<1>41. CASE HandleOutput
  BY <1>41 DEF HandleOutput
<1>42. CASE HandleStatus
  BY <1>42 DEF HandleStatus
<1>43. CASE UNCHANGED vars
  BY <1>43 DEF vars
<1> QED
  BY <1>1, <1>2, <1>3, <1>4, <1>5, <1>7, <1>8, <1>9,
     <1>10, <1>11, <1>12, <1>13, <1>14, <1>15, <1>16, <1>17, <1>18,
     <1>19, <1>20, <1>21, <1>22, <1>23, <1>24, <1>25, <1>26, <1>27,
     <1>28, <1>29, <1>30, <1>31, <1>32, <1>33, <1>34, <1>35, <1>36,
     <1>37, <1>38, <1>39, <1>40, <1>41, <1>42, <1>43
  DEF Next, Request, Environment, Worker

(* The empty database and the new queue are typed. *)
LEMMA InitTyped == Init => TypeOK
<1> SUFFICES ASSUME Init PROVE TypeOK
  OBVIOUS
<1> USE RunQueueAssumption DEF Init
<1>1. StoreType    BY DEF StoreType, Status
<1>2. CallerType   BY DEF CallerType
<1>3. ChannelType
  <2>1. queueClosed \in BOOLEAN /\ doneClosed \in BOOLEAN
    OBVIOUS
  <2>2. queue \in Seq(Runs) /\ Len(queue) <= QueueSize
    OBVIOUS
  <2> QED BY <2>1, <2>2 DEF ChannelType
<1>4. WorkerType   BY DEF WorkerType, PCs, Errors, WithoutRun
<1>5. StepType
  <2>1. leaked \in BOOLEAN
    OBVIOUS
  <2>2. lines \in 0 .. MaxLines
    OBVIOUS
  <2> QED BY <2>1, <2>2 DEF StepType
<1>6. ContextType  BY DEF ContextType
<1>7. PumpType     BY DEF PumpType
<1>8. HistoryType  BY DEF HistoryType
<1>9. CounterType  BY DEF CounterType
<1> QED
  BY <1>1, <1>2, <1>3, <1>4, <1>5, <1>6, <1>7, <1>8, <1>9 DEF TypeOK

(* Every state of the run queue is well typed and its channel never holds  *)
(* more runs than NewRunQueue gave it room for, for any number of runs,    *)
(* capacity, lines, shutdowns and restarts (Enqueue, lines 67-74).         *)
THEOREM TypeCorrect == Spec => []TypeOK
BY InitTyped, StepTyped, PTL DEF Spec

(* However Shutdown, crashes, cancellations and store errors interleave, a *)
(* process never takes a second run from the queue of a pipeline           *)
(* (run_queue.go:76-104 with the sends at 241, 291 and 806).               *)
THEOREM OneRunPerProcess == Spec => []AtMostOneRunServed
<1>1. Init => ServeInv
  BY DEF Init, ServeInv, AtMostOneRunServed
<1>2. ServeInv => AtMostOneRunServed
  BY DEF ServeInv
<1> QED BY <1>1, <1>2, StepServes, TypeCorrect, PTL DEF Spec

(* As main wires the service, with no call of Shutdown, no send on and no  *)
(* second close of a closed channel ever brings the process down, for any  *)
(* number of runs, restarts and store errors (Run, Shutdown, Enqueue).     *)
THEOREM NoPanicAsWired == Spec => []NoChannelPanicAsWired
<1>1. Init => WiredInv
  BY DEF Init, WiredInv
<1>2. WiredInv => NoChannelPanicAsWired
  BY DEF WiredInv, NoChannelPanicAsWired
<1> QED BY <1>1, <1>2, StepWired, TypeCorrect, PTL DEF Spec

-----------------------------------------------------------------------------
(* The statements of an iteration, by what they find in the run's row.     *)
Fresh     == {"addCancel", "runData", "started"}
Executing == {"readStarted", "notifyStarted", "connect", "connectErr", "clone",
              "cloning", "cloned", "script", "parsed", "exec", "pass"}
Passing   == {"readPassed", "notifyPassed"}
Failing   == {"failed", "readFailed", "notifyFailed"}
Ending    == {"fail", "sendDone", "recvDone", "closeDone"}

(* What a step does to output pump and worker when it sends nothing to the *)
(* store: it may hand the pump a line, and goes on in its iteration.       *)
Sends == \/ outPump' = outPump
         \/ outPump = "idle" /\ outPump' = "log"
         \/ outPump = "idle" /\ outPump' = "pass" /\ pc = "pass" /\ pc' = "passed"
         \/ outPump = "idle" /\ outPump' = "fail" /\ pc = "fail" /\ pc' = "sendDone"

GoesOn ==
    \/ UNCHANGED <<pc, err>>
    \/ pc \in WithoutRun /\ pc' \in WithoutRun /\ UNCHANGED err
    \/ pc = "runData" /\ pc' = "started" /\ UNCHANGED err
    \/ pc \in Executing /\ pc' \in Executing \cup {"passed"} /\ UNCHANGED err
    \/ pc = "readPassed" /\ pc' = "notifyPassed" /\ UNCHANGED err
    \/ pc = "readFailed" /\ pc' \in {"notifyFailed", "fail"} /\ UNCHANGED err
    \/ pc \in Ending /\ pc' \in Ending \ {"fail"} /\ UNCHANGED err
    \/ /\ pc \in {"runData", "readPassed"} \cup Executing /\ pc' = "failed"
       /\ err' = "cancel" => pc = "exec" /\ run \in cancelled
       /\ pc = "readPassed" => StoreMayFail \/ pipeline # "present"

(* The worker, the goroutine of a step or a restart: no row, caller, queue,*)
(* cancel function or broadcast is touched.                                *)
Move == /\ UNCHANGED <<status, output, pipeline, posting, queue, run, cancels,
                       cancelled, statPump, shown>>
        /\ GoesOn /\ Sends

(* A step does one of these things.                                        *)
Kinds == \/ \E r \in Runs : \/ CreatePipelineRun(r) \/ Enqueue(r)
                             \/ EnqueueRefused(r) \/ CancelRun(r)
         \/ \E why \in {"crash", "queue", "map", "done"} : GoDown(why)
         \/ DeletePipelineRow \/ RemoveRunQueue
         \/ TakeRun \/ AddCancel
         \/ UpdatePipelineRunStartedOn \/ UpdatePipelineRunPassed
         \/ UpdatePipelineRunFailed \/ Notify
         \/ CloseDone /\ ~doneClosed
         \/ HandleOutput \/ HandleStatus
         \/ Move

(* Next, sorted. *)
LEMMA StepKinds == [Next]_vars => Kinds
<1> SUFFICES ASSUME [Next]_vars PROVE Kinds
  OBVIOUS
<1>1. ASSUME NEW r \in Runs, Request(r) PROVE Kinds
  <2>1. CASE CancelRace(r) \/ EnqueuePanics(r)
    BY <2>1 DEF CancelRace, EnqueuePanics, Kinds
  <2> QED BY <1>1, <2>1 DEF Request, Kinds
<1>2. CASE Environment
  <2>1. CASE Crash
    BY <2>1 DEF Crash, Kinds
  <2>2. Restart => Move
    BY DEF Restart, Up, Move, GoesOn, Sends, WithoutRun, store, callers,
           channels, contexts, pumps, history
  <2>3. ShutdownReceives => Move
    BY DEF ShutdownReceives, Move, GoesOn, Sends, Ending, store, callers,
           channels, contexts, pumps, history
  <2>4. ShutdownCloses => Move
    BY DEF ShutdownCloses, Move, GoesOn, Sends, store, callers, worker,
           contexts, pumps, history
  <2> QED BY <1>2, <2>1, <2>2, <2>3, <2>4 DEF Environment, Kinds
<1>3. CASE Worker
  <2> USE DEF store, callers, channels, worker, contexts, pumps, history
  <2>1. StopLoop => Move
    BY DEF StopLoop, Move, GoesOn, Sends, Goto, WithoutRun
  <2>2. ReadPipelineRunData => Move
    BY DEF ReadPipelineRunData, Move, GoesOn, Sends, Goto, Fail, Internal, Fresh
  <2>3. ReadRunByID => Move
    BY DEF ReadRunByID, Move, GoesOn, Sends, Goto, Fail, Internal, Executing,
           StoreCall, RowReadable
  <2>4. ParsePrivateKey \/ ConnectionError => Move
    BY DEF ParsePrivateKey, ConnectionError, Move, GoesOn, Sends, Goto, Fail,
           Say, Executing
  <2>5. StartClone \/ Clone \/ ReadPipelineScript => Move
    BY DEF StartClone, Clone, ReadPipelineScript, Move, GoesOn, Sends, Goto,
           Fail, Internal, Executing
  <2>6. SayCloned \/ SayParsed \/ StepOutput => Move
    BY DEF SayCloned, SayParsed, StepOutput, Move, GoesOn, Sends, Goto, Say,
           Executing
  <2>7. StepsPass \/ StepFails => Move
    BY DEF StepsPass, StepFails, Move, GoesOn, Sends, Goto, Fail, Internal,
           Executing
  <2>8. StepTimesOut \/ StepCancelled => Move
    BY DEF StepTimesOut, StepCancelled, Move, GoesOn, Sends, Fail, Say,
           Executing
  <2>9. SayPass \/ SayFail => Move
    BY DEF SayPass, SayFail, Move, GoesOn, Sends, Goto, Say, Executing, Ending
  <2>10. ReceiveDone => Move
    BY DEF ReceiveDone, Move, GoesOn, Sends, Goto, Internal, Ending
  <2>11. SendDone => GoDown("done")
    BY DEF SendDone
  <2>12. CloseDone => GoDown("done") \/ (CloseDone /\ ~doneClosed)
    <3>1. CASE doneClosed
      BY <3>1 DEF CloseDone
    <3> QED BY <3>1
  <2> QED
    BY <1>3, <2>1, <2>2, <2>3, <2>4, <2>5, <2>6, <2>7, <2>8, <2>9, <2>10,
       <2>11, <2>12 DEF Worker, Kinds
<1>4. CASE LateOutput
  BY <1>4 DEF LateOutput, Kinds, Move, GoesOn, Sends, Say, store, callers,
              channels, worker, contexts, history
<1>5. CASE UNCHANGED vars
  BY <1>5 DEF vars, Kinds, Move, GoesOn, Sends, store, callers, channels,
              worker, contexts, pumps, history
<1>6. CASE HandleOutput \/ HandleStatus
  BY <1>6 DEF Kinds
<1> QED BY <1>1, <1>2, <1>3, <1>4, <1>5, <1>6 DEF Next

-----------------------------------------------------------------------------
(* The queue channel as a sequence.                                        *)
Distinct(s) == \A i, j \in 1 .. Len(s) : s[i] = s[j] => i = j

(* A send adds the run at the end, once.                                   *)
LEMMA AppendElements ==
  ASSUME NEW S, NEW s \in Seq(S), NEW x \in S
  PROVE  /\ Elements(Append(s, x)) = Elements(s) \cup {x}
         /\ Distinct(s) /\ x \notin Elements(s) => Distinct(Append(s, x))
<1>1. /\ Len(Append(s, x)) = Len(s) + 1 /\ Len(s) \in Nat
      /\ \A i \in 1 .. Len(s) : Append(s, x)[i] = s[i]
      /\ Append(s, x)[Len(s) + 1] = x
  OBVIOUS
<1>2. 1 .. (Len(s) + 1) = (1 .. Len(s)) \cup {Len(s) + 1}
  BY <1>1
<1>3. Elements(Append(s, x)) = Elements(s) \cup {x}
  BY <1>1, <1>2 DEF Elements
<1>4. ASSUME Distinct(s), x \notin Elements(s) PROVE Distinct(Append(s, x))
  BY <1>1, <1>2, <1>4 DEF Distinct, Elements
<1> QED BY <1>3, <1>4

(* A receive removes the run in front, which is not behind it again.       *)
LEMMA TailElements ==
  ASSUME NEW S, NEW s \in Seq(S), s # <<>>
  PROVE  /\ Elements(s) = {Head(s)} \cup Elements(Tail(s))
         /\ Distinct(s) => /\ Distinct(Tail(s))
                           /\ Head(s) \notin Elements(Tail(s))
<1>1. /\ Len(Tail(s)) = Len(s) - 1 /\ Len(s) \in Nat \ {0}
      /\ \A i \in 1 .. Len(s) - 1 : Tail(s)[i] = s[i + 1]
      /\ Head(s) = s[1]
  OBVIOUS
<1>2. \A i \in 1 .. Len(s) : i = 1 \/ i - 1 \in 1 .. Len(s) - 1
  BY <1>1
<1>3. Elements(s) = {Head(s)} \cup Elements(Tail(s))
  <2>1. ASSUME NEW x \in Elements(s) PROVE x \in {Head(s)} \cup Elements(Tail(s))
    <3>1. PICK i \in 1 .. Len(s) : x = s[i]
      BY DEF Elements
    <3>2. CASE i = 1
      BY <3>1, <3>2, <1>1
    <3>3. CASE i # 1
      <4>1. i - 1 \in 1 .. Len(Tail(s)) /\ Tail(s)[i - 1] = s[i]
        BY <3>1, <3>3, <1>1, <1>2
      <4> QED BY <4>1, <3>1 DEF Elements
    <3> QED BY <3>2, <3>3
  <2>2. Elements(Tail(s)) \subseteq Elements(s) /\ Head(s) \in Elements(s)
    BY <1>1 DEF Elements
  <2> QED BY <2>1, <2>2
<1>4. ASSUME Distinct(s) PROVE Distinct(Tail(s)) /\ Head(s) \notin Elements(Tail(s))
  <2>1. \A i \in 1 .. Len(Tail(s)) : i + 1 \in 1 .. Len(s) /\ i + 1 # 1
    BY <1>1
  <2>2. Distinct(Tail(s))
    BY <1>1, <1>4, <2>1 DEF Distinct
  <2>3. Head(s) \notin Elements(Tail(s))
    BY <1>1, <1>4, <2>1 DEF Distinct, Elements
  <2> QED BY <2>2, <2>3
<1> QED BY <1>3, <1>4

-----------------------------------------------------------------------------
(***************************************************************************)
(* Where a run is, and what its row says meanwhile: with a caller or in    *)
(* the queue, and queued; in the worker's hands, with the status of the    *)
(* statement it is at; nowhere.  A run is in one place at a time, and only *)
(* the run in hand has a cancel function.                                  *)
(***************************************************************************)
HoldInv ==
    /\ HeldOnce
    /\ \A r \in posting : status[r] = "queued" /\ r \notin Elements(queue) \cup {run}
    /\ cancels \subseteq {run}
    /\ pc \in Fresh => status[run] = "queued"
    /\ pc \in Executing \cup {"passed"} => status[run] = "running"
    /\ pc \in Passing => status[run] = "passed"
    /\ pc = "failed" => status[run] \in {"queued", "running", "passed"}
    /\ pc = "failed" /\ err = "cancel" => status[run] = "running" /\ run \in cancelled

(***************************************************************************)
(* A verdict is handed to the status pump only at the worker's last        *)
(* statements, after which it changes no row, and only once.               *)
(***************************************************************************)
Unshown(r) == \A i \in 1 .. Len(shown[r]) : shown[r][i] \notin Verdicts

VerdictInv ==
    /\ ShownVerdictIsFinal
    /\ statPump \in Verdicts => pc \in Ending /\ statPump = status[run]
    /\ run \in Runs /\ (pc \notin Ending \/ statPump \in Status) => Unshown(run)

(***************************************************************************)
(* A banner is sent when the steps are over.  A run that failed by its     *)
(* cancellation had none by then, and gets none after: its context is      *)
(* cancelled for good.                                                     *)
(***************************************************************************)
Clean(r) == \A i \in 1 .. Len(output[r]) : output[r][i] = "log"

BannerInv ==
    /\ \A r \in Runs : status[r] = "cancelled" => r \in cancelled /\ Clean(r)
    /\ \A r \in Runs : status[r] = "none" \/ r \in posting \cup Elements(queue) => Clean(r)
    /\ pc \in WithoutRun \cup {"addCancel"} => outPump = "off"
    /\ pc \in Fresh \cup Executing => Clean(run) /\ outPump \notin {"pass", "fail"}
    /\ pc = "failed" /\ err = "cancel" => Clean(run)

(***************************************************************************)
(* With a store that answers and a pipeline that is there, the worker gets *)
(* from the PASS banner to its last statements without failing.            *)
(***************************************************************************)
AfterPass == {"passed", "sendDone", "recvDone", "closeDone"} \cup Passing
HasPass(r) == "pass" \in Elements(output[r])

PassInv ==
    ~StoreMayFail /\ pipeline = "present" =>
        /\ \A r \in Runs : HasPass(r) => status[r] \in {"running", "passed"}
        /\ run \in Runs /\ (HasPass(run) \/ outPump = "pass")
               => pc \in AfterPass /\ status[run] \in {"running", "passed"}
        /\ pc = "failed" => status[run] # "passed"

(* HeldOnce in terms of the sequence in the channel, before and after a step. *)
LEMMA HeldOnceMeans ==
  /\ HeldOnce <=> /\ Distinct(queue)
                  /\ run \notin Elements(queue)
                  /\ \A r \in Elements(queue) : status[r] = "queued"
                  /\ run \in Runs => status[run] # "none"
  /\ HeldOnce' <=> /\ Distinct(queue')
                   /\ run' \notin Elements(queue')
                   /\ \A r \in Elements(queue') : status'[r] = "queued"
                   /\ run' \in Runs => status'[run'] # "none"
BY DEF HeldOnce, Lifecycle!HeldOnce, Lifecycle!Waiting, Distinct, Elements

(* Every step keeps each run in one place, with the status of that place.  *)
LEMMA StepHolds == TypeOK /\ HoldInv /\ [Next]_vars => HoldInv'
<1> SUFFICES ASSUME TypeOK, HoldInv, Kinds PROVE HoldInv'
  BY StepKinds
<1> USE RunQueueAssumption, HeldOnceMeans
       DEF HoldInv, TypeOK, StoreType, CallerType, ChannelType, WorkerType, ContextType,
       WithoutRun, Fresh, Executing, Passing, store, callers, channels, worker, contexts
<1>1. ASSUME NEW r \in Runs, CreatePipelineRun(r) PROVE HoldInv'
  BY <1>1 DEF CreatePipelineRun
<1>2. ASSUME NEW r \in Runs, Enqueue(r) PROVE HoldInv'
  <2>1. queue \in Seq(Runs) /\ r \notin Elements(queue)
    BY <1>2 DEF Enqueue
  <2>2. /\ Elements(queue') = Elements(queue) \cup {r}
        /\ Distinct(queue')
    BY <1>2, <2>1, AppendElements DEF Enqueue
  <2> QED BY <1>2, <2>2 DEF Enqueue
<1>3. ASSUME NEW r \in Runs, EnqueueRefused(r) PROVE HoldInv'
  BY <1>3 DEF EnqueueRefused
<1>4. ASSUME NEW r \in Runs, CancelRun(r) PROVE HoldInv'
  BY <1>4 DEF CancelRun
<1>5. ASSUME NEW why \in {"crash", "queue", "map", "done"}, GoDown(why) PROVE HoldInv'
  <2>1. Elements(queue') = {} /\ Distinct(queue')
    BY <1>5 DEF GoDown, Elements, Distinct
  <2> QED BY <1>5, <2>1 DEF GoDown
<1>6. CASE DeletePipelineRow
  BY <1>6 DEF DeletePipelineRow
<1>7. CASE RemoveRunQueue
  BY <1>7 DEF RemoveRunQueue
<1>8. CASE TakeRun
  <2>1. queue \in Seq(Runs) /\ queue # <<>>
    BY <1>8 DEF TakeRun
  <2>2. /\ Elements(queue) = {Head(queue)} \cup Elements(Tail(queue))
        /\ Distinct(Tail(queue)) /\ Head(queue) \notin Elements(Tail(queue))
    BY <2>1, TailElements
  <2>3. cancels = {} /\ Head(queue) \in Runs
    BY <1>8 DEF TakeRun
  <2> QED BY <1>8, <2>2, <2>3 DEF TakeRun
<1>9. CASE AddCancel
  BY <1>9 DEF AddCancel, Goto
<1>10. CASE UpdatePipelineRunStartedOn
  BY <1>10 DEF UpdatePipelineRunStartedOn, StoreStatus, Goto, Fail
<1>11. CASE UpdatePipelineRunPassed
  BY <1>11 DEF UpdatePipelineRunPassed, StoreStatus, Goto, Fail
<1>12. CASE UpdatePipelineRunFailed
  BY <1>12 DEF UpdatePipelineRunFailed, StoreStatus, Goto, Verdict
<1>13. CASE Notify
  BY <1>13 DEF Notify, Goto
<1>14. CASE CloseDone /\ ~doneClosed
  <2>1. /\ UNCHANGED <<status, posting, queue, cancelled>>
        /\ run' = NoRun /\ pc' = "select" /\ cancels' = cancels \ {run}
    BY <1>14 DEF CloseDone
  <2>2. NoRun \notin Elements(queue) /\ NoRun \notin posting
    BY DEF Elements
  <2> QED BY <2>1, <2>2
<1>15. CASE HandleOutput
  BY <1>15 DEF HandleOutput
<1>16. CASE HandleStatus
  BY <1>16 DEF HandleStatus
<1>17. CASE Move
  <2>1. UNCHANGED <<status, posting, queue, run, cancels, cancelled>> /\ GoesOn
    BY <1>17 DEF Move
  <2>2. HeldOnce'
    BY <2>1
  <2>3. pc' \in Fresh => status'[run'] = "queued"
    BY <2>1 DEF GoesOn, Ending
  <2>4. pc' \in Executing \cup {"passed"} => status'[run'] = "running"
    BY <2>1 DEF GoesOn, Ending
  <2>5. pc' \in Passing => status'[run'] = "passed"
    BY <2>1 DEF GoesOn, Ending
  <2>6. pc' = "failed" => status'[run'] \in {"queued", "running", "passed"}
    BY <2>1 DEF GoesOn, Ending
  <2>7. pc' = "failed" /\ err' = "cancel"
            => status'[run'] = "running" /\ run' \in cancelled'
    BY <2>1 DEF GoesOn, Ending
  <2> QED BY <2>1, <2>2, <2>3, <2>4, <2>5, <2>6, <2>7
<1> QED BY <1>1, <1>2, <1>3, <1>4, <1>5, <1>6, <1>7, <1>8, <1>9, <1>10, <1>11,
          <1>12, <1>13, <1>14, <1>15, <1>16, <1>17 DEF Kinds

(* Every step keeps a shown verdict the last and stored one.               *)
LEMMA StepShows == TypeOK /\ HoldInv /\ VerdictInv /\ [Next]_vars => VerdictInv'
<1> SUFFICES ASSUME TypeOK, HoldInv, VerdictInv, Kinds PROVE VerdictInv'
  BY StepKinds
<1> USE RunQueueAssumption
       DEF VerdictInv, ShownVerdictIsFinal, Unshown, TypeOK, StoreType,
           WorkerType, PumpType, HistoryType,
       WithoutRun, Fresh, Executing, Passing, Failing, Ending, Status, Verdicts,
       store, callers, channels, worker, contexts, pumps, history
<1>1. ASSUME NEW r \in Runs, CreatePipelineRun(r) PROVE VerdictInv'
  BY <1>1 DEF CreatePipelineRun
<1>2. ASSUME NEW r \in Runs, Enqueue(r) PROVE VerdictInv'
  BY <1>2 DEF Enqueue
<1>3. ASSUME NEW r \in Runs, EnqueueRefused(r) PROVE VerdictInv'
  BY <1>3 DEF EnqueueRefused
<1>4. ASSUME NEW r \in Runs, CancelRun(r) PROVE VerdictInv'
  BY <1>4 DEF CancelRun
<1>5. ASSUME NEW why \in {"crash", "queue", "map", "done"}, GoDown(why) PROVE VerdictInv'
  BY <1>5 DEF GoDown, store
<1>6. CASE DeletePipelineRow
  BY <1>6 DEF DeletePipelineRow
<1>7. CASE RemoveRunQueue
  BY <1>7 DEF RemoveRunQueue
<1>8. CASE TakeRun
  <2>1. status[Head(queue)] = "queued" /\ Head(queue) \in Runs
    <3>1. queue \in Seq(Runs) /\ queue # <<>>
      BY <1>8 DEF TakeRun, ChannelType
    <3>2. Head(queue) \in Elements(queue)
      BY <3>1, TailElements
    <3> QED BY <3>1, <3>2, HeldOnceMeans DEF HoldInv
  <2>2. Unshown(Head(queue))
    BY <2>1
  <2>3. UNCHANGED <<status, statPump, shown>> /\ pc = "select"
        /\ pc' = "addCancel" /\ run' = Head(queue)
    BY <1>8 DEF TakeRun
  <2> QED BY <2>2, <2>3
<1>9. CASE AddCancel
  BY <1>9 DEF AddCancel, Goto
<1>10. CASE UpdatePipelineRunStartedOn
  BY <1>10 DEF UpdatePipelineRunStartedOn, StoreStatus, Goto, Fail
<1>11. CASE UpdatePipelineRunPassed
  BY <1>11 DEF UpdatePipelineRunPassed, StoreStatus, Goto, Fail
<1>12. CASE UpdatePipelineRunFailed
  BY <1>12 DEF UpdatePipelineRunFailed, StoreStatus, Goto, Verdict
<1>13. CASE Notify
  <2>1. UNCHANGED <<status, run, shown>> /\ statPump' = status[run] /\ run \in Runs
    BY <1>13 DEF Notify, Goto
  <2>2. pc' \in Ending \/ status[run] = "running"
    BY <1>13 DEF Notify, Goto, HoldInv
  <2>3. Unshown(run)
    BY <1>13 DEF Notify
  <2> QED BY <2>1, <2>2, <2>3
<1>14. CASE CloseDone /\ ~doneClosed
  BY <1>14 DEF CloseDone
<1>15. CASE HandleOutput
  BY <1>15 DEF HandleOutput
<1>16. CASE HandleStatus
  BY <1>16 DEF HandleStatus
<1>17. CASE Move
  BY <1>17 DEF Move, GoesOn, Sends
<1> QED BY <1>1, <1>2, <1>3, <1>4, <1>5, <1>6, <1>7, <1>8, <1>9, <1>10, <1>11,
          <1>12, <1>13, <1>14, <1>15, <1>16, <1>17 DEF Kinds

(* A line in the log is one more element, and the log stays clean if it is. *)
LEMMA AppendLine ==
  ASSUME NEW r \in Runs, NEW line \in Lines, output \in [Runs -> Seq(Lines)],
         output' = [output EXCEPT ![r] = Append(@, line)]
  PROVE  /\ \A q \in Runs \ {r} : output'[q] = output[q]
         /\ Elements(output'[r]) = Elements(output[r]) \cup {line}
         /\ line = "log" /\ Clean(r) => Clean(r)'
<1>1. output[r] \in Seq(Lines) /\ output'[r] = Append(output[r], line)
  OBVIOUS
<1> QED BY <1>1, AppendElements DEF Clean

(* Every step keeps the logs of cancelled runs without a banner.           *)
LEMMA StepClean == TypeOK /\ HoldInv /\ BannerInv /\ [Next]_vars => BannerInv'
<1> SUFFICES ASSUME TypeOK, HoldInv, BannerInv, Kinds PROVE BannerInv'
  BY StepKinds
<1> USE RunQueueAssumption
       DEF BannerInv, Clean, TypeOK, StoreType, WorkerType, PumpType, ChannelType,
       WithoutRun, Fresh, Executing, Passing, Failing, Ending, Status, Verdicts,
       store, callers, channels, worker, contexts, pumps, history
<1>1. ASSUME NEW r \in Runs, CreatePipelineRun(r) PROVE BannerInv'
  BY <1>1 DEF CreatePipelineRun
<1>2. ASSUME NEW r \in Runs, Enqueue(r) PROVE BannerInv'
  <2>1. queue \in Seq(Runs)
    OBVIOUS
  <2>2. Elements(queue') = Elements(queue) \cup {r} /\ r \in posting
    BY <1>2, <2>1, AppendElements DEF Enqueue
  <2> QED BY <1>2, <2>2 DEF Enqueue
<1>3. ASSUME NEW r \in Runs, EnqueueRefused(r) PROVE BannerInv'
  BY <1>3 DEF EnqueueRefused
<1>4. ASSUME NEW r \in Runs, CancelRun(r) PROVE BannerInv'
  BY <1>4 DEF CancelRun
<1>5. ASSUME NEW why \in {"crash", "queue", "map", "done"}, GoDown(why) PROVE BannerInv'
  <2>1. Elements(queue') = {}
    BY <1>5 DEF GoDown, Elements
  <2> QED BY <1>5, <2>1 DEF GoDown
<1>6. CASE DeletePipelineRow
  BY <1>6 DEF DeletePipelineRow
<1>7. CASE RemoveRunQueue
  BY <1>7 DEF RemoveRunQueue
<1>8. CASE TakeRun
  <2>1. queue \in Seq(Runs) /\ queue # <<>>
    BY <1>8 DEF TakeRun
  <2>2. Elements(queue) = {Head(queue)} \cup Elements(queue')
    BY <1>8, <2>1, TailElements DEF TakeRun
  <2>3. Clean(Head(queue)) /\ Head(queue) \in Runs
    BY <2>1, <2>2
  <2> QED BY <1>8, <2>2, <2>3 DEF TakeRun
<1>9. CASE AddCancel
  BY <1>9 DEF AddCancel, Goto
<1>10. CASE UpdatePipelineRunStartedOn
  BY <1>10 DEF UpdatePipelineRunStartedOn, StoreStatus, Goto, Fail
<1>11. CASE UpdatePipelineRunPassed
  BY <1>11 DEF UpdatePipelineRunPassed, StoreStatus, Goto, Fail
<1>12. CASE UpdatePipelineRunFailed
  <2>1. /\ UNCHANGED <<output, posting, queue, run, cancelled, outPump>>
        /\ pc = "failed" /\ pc' = "readFailed" /\ run \in Runs
        /\ status' \in {status, [status EXCEPT ![run] = Verdict(err)]}
    BY <1>12 DEF UpdatePipelineRunFailed, StoreStatus, Goto
  <2>2. Verdict(err) # "none"
    BY DEF Verdict
  <2>3. Verdict(err) = "cancelled" => run \in cancelled /\ Clean(run)
    BY <2>1 DEF HoldInv, Verdict
  <2> QED BY <2>1, <2>2, <2>3
<1>13. CASE Notify
  BY <1>13 DEF Notify, Goto
<1>14. CASE CloseDone /\ ~doneClosed
  BY <1>14 DEF CloseDone
<1>15. CASE HandleOutput
  <2>1. /\ UNCHANGED <<status, posting, queue, pc, run, err, cancelled>>
        /\ outPump \in Lines /\ outPump' = "idle" /\ run \in Runs
    BY <1>15 DEF HandleOutput, Lines
  <2>2. CASE output' = output
    BY <2>1, <2>2 DEF Lines
  <2>3. CASE output' # output
    <3>1. run \notin cancelled /\ output' = [output EXCEPT ![run] = Append(@, outPump)]
      BY <1>15, <2>3 DEF HandleOutput, StoreCall
    <3>2. /\ \A q \in Runs \ {run} : output'[q] = output[q]
          /\ outPump = "log" /\ Clean(run) => Clean(run)'
      BY <2>1, <3>1, AppendLine
    <3>3. \A q \in Runs \ {run} : Clean(q) <=> Clean(q)'
      BY <3>2, <2>1
    <3>4. status[run] # "none" /\ run \notin posting \cup Elements(queue)
      BY <2>1, HeldOnceMeans DEF HoldInv
    <3>5. pc \in Fresh \cup Executing => Clean(run)'
      BY <2>1, <3>2 DEF Lines
    <3>6. ~(pc = "failed" /\ err = "cancel")
      BY <3>1 DEF HoldInv
    <3> QED BY <2>1, <3>1, <3>3, <3>4, <3>5, <3>6
  <2> QED BY <2>2, <2>3
<1>16. CASE HandleStatus
  BY <1>16 DEF HandleStatus
<1>17. CASE Move
  BY <1>17 DEF Move, GoesOn, Sends
<1> QED BY <1>1, <1>2, <1>3, <1>4, <1>5, <1>6, <1>7, <1>8, <1>9, <1>10, <1>11,
          <1>12, <1>13, <1>14, <1>15, <1>16, <1>17 DEF Kinds

(* Every step keeps PASS banners with runs that pass.                      *)
LEMMA StepKeepsPass == TypeOK /\ HoldInv /\ BannerInv /\ PassInv /\ [Next]_vars => PassInv'
<1> SUFFICES ASSUME TypeOK, HoldInv, BannerInv, PassInv, Kinds PROVE PassInv'
  BY StepKinds
<1> USE RunQueueAssumption
       DEF PassInv, HasPass, AfterPass, TypeOK, StoreType, WorkerType, PumpType, ChannelType,
       WithoutRun, Fresh, Executing, Passing, Failing, Ending, Status, Verdicts,
       store, callers, channels, worker, contexts, pumps, history
<1>1. ASSUME NEW r \in Runs, CreatePipelineRun(r) PROVE PassInv'
  BY <1>1 DEF CreatePipelineRun
<1>2. ASSUME NEW r \in Runs, Enqueue(r) PROVE PassInv'
  BY <1>2 DEF Enqueue
<1>3. ASSUME NEW r \in Runs, EnqueueRefused(r) PROVE PassInv'
  BY <1>3 DEF EnqueueRefused
<1>4. ASSUME NEW r \in Runs, CancelRun(r) PROVE PassInv'
  BY <1>4 DEF CancelRun
<1>5. ASSUME NEW why \in {"crash", "queue", "map", "done"}, GoDown(why) PROVE PassInv'
  BY <1>5 DEF GoDown, store
<1>6. CASE DeletePipelineRow
  BY <1>6 DEF DeletePipelineRow
<1>7. CASE RemoveRunQueue
  BY <1>7 DEF RemoveRunQueue
<1>8. CASE TakeRun
  <2>1. Clean(Head(queue)) /\ Head(queue) \in Runs /\ outPump = "off"
    <3>1. queue \in Seq(Runs) /\ queue # <<>>
      BY <1>8 DEF TakeRun
    <3>2. Head(queue) \in Elements(queue)
      BY <3>1, TailElements
    <3> QED BY <1>8, <3>1, <3>2 DEF TakeRun, BannerInv
  <2>2. ~HasPass(Head(queue))
    BY <2>1 DEF Clean, Elements
  <2> QED BY <1>8, <2>1, <2>2 DEF TakeRun
<1>9. CASE AddCancel
  BY <1>9 DEF AddCancel, Goto
<1>10. CASE UpdatePipelineRunStartedOn
  <2>1. /\ UNCHANGED <<output, pipeline, run, outPump>>
        /\ pc = "started" /\ pc' \in {"readStarted", "failed"} /\ run \in Runs
        /\ status' \in {status, [status EXCEPT ![run] = "running"]}
    BY <1>10 DEF UpdatePipelineRunStartedOn, StoreStatus, Goto, Fail
  <2>2. status[run] = "queued" /\ ~HasPass(run) /\ outPump # "pass"
    BY <2>1 DEF HoldInv, BannerInv, Clean, Elements
  <2> QED BY <2>1, <2>2
<1>11. CASE UpdatePipelineRunPassed
  <2>1. CASE StoreMayFail
    BY <2>1
  <2>2. CASE ~StoreMayFail
    <3>1. /\ UNCHANGED <<output, pipeline, run, outPump>>
          /\ pc = "passed" /\ pc' = "readPassed" /\ run \in Runs
          /\ status' = [status EXCEPT ![run] = "passed"]
      BY <1>11, <2>2 DEF UpdatePipelineRunPassed, StoreStatus, StoreCall, Goto
    <3> QED BY <3>1
  <2> QED BY <2>1, <2>2
<1>12. CASE UpdatePipelineRunFailed
  BY <1>12 DEF UpdatePipelineRunFailed, StoreStatus, Goto, Verdict
<1>13. CASE Notify
  BY <1>13 DEF Notify, Goto
<1>14. CASE CloseDone /\ ~doneClosed
  BY <1>14 DEF CloseDone
<1>15. CASE HandleOutput
  <2>1. /\ UNCHANGED <<status, pipeline, pc, run>>
        /\ outPump \in Lines /\ outPump' = "idle"
        /\ output' \in {output, [output EXCEPT ![run] = Append(@, outPump)]}
    BY <1>15 DEF HandleOutput
  <2>2. run \in Runs
    BY <2>1 DEF BannerInv, Lines
  <2>3. CASE output' = output
    BY <2>1, <2>3
  <2>4. CASE output' = [output EXCEPT ![run] = Append(@, outPump)]
    <3>1. /\ \A q \in Runs \ {run} : output'[q] = output[q]
          /\ Elements(output'[run]) = Elements(output[run]) \cup {outPump}
      BY <2>1, <2>2, <2>4, AppendLine
    <3> QED BY <2>1, <2>2, <3>1
  <2> QED BY <2>1, <2>3, <2>4
<1>16. CASE HandleStatus
  BY <1>16 DEF HandleStatus
<1>17. CASE Move
  <2>1. UNCHANGED <<status, output, pipeline, run>> /\ GoesOn /\ Sends
    BY <1>17 DEF Move
  <2>2. run \in Runs /\ pc \in Fresh \cup Executing => ~HasPass(run) /\ outPump # "pass"
    BY DEF BannerInv, Clean, Elements
  <2>3. pc \in Fresh => status[run] = "queued"
    BY DEF HoldInv
  <2>4. pc \in Executing \cup {"passed"} => status[run] = "running"
    BY DEF HoldInv
  <2>5. ~StoreMayFail /\ pipeline = "present" =>
           (run' \in Runs /\ (HasPass(run)' \/ outPump' = "pass")
               => pc' \in AfterPass /\ status'[run'] \in {"running", "passed"})
    BY <2>1, <2>2, <2>3, <2>4 DEF GoesOn, Sends
  <2>6. ~StoreMayFail /\ pipeline = "present" =>
           (pc' = "failed" => status'[run'] # "passed")
    BY <2>1, <2>3, <2>4 DEF GoesOn
  <2> QED BY <2>1, <2>5, <2>6
<1> QED BY <1>1, <1>2, <1>3, <1>4, <1>5, <1>6, <1>7, <1>8, <1>9, <1>10, <1>11,
          <1>12, <1>13, <1>14, <1>15, <1>16, <1>17 DEF Kinds

-----------------------------------------------------------------------------
(* A step leaves a stranded run where it is: only the run in hand changes  *)
(* status, and only a caller's run gets into the queue.                    *)
StrandedStep == \A r \in Stranded : status'[r] = status[r] /\ r \in Stranded'

(* So does every kind of step. *)
LEMMA StepLeavesStranded == TypeOK /\ [Next]_vars => StrandedStep
<1> SUFFICES ASSUME TypeOK, Kinds PROVE StrandedStep
  BY StepKinds
<1> USE RunQueueAssumption
       DEF StrandedStep, Stranded, TypeOK, StoreType, WorkerType, ChannelType,
       store, callers, channels, worker
<1>1. ASSUME NEW r \in Runs, CreatePipelineRun(r) PROVE StrandedStep
  BY <1>1 DEF CreatePipelineRun
<1>2. ASSUME NEW r \in Runs, Enqueue(r) PROVE StrandedStep
  <2>1. Elements(queue') = Elements(queue) \cup {r} /\ r \in posting
    BY <1>2, AppendElements DEF Enqueue
  <2> QED BY <1>2, <2>1 DEF Enqueue
<1>3. ASSUME NEW r \in Runs, EnqueueRefused(r) PROVE StrandedStep
  BY <1>3 DEF EnqueueRefused
<1>4. ASSUME NEW r \in Runs, CancelRun(r) PROVE StrandedStep
  BY <1>4 DEF CancelRun
<1>5. ASSUME NEW why \in {"crash", "queue", "map", "done"}, GoDown(why) PROVE StrandedStep
  <2>1. Elements(queue') = {}
    BY <1>5 DEF GoDown, Elements
  <2> QED BY <1>5, <2>1 DEF GoDown
<1>6. CASE DeletePipelineRow
  BY <1>6 DEF DeletePipelineRow
<1>7. CASE RemoveRunQueue
  BY <1>7 DEF RemoveRunQueue
<1>8. CASE TakeRun
  <2>1. queue \in Seq(Runs) /\ queue # <<>>
    BY <1>8 DEF TakeRun
  <2>2. Elements(queue) = {Head(queue)} \cup Elements(queue')
    BY <1>8, <2>1, TailElements DEF TakeRun
  <2> QED BY <1>8, <2>2 DEF TakeRun
<1>9. CASE AddCancel
  BY <1>9 DEF AddCancel, Goto
<1>10. CASE UpdatePipelineRunStartedOn
  BY <1>10 DEF UpdatePipelineRunStartedOn, StoreStatus, Goto, Fail
<1>11. CASE UpdatePipelineRunPassed
  BY <1>11 DEF UpdatePipelineRunPassed, StoreStatus, Goto, Fail
<1>12. CASE UpdatePipelineRunFailed
  BY <1>12 DEF UpdatePipelineRunFailed, StoreStatus, Goto, Verdict
<1>13. CASE Notify
  BY <1>13 DEF Notify, Goto
<1>14. CASE CloseDone /\ ~doneClosed
  BY <1>14 DEF CloseDone
<1>15. CASE HandleOutput
  BY <1>15 DEF HandleOutput
<1>16. CASE HandleStatus
  BY <1>16 DEF HandleStatus
<1>17. CASE Move
  BY <1>17 DEF Move, GoesOn, Sends
<1> QED BY <1>1, <1>2, <1>3, <1>4, <1>5, <1>6, <1>7, <1>8, <1>9, <1>10, <1>11,
          <1>12, <1>13, <1>14, <1>15, <1>16, <1>17 DEF Kinds

(* A stored pass stays, unless the store fails or the pipeline is gone.    *)
PassedStep == \A r \in Runs :
    ~StoreMayFail /\ pipeline = "present" /\ status[r] = "passed"
        => status'[r] = "passed"

(* The worker, the only one to touch it, is past the update that could fail it. *)
LEMMA StepKeepsPassed == TypeOK /\ HoldInv /\ PassInv /\ [Next]_vars => PassedStep
<1> SUFFICES ASSUME TypeOK, HoldInv, PassInv, Kinds PROVE PassedStep
  BY StepKinds
<1> USE RunQueueAssumption
       DEF PassedStep, TypeOK, StoreType, WorkerType, store, Fresh, Executing, Passing
<1>1. ASSUME NEW r \in Runs, CreatePipelineRun(r) PROVE PassedStep
  BY <1>1 DEF CreatePipelineRun
<1>2. ASSUME NEW r \in Runs, Enqueue(r) PROVE PassedStep
  BY <1>2 DEF Enqueue
<1>3. ASSUME NEW r \in Runs, EnqueueRefused(r) PROVE PassedStep
  BY <1>3 DEF EnqueueRefused
<1>4. ASSUME NEW r \in Runs, CancelRun(r) PROVE PassedStep
  BY <1>4 DEF CancelRun
<1>5. ASSUME NEW why \in {"crash", "queue", "map", "done"}, GoDown(why) PROVE PassedStep
  BY <1>5 DEF GoDown, store
<1>6. CASE DeletePipelineRow
  BY <1>6 DEF DeletePipelineRow
<1>7. CASE RemoveRunQueue
  BY <1>7 DEF RemoveRunQueue
<1>8. CASE TakeRun
  BY <1>8 DEF TakeRun
<1>9. CASE AddCancel
  BY <1>9 DEF AddCancel, Goto
<1>10. CASE UpdatePipelineRunStartedOn
  BY <1>10 DEF UpdatePipelineRunStartedOn, StoreStatus, HoldInv
<1>11. CASE UpdatePipelineRunPassed
  BY <1>11 DEF UpdatePipelineRunPassed, StoreStatus, Goto, Fail
<1>12. CASE UpdatePipelineRunFailed
  BY <1>12 DEF UpdatePipelineRunFailed, StoreStatus, PassInv
<1>13. CASE Notify
  BY <1>13 DEF Notify, Goto
<1>14. CASE CloseDone /\ ~doneClosed
  BY <1>14 DEF CloseDone
<1>15. CASE HandleOutput
  BY <1>15 DEF HandleOutput
<1>16. CASE HandleStatus
  BY <1>16 DEF HandleStatus
<1>17. CASE Move
  BY <1>17 DEF Move, GoesOn, Sends
<1> QED BY <1>1, <1>2, <1>3, <1>4, <1>5, <1>6, <1>7, <1>8, <1>9, <1>10, <1>11,
          <1>12, <1>13, <1>14, <1>15, <1>16, <1>17 DEF Kinds

(* Every step of the queue is a step of its life cycle, or none of it.     *)
LifecycleStep == [Lifecycle!Next]_(Lifecycle!vars)

(* The update of a row is Start, Conclude or Overturn; CancelRun is Cancel for *)
(* the run in hand; GoDown is Abandon.                                       *)
LEMMA StepFollowsLifecycle == TypeOK /\ HoldInv /\ [Next]_vars => LifecycleStep
<1> SUFFICES ASSUME TypeOK, HoldInv, Kinds PROVE LifecycleStep
  BY StepKinds
<1> USE RunQueueAssumption
       DEF LifecycleStep, Lifecycle!Next, Lifecycle!vars, TypeOK, StoreType, WorkerType,
       store, callers, channels, worker, contexts
<1>1. ASSUME NEW r \in Runs, CreatePipelineRun(r) PROVE LifecycleStep
  <2>1. Lifecycle!Create(r)
    BY <1>1 DEF CreatePipelineRun, Lifecycle!Create
  <2> QED BY <2>1
<1>2. ASSUME NEW r \in Runs, Enqueue(r) PROVE LifecycleStep
  <2>1. Lifecycle!Accept(r)
    BY <1>2 DEF Enqueue, Lifecycle!Accept, Lifecycle!Waiting, HoldInv, Elements
  <2> QED BY <2>1
<1>3. ASSUME NEW r \in Runs, EnqueueRefused(r) PROVE LifecycleStep
  BY <1>3 DEF EnqueueRefused
<1>4. ASSUME NEW r \in Runs, CancelRun(r) PROVE LifecycleStep
  <2>1. Lifecycle!Cancel
    BY <1>4 DEF CancelRun, Lifecycle!Cancel, HoldInv
  <2> QED BY <2>1
<1>5. ASSUME NEW why \in {"crash", "queue", "map", "done"}, GoDown(why) PROVE LifecycleStep
  <2>1. Lifecycle!Abandon
    BY <1>5 DEF GoDown, Lifecycle!Abandon
  <2> QED BY <2>1
<1>6. CASE DeletePipelineRow
  BY <1>6 DEF DeletePipelineRow
<1>7. CASE RemoveRunQueue
  BY <1>7 DEF RemoveRunQueue
<1>8. CASE TakeRun
  <2>1. Lifecycle!Begin
    BY <1>8 DEF TakeRun, Lifecycle!Begin, WithoutRun
  <2> QED BY <2>1
<1>9. CASE AddCancel
  BY <1>9 DEF AddCancel, Goto
<1>10. CASE UpdatePipelineRunStartedOn
  <2>1. run \in Runs /\ status[run] = "queued"
    BY <1>10 DEF UpdatePipelineRunStartedOn, HoldInv, Fresh, WithoutRun
  <2>2. Lifecycle!Start \/ UNCHANGED <<status, queue, run, cancelled>>
    BY <1>10, <2>1
    DEF UpdatePipelineRunStartedOn, StoreStatus, Goto, Fail, Lifecycle!Start
  <2> QED BY <2>2
<1>11. CASE UpdatePipelineRunPassed
  <2>1. run \in Runs /\ status[run] = "running"
    BY <1>11 DEF UpdatePipelineRunPassed, HoldInv, WithoutRun
  <2>2. Lifecycle!Conclude("passed") \/ UNCHANGED <<status, queue, run, cancelled>>
    BY <1>11, <2>1
    DEF UpdatePipelineRunPassed, StoreStatus, Goto, Fail, Lifecycle!Conclude
  <2> QED BY <2>2 DEF Lifecycle!Verdicts
<1>12. CASE UpdatePipelineRunFailed
  <2>1. /\ run \in Runs /\ status[run] \in {"queued", "running", "passed"}
        /\ err = "cancel" => status[run] = "running" /\ run \in cancelled
    BY <1>12 DEF UpdatePipelineRunFailed, HoldInv, WithoutRun
  <2>2. \/ UNCHANGED <<status, queue, run, cancelled>>
        \/ /\ status' = [status EXCEPT ![run] = Verdict(err)]
           /\ UNCHANGED <<queue, run, cancelled>>
    BY <1>12 DEF UpdatePipelineRunFailed, StoreStatus, Goto
  <2>3. \/ UNCHANGED <<status, queue, run, cancelled>>
        \/ Lifecycle!Conclude("failed") \/ Lifecycle!Conclude("cancelled")
        \/ Lifecycle!Overturn
    BY <2>1, <2>2 DEF Verdict, Lifecycle!Conclude, Lifecycle!Overturn
  <2> QED BY <2>3 DEF Lifecycle!Verdicts
<1>13. CASE Notify
  BY <1>13 DEF Notify, Goto
<1>14. CASE CloseDone /\ ~doneClosed
  <2>1. Lifecycle!Release
    BY <1>14 DEF CloseDone, Lifecycle!Release, WithoutRun
  <2> QED BY <2>1
<1>15. CASE HandleOutput
  BY <1>15 DEF HandleOutput
<1>16. CASE HandleStatus
  BY <1>16 DEF HandleStatus
<1>17. CASE Move
  BY <1>17 DEF Move, GoesOn, Sends
<1> QED BY <1>1, <1>2, <1>3, <1>4, <1>5, <1>6, <1>7, <1>8, <1>9, <1>10, <1>11,
          <1>12, <1>13, <1>14, <1>15, <1>16, <1>17 DEF Kinds

-----------------------------------------------------------------------------
(* The invariants together, with the types. *)
SafetyInv == TypeOK /\ HoldInv /\ VerdictInv /\ BannerInv /\ PassInv

(* They hold of every state of the queue.                                  *)
LEMMA Safe == Spec => []SafetyInv
<1>1. Init => TypeOK
  BY InitTyped
<1>2. Init => HoldInv
  <2> SUFFICES ASSUME Init PROVE HoldInv
    OBVIOUS
  <2>1. Elements(queue) = {} /\ Distinct(queue)
    BY DEF Init, Elements, Distinct
  <2> QED
    BY <2>1, HeldOnceMeans, RunQueueAssumption
    DEF Init, HoldInv, Fresh, Executing, Passing
<1>3. Init => VerdictInv
  BY RunQueueAssumption DEF Init, VerdictInv, ShownVerdictIsFinal, Verdicts
<1>4. Init => BannerInv
  BY DEF Init, BannerInv, Clean, Fresh, Executing
<1>5. Init => PassInv
  BY RunQueueAssumption DEF Init, PassInv, HasPass, Elements
<1>6. SafetyInv /\ [Next]_vars => SafetyInv'
  BY StepTyped, StepHolds, StepShows, StepClean, StepKeepsPass DEF SafetyInv
<1>7. Init => SafetyInv
  BY <1>1, <1>2, <1>3, <1>4, <1>5 DEF SafetyInv
<1> QED BY <1>6, <1>7, PTL DEF Spec

(* No run is executed twice: however callers, worker, shutdown and crashes *)
(* interleave between the insert of a row, Enqueue, the receive and the    *)
(* first update, a run is in one place and queued until it starts.         *)
THEOREM RunsHeldOnce == Spec => []HeldOnce
<1>1. SafetyInv => HeldOnce
  BY DEF SafetyInv, HoldInv
<1> QED BY <1>1, Safe, PTL

(* A verdict broadcast to the pages is the last one they see and the one   *)
(* that stays stored, whatever the store refuses and whenever the process  *)
(* dies (lines 274-291, handleProcessingFailed, handleStatus).             *)
THEOREM VerdictsShownStay == Spec => []ShownVerdictIsFinal
<1>1. SafetyInv => ShownVerdictIsFinal
  BY DEF SafetyInv, VerdictInv
<1> QED BY <1>1, Safe, PTL

(* The log of a run stored as cancelled has no banner: neither what the    *)
(* worker sends before or after, nor a step's late line adds one.          *)
THEOREM CancelledLogsHaveNoBanner == Spec => []CancelledRunHasNoBanner
<1>1. SafetyInv => CancelledRunHasNoBanner
  BY DEF SafetyInv, BannerInv, Clean, CancelledRunHasNoBanner
<1> QED BY <1>1, Safe, PTL

(* Log and row, written by two goroutines, agree about a pass as long as   *)
(* the store answers and the pipeline is there.                            *)
THEOREM PassBannersAreTrue == Spec => []PassBannerMeansPassed
<1>1. SafetyInv => PassBannerMeansPassed
  BY DEF SafetyInv, PassInv, HasPass, PassBannerMeansPassed
<1> QED BY <1>1, Safe, PTL

(* A stored pass is overturned by nothing but a store error or the         *)
(* deletion of the pipeline (processRun, lines 274-287).                   *)
THEOREM PassesStayStored == Spec => PassedIsFinal
<1>1. SafetyInv /\ [Next]_vars => [PassedStep]_vars
  BY StepKeepsPassed DEF SafetyInv
<1> QED BY <1>1, Safe, PTL DEF Spec, PassedIsFinal, PassedStep

(* A run that neither a caller nor queue nor worker has keeps its status   *)
(* queued or running for good, restarts included.                          *)
THEOREM StrandedRunsStay == Spec => StrandedForGood
<1>1. SafetyInv /\ [Next]_vars => [StrandedStep]_vars
  BY StepLeavesStranded DEF SafetyInv
<1> QED BY <1>1, Safe, PTL DEF Spec, StrandedForGood, StrandedStep

(* The queue with its goroutines, channels, store errors and crashes       *)
(* implements RunLifecycle, for any number of runs and any capacity.       *)
THEOREM QueueImplementsLifecycle == Spec => ImplementsLifecycle
<1>1. Init => Lifecycle!Init
  BY DEF Init, Lifecycle!Init
<1>2. SafetyInv /\ [Next]_vars => [Lifecycle!Next]_(Lifecycle!vars)
  BY StepFollowsLifecycle DEF SafetyInv, LifecycleStep
<1> QED BY <1>1, <1>2, Safe, PTL DEF Spec, ImplementsLifecycle, Lifecycle!Spec

-----------------------------------------------------------------------------
(* A row changes only from "none" to "queued" or, while the worker has its *)
(* run, forward to a verdict; a verdict is replaced only when a pass is    *)
(* overturned, and "cancelled" is stored only on request.                  *)
StatusMoves ==
    \A r \in Runs : status'[r] # status[r] =>
        \/ status[r] = "none" /\ status'[r] = "queued"
        \/ r = run /\ status[r] = "queued" /\ status'[r] \in {"running", "failed"}
        \/ r = run /\ status[r] = "running" /\ status'[r] \in {"passed", "failed"}
        \/ /\ r = run /\ status[r] = "running" /\ status'[r] = "cancelled"
           /\ r \in cancelled
        \/ r = run /\ status[r] = "passed" /\ status'[r] = "failed"

(* A run joins the queue at its end and leaves it at its head, for the     *)
(* worker that has none; only the end of the process empties it.           *)
QueueMoves ==
    queue' # queue =>
        \/ \E r \in Runs : queue' = Append(queue, r) /\ run' = run
        \/ /\ run = NoRun /\ queue # <<>>
           /\ run' = Head(queue) /\ queue' = Tail(queue)
        \/ run' = NoRun /\ queue' = <<>>

(* These are the steps of the life cycle, taken one by one. *)
LEMMA LifecycleMoves ==
  ASSUME TypeOK, LifecycleStep
  PROVE  StatusMoves /\ QueueMoves
<1>1. status \in [Runs -> Status] /\ NoRun \notin Runs
  BY RunQueueAssumption DEF TypeOK, StoreType
<1> USE <1>1 DEF StatusMoves, QueueMoves
<1>2. ASSUME NEW r \in Runs, Lifecycle!Create(r) PROVE StatusMoves /\ QueueMoves
  BY <1>2 DEF Lifecycle!Create
<1>3. ASSUME NEW r \in Runs, Lifecycle!Accept(r) PROVE StatusMoves /\ QueueMoves
  BY <1>3 DEF Lifecycle!Accept
<1>4. CASE Lifecycle!Begin
  BY <1>4 DEF Lifecycle!Begin
<1>5. CASE Lifecycle!Start
  BY <1>5 DEF Lifecycle!Start
<1>6. CASE Lifecycle!Cancel
  BY <1>6 DEF Lifecycle!Cancel
<1>7. ASSUME NEW v \in Lifecycle!Verdicts, Lifecycle!Conclude(v)
      PROVE  StatusMoves /\ QueueMoves
  BY <1>7 DEF Lifecycle!Conclude
<1>8. CASE Lifecycle!Overturn
  BY <1>8 DEF Lifecycle!Overturn
<1>9. CASE Lifecycle!Release
  BY <1>9 DEF Lifecycle!Release
<1>10. CASE Lifecycle!Abandon
  BY <1>10 DEF Lifecycle!Abandon
<1>11. CASE UNCHANGED Lifecycle!vars
  BY <1>11 DEF Lifecycle!vars
<1> QED
  BY <1>2, <1>3, <1>4, <1>5, <1>6, <1>7, <1>8, <1>9, <1>10, <1>11
  DEF LifecycleStep, Lifecycle!Next

(* The status column moves as the pages assume, whoever writes it: a       *)
(* failed or cancelled run stays so for good, a run that runs is never     *)
(* queued again, and nothing touches a row that the worker does not hold.  *)
THEOREM StatusMovesForward == Spec => [][StatusMoves]_vars
<1>1. SafetyInv /\ [Next]_vars => [StatusMoves]_vars
  BY StepFollowsLifecycle, LifecycleMoves DEF SafetyInv
<1> QED BY <1>1, Safe, PTL DEF Spec

(* Runs are taken in the order they were accepted in, however many callers *)
(* enqueue meanwhile, and each by a worker that has none.                  *)
THEOREM RunsTakenInOrder == Spec => [][QueueMoves]_vars
<1>1. SafetyInv /\ [Next]_vars => [QueueMoves]_vars
  BY StepFollowsLifecycle, LifecycleMoves DEF SafetyInv
<1> QED BY <1>1, Safe, PTL DEF Spec
=============================================================================
