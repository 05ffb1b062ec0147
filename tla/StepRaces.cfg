\* Every interleaving of waiter, goroutine, scanners, timer and cancellation.
CONSTANTS
    Streams <- BothStreams
    MaxLines = 2
    Timeouts <- NoneOrSome

SPECIFICATION Spec

INVARIANTS
    ResultMatchesCommand
    PassedStepIsDrained

PROPERTIES
    KeepsContract
    StepReturns
    CancelledStepEnds

\* The step is over.
CHECK_DEADLOCK FALSE
