\* Any store call may fail, and the process may restart once.
CONSTANTS
    r1 = r1
    r2 = r2
    r3 = r3
    NoRun = NoRun
    Runs <- TwoRuns
    QueueSize = 1
    StoreMayFail = TRUE
    MaxLines = 0
    MaxShutdowns = 0
    MaxRestarts = 1

SPECIFICATION Spec
SYMMETRY Symmetry

INVARIANTS
    HeldOnce
    ShownVerdictIsFinal
    CancelledRunHasNoBanner

PROPERTIES
    ImplementsLifecycle
    StrandedForGood

\* The worker waits on done for good, or the process is down for good.
CHECK_DEADLOCK FALSE
