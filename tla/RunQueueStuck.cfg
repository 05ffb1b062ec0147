\* The second run of a pipeline.
CONSTANTS
    r1 = r1
    r2 = r2
    r3 = r3
    NoRun = NoRun
    Runs <- TwoRuns
    QueueSize = 1
    StoreMayFail = FALSE
    MaxLines = 0
    MaxShutdowns = 0
    MaxRestarts = 0

SPECIFICATION FairSpec

PROPERTIES
    AcceptedRunsStart

CHECK_DEADLOCK FALSE
