\* Two requests at a time on two pipelines, a failing store, two restarts.
CONSTANTS
    p1 = p1
    p2 = p2
    c1 = c1
    c2 = c2
    j1 = j1
    j2 = j2
    j3 = j3
    NoSchedule = NoSchedule
    NoJob = NoJob
    NoPipeline = NoPipeline
    Pipelines <- TwoPipelines
    Callers <- TwoCallers
    Jobs <- ThreeJobs
    Schedules <- TwoSchedules
    s1 = s1
    s2 = s2
    StoreMayFail = TRUE
    MaxRestarts = 2

SPECIFICATION Spec
SYMMETRY Symmetry

INVARIANTS
    TypeOK
    PipelinesAreServed
    NoQueueOutlivesItsPipeline
    ScheduledPipelineHasItsJob

PROPERTIES
    StartMatchesRows
    NoCrashLoop

\* The last restart is used up and the process is down.
CHECK_DEADLOCK FALSE
