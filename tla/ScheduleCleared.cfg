\* One request at a time on one pipeline, a store that works: emptying the
\* schedule of a pipeline leaves it scheduled.
CONSTANTS
    p1 = p1
    p2 = p2
    c1 = c1
    c2 = c2
    j1 = j1
    j2 = j2
    j3 = j3
    s1 = s1
    s2 = s2
    NoSchedule = NoSchedule
    NoJob = NoJob
    NoPipeline = NoPipeline
    Pipelines <- OnePipeline
    Callers <- OneCaller
    Jobs <- ThreeJobs
    Schedules <- TwoSchedules
    StoreMayFail = FALSE
    MaxRestarts = 1

SPECIFICATION Spec

INVARIANT EmptyScheduleMeansNoSchedule

CHECK_DEADLOCK FALSE
