\* Two requests at a time for one run that makes its file meanwhile, over rows
\* that change.
CONSTANTS
    k1 = k1
    k2 = k2
    a1 = a1
    a2 = a2
    p1 = p1
    r1 = r1
    f1 = f1
    f2 = f2
    c1 = c1
    c2 = c2
    NoCredential = NoCredential
    NoAgent = NoAgent
    NoRun = NoRun
    NoFile = NoFile
    Credentials <- TwoCredentials
    Agents <- TwoAgents
    Pipelines <- OnePipeline
    Runs <- OneRun
    Finished <- NoRuns
    RunPipeline <- OfOnePipeline
    Files <- OneFile
    Callers <- TwoCallers
    MayFail = TRUE
    MaxRestarts = 1

SPECIFICATION Spec
SYMMETRY Symmetry

INVARIANTS
    TypeOK
    ChainHolds
    OneCollectorPerRun
    DownloadHasWhatWasThere

PROPERTIES
    CollectedOnce

\* Every row was deleted and every id used.
CHECK_DEADLOCK FALSE
