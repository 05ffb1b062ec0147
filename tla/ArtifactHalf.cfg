\* Two downloads of a passed run that overlap, with nothing that fails: the second
\* finds the directory and archives what the first has brought so far.
CONSTANTS
    k1 = k1
    k2 = k2
    a1 = a1
    a2 = a2
    p1 = p1
    r1 = r1
    f1 = f1
    f2 = f2
    c1 = c1
    c2 = c2
    NoCredential = NoCredential
    NoAgent = NoAgent
    NoRun = NoRun
    NoFile = NoFile
    Credentials <- TwoCredentials
    Agents <- TwoAgents
    Pipelines <- OnePipeline
    Runs <- OneRun
    Finished <- OneRun
    RunPipeline <- OfOnePipeline
    Files <- TwoFiles
    Callers <- TwoCallers
    MayFail = FALSE
    MaxRestarts = 0

SPECIFICATION Spec

INVARIANT DownloadIsWhole

CHECK_DEADLOCK FALSE
