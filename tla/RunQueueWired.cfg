\* As main wires it, with a store that answers and no crash but the ones the
\* code itself brings about, and then up to two calls of Shutdown.
CONSTANTS
    r1 = r1
    r2 = r2
    r3 = r3
    NoRun = NoRun
    Runs <- TwoRuns
    QueueSize = 1
    StoreMayFail = FALSE
    MaxLines = 1
    MaxShutdowns = 2
    MaxRestarts = 0

SPECIFICATION FairSpec

INVARIANTS
    TypeOK
    AtMostOneRunServed
    NoChannelPanicAsWired
    PassBannerMeansPassed

PROPERTIES
    PassedIsFinal
    TakenRunsConclude

\* The worker waits on done for good, or the process is down for good.
CHECK_DEADLOCK FALSE
