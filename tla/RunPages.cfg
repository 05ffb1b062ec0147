\* Pages of two runs, so that a page may be full, half full or empty.
CONSTANTS
    MaxRuns = 6
    PageSize = 2

SPECIFICATION Spec

INVARIANTS
    TypeOK
    SweepIsComplete
    ButtonsLeadToRuns
