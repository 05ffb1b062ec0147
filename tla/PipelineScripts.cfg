\* Every script of up to two stages with up to three steps each.
CONSTANTS
    Scripts <- SmallScripts

SPECIFICATION Spec

INVARIANTS
    TypeOK
    CancelledBySequentialStep

PROPERTIES
    ImplementsOrder
    ScriptEnds

\* The script was executed.
CHECK_DEADLOCK FALSE
