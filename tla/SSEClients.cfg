\* Three pages that may be closed at any time.
CONSTANTS
    c1 = c1
    c2 = c2
    c3 = c3
    Nobody = Nobody
    Clients <- ThreeClients
    MaxMessages = 2

SPECIFICATION Spec

INVARIANTS
    TypeOK
    NoGapNoRepeat
    SendsToOpenChannels

PROPERTIES
    PumpReturns

\* The messages are sent, or everyone waits for the leaving client.
CHECK_DEADLOCK FALSE
