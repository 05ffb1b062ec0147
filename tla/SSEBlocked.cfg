\* One page is closed while another one watches.
CONSTANTS
    c1 = c1
    c2 = c2
    c3 = c3
    Nobody = Nobody
    Clients <- TwoClients
    MaxMessages = 2

SPECIFICATION Spec

PROPERTIES
    LogsAreLive

\* The messages are sent, or everyone waits for the leaving client.
CHECK_DEADLOCK FALSE
