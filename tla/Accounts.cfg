\* Three users in turn under two names, two browsers, two sessions.
CONSTANTS
    u1 = u1
    u2 = u2
    u3 = u3
    n1 = n1
    n2 = n2
    s1 = s1
    s2 = s2
    b1 = b1
    b2 = b2
    NoUser = NoUser
    NoName = NoName
    NoSession = NoSession
    Users <- ThreeUsers
    Names <- TwoNames
    Sessions <- TwoSessions
    Browsers <- TwoBrowsers
    MaxRestarts = 1

SPECIFICATION Spec
SYMMETRY Symmetry

INVARIANTS
    TypeOK
    SessionsHaveTheirUser

PROPERTIES
    SuperusersAreProtected
    ResetsHold
    WritesHitTheRowRead

\* A start that asks for a superuser when both names are taken, or every id.
CHECK_DEADLOCK FALSE
