CONSTANTS
    Kinds <- MCKinds
    Sockets = {s1, s2, s3, s4}
    None = None
SPECIFICATION LiveSpec
INVARIANT TypeOK
INVARIANT NoConnectionLeak
PROPERTY HealthyKept
PROPERTY ShutdownEnds
PROPERTY Reconnects
PROPERTY DropNoticed
CHECK_DEADLOCK FALSE
