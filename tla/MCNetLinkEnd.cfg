CONSTANTS
    Kinds <- MCKinds
    Sockets = {s1, s2, s3, s4}
    None = None
SPECIFICATION LiveSpec
PROPERTY EndReconnects
CHECK_DEADLOCK FALSE
