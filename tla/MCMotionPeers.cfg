SPECIFICATION PeersSpec
CONSTANTS
    StartFrame = 85
    NumFrames = 96
    MaxFds = 4
INVARIANTS
    PeersTypeOK
    SocketsAccounted
PROPERTIES
    QuitEnds
\* The camera's process may end, and the client's.
CHECK_DEADLOCK FALSE
