SPECIFICATION Spec
CONSTANTS
    NumFrames = 2
    MaxUnread = 1
    MaxBacklog = 1
    Faults <- AllFaults
INVARIANTS
    TypeOK
    NoTornPacket
    NoLostTurn
    NoLostQuit
    SessionJoined
    NoDescriptorLeak
    LivePictureConnection
CHECK_DEADLOCK FALSE
