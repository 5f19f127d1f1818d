SPECIFICATION FairSpec
CONSTANTS
    NumFrames = 2
    MaxUnread = 1
    MaxBacklog = 1
    Faults <- PollFails
PROPERTIES
    HandoffSpec
    FramesFlow
    ModeArrives
CHECK_DEADLOCK FALSE
