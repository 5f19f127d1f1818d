SPECIFICATION FairSpec
CONSTANTS
    MaxTime = 1
    MaxBacklog = 1
    RequestKind <- Requests
    NoticeKind <- Notices
PROPERTIES
    QuitEndsServer
CHECK_DEADLOCK FALSE
