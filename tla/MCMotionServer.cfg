SPECIFICATION FairSpec
CONSTANTS
    MaxTime = 1
    MaxBacklog = 1
    RequestKind <- AllRequests
    NoticeKind <- SomeNotices
INVARIANTS
    TypeOK
    AgeFirst
PROPERTIES
    AnswersAdvance
    NoticePublished
    QuitReachesThreads
CHECK_DEADLOCK FALSE
