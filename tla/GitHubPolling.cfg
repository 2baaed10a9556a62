\* Three threads on a page of two, activity at any time, two failures, a crash.
SPECIFICATION FairSpec
CONSTANTS
    t1 = t1
    t2 = t2
    t3 = t3
    Threads = {t1, t2, t3}
    PageSize = 2
    Never = Never
    MaxActivity = 3
    MaxFailures = 2
    MaxCrashes = 1
CHECK_DEADLOCK FALSE
INVARIANTS
    TypeOK
    HiddenOnlyByFailure
PROPERTIES
    PostedOnce
    ReadOnlyOnHandoff
    ActivityIsTaken
