\* One handoff raises, and nothing else happens on GitHub.
SPECIFICATION FairSpec
CONSTANTS
    t1 = t1
    t2 = t2
    t3 = t3
    Threads = {t1, t2}
    PageSize = 2
    Never = Never
    MaxActivity = 1
    MaxFailures = 1
    MaxCrashes = 0
CHECK_DEADLOCK FALSE
PROPERTIES
    FailedHandoffIsRetried
