SPECIFICATION FairSpec
CONSTANTS
    Calls = {c1, c2}
    Watcher = watcher
    Closer = closer
    Nobody = nobody
    MaxDaemons = 2
    MaxConcurrency = 1
    Large = {c1}
    Faults <- AllFaults
INVARIANTS TypeOK TeardownSparesNewDaemon QuietCloseStops
PROPERTIES OneDaemonAtATime WatchedCallEnds SetupEnds
CHECK_DEADLOCK FALSE
