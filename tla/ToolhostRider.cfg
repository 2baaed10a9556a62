SPECIFICATION FairSpec
CONSTANTS
    Calls = {c1, c2}
    Watcher = watcher
    Closer = closer
    Nobody = nobody
    MaxDaemons = 2
    MaxConcurrency = 2
    Large = {}
    Faults <- BadHello
PROPERTIES EveryCallEnds
CHECK_DEADLOCK FALSE
