\* Crashes of the gateway and of the command at every point; the command is
\* used while the gateway is down.  The run stops when all items are posted.
SPECIFICATION FairSpec
CONSTANTS
    n1 = n1
    n2 = n2
    n3 = n3
    k1 = k1
    k2 = k2
    Items = {n1, n2, n3}
    Keys = {k1, k2}
    KeyOf <- SharedKey
    RsvpItems = {n3}
    ServiceRegistered = TRUE
    OperatorOverlaps = FALSE
    NoOp = NoOp
    MaxCrashes = 2
CHECK_DEADLOCK FALSE
INVARIANTS
    TypeOK
    OneHome
    IndexMatchesDisk
    RsvpAnswered
PROPERTIES
    Delivered
    SettledLeavesInbox
