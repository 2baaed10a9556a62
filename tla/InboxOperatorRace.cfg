\* The command is used on a live inbox, next to the running gateway.
SPECIFICATION Spec
CONSTANTS
    n1 = n1
    n2 = n2
    n3 = n3
    k1 = k1
    k2 = k2
    Items = {n1, n2, n3}
    Keys = {k1, k2}
    KeyOf <- SharedKey
    RsvpItems = {n3}
    ServiceRegistered = TRUE
    OperatorOverlaps = TRUE
    NoOp = NoOp
    MaxCrashes = 0
INVARIANTS
    IndexMatchesDisk
