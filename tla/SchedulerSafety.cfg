\* Three sessions that compete for one permit, one item each or a second one for
\* one of them, every outcome and way to shut down, evictors that raise, a
\* backoff that overflows, inbox reads that raise.
SPECIFICATION Spec
CONSTANTS
    a1 = a1
    a2 = a2
    s1 = s1
    s2 = s2
    s3 = s3
    Callers = {s1, s2, s3}
    Sessions = {s1, s2, s3}
    Agents = {a1}
    AgentOf <- OneAgent
    Concurrency = 1
    Strikes = 1
    MaxStall = 1
    MaxItems = 2
    Crashing = {s1, s2, s3}
    Outcomes = {"clean", "unavailable", "noProgress", "raised"}
    ProbeOutcomes = {"clean", "unavailable", "noProgress", "raised"}
    ShutdownModes = {"patient", "grace", "immediate"}
    FailureThreshold = 1
    BaseCooldown = 1
    MaxCooldown = 2
    CooldownJitter = 1
    OverflowAttempt = 1
    MaxOutages = 2
SYMMETRY Alike
CONSTRAINT FewItems
CHECK_DEADLOCK FALSE
INVARIANTS
    TypeOK
    HealthyIsClean
    WaitersHaveAWaker
    PermitsAccounted
    PendingIsWatched
PROPERTIES
    OutageNeverEvicts
    PermitsGoInOrder
