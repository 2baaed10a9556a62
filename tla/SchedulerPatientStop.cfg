\* A stop request that meets the loop in its sleep(0).
SPECIFICATION FairSpec
CONSTANTS
    a1 = a1
    a2 = a2
    s1 = s1
    s2 = s2
    s3 = s3
    Callers = {s1, s2}
    Sessions = {s1, s2}
    Agents = {a1}
    AgentOf <- OneAgent
    Concurrency = 1
    Strikes = 2
    MaxStall = 0
    MaxItems = 1
    Crashing = {}
    Outcomes = {"clean"}
    ProbeOutcomes = {"clean"}
    ShutdownModes = {"patient"}
    FailureThreshold = 1
    BaseCooldown = 1
    MaxCooldown = 1
    CooldownJitter = 0
    OverflowAttempt = 99
    MaxOutages = 0
CHECK_DEADLOCK FALSE
PROPERTIES
    StopIsObserved
