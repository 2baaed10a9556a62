\* The probe's round raises and its slot is never given back.
SPECIFICATION FairSpec
CONSTANTS
    a1 = a1
    a2 = a2
    s1 = s1
    s2 = s2
    s3 = s3
    Callers = {s1, s2}
    Sessions = {s1, s2}
    Agents = {a1}
    AgentOf <- OneAgent
    Concurrency = 1
    Strikes = 2
    MaxStall = 0
    MaxItems = 1
    Crashing = {}
    Outcomes = {"clean", "unavailable", "raised"}
    ProbeOutcomes = {"clean", "unavailable", "raised"}
    ShutdownModes = {}
    FailureThreshold = 1
    BaseCooldown = 1
    MaxCooldown = 2
    CooldownJitter = 0
    OverflowAttempt = 99
    MaxOutages = 1
CHECK_DEADLOCK FALSE
PROPERTIES
    GateOpens
