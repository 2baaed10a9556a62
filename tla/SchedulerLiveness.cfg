\* Dispatchers that fail or give up for ever, an outage, a shutdown with a
\* deadline: every item leaves its inbox all the same, and nobody is stuck at
\* the gate.  Probes end cleanly or report the outage (see SchedulerProbeLost).
SPECIFICATION FairSpec
CONSTANTS
    a1 = a1
    a2 = a2
    s1 = s1
    s2 = s2
    s3 = s3
    Callers = {s1, s2}
    Sessions = {s1, s2}
    Agents = {a1}
    AgentOf <- OneAgent
    Concurrency = 1
    Strikes = 2
    MaxStall = 2
    MaxItems = 1
    Crashing = {}
    Outcomes = {"clean", "unavailable", "noProgress", "raised"}
    ProbeOutcomes = {"clean", "unavailable"}
    ShutdownModes = {"grace"}
    FailureThreshold = 1
    BaseCooldown = 1
    MaxCooldown = 2
    CooldownJitter = 0
    OverflowAttempt = 99
    MaxOutages = 2
CHECK_DEADLOCK FALSE
PROPERTIES
    EveryItemLeaves
    GateOpens
    ShutdownReturns
