--------------------------- MODULE ProviderHealth ---------------------------
(***************************************************************************)
(* The circuit breaker every agent scheduler of one gateway shares:        *)
(* ProviderHealthMonitor of runtime/_provider_health.py.                   *)
(*                                                                         *)
(* A caller (a session driver) asks wait_until_healthy for permission to   *)
(* run a prompt round and, if it ever gets to, reports how the round went. *)
(* The bodies of the three coroutines hold the monitor's lock and never    *)
(* await while they do, so each is one step.  Time is the number of ticks  *)
(* left of the cooldown.  The sliding window of failure timestamps is its  *)
(* length: a report keeps any number of the old ones, since any prefix may *)
(* have aged out.  The wake event is replaced and set by every report, so  *)
(* the waiters of the present event are the callers that wait now.         *)
(***************************************************************************)
EXTENDS Naturals, FiniteSets

CONSTANTS
    Callers,            \* the tasks that share the monitor
    FailureThreshold,   \* failures within the window that trip the breaker
    BaseCooldown,       \* ticks before the first probe of an outage
    MaxCooldown,        \* cap of the exponential growth, before jitter
    CooldownJitter,     \* most ticks the jitter adds
    OverflowAttempt,    \* first n with 2^n too large for a float (1024)
    MaxOutages          \* bound: failures the provider inflicts in all

ASSUME MonitorAssumption ==
    /\ FailureThreshold \in Nat \ {0}
    /\ BaseCooldown \in Nat
    /\ MaxCooldown \in Nat
    /\ MaxCooldown >= BaseCooldown
    /\ CooldownJitter \in Nat
    /\ OverflowAttempt \in Nat \ {0}
    /\ MaxOutages \in Nat

VARIABLES
    state,          \* "healthy" or "degraded"
    failures,       \* length of the failure window
    cooldown,       \* ticks left until now >= _cooldown_until
    probeFailures,  \* _consecutive_probe_failures
    probeInFlight,  \* the probe slot is taken
    probeLost,      \* a probe ended without a report since then (history)
    call,           \* where each caller is in the protocol
    outages         \* failures reported so far, for MaxOutages

monitorVars ==
    <<state, failures, cooldown, probeFailures, probeInFlight, probeLost, call,
      outages>>

\* "round" and "probe" are callers let through, the latter as the nominated
\* probe; "onReport" waits on the event alone, "onCooldown" also on a timer;
\* "woken" was released and has to look again.
Waiting == {"onReport", "onCooldown"}
Permitted == {"round", "probe"}
CallStates == {"out", "woken"} \union Waiting \union Permitted

MonitorTypeOK ==
    /\ state \in {"healthy", "degraded"}
    /\ failures \in Nat
    /\ cooldown \in 0 .. MaxCooldown + CooldownJitter
    /\ probeFailures \in Nat
    /\ probeInFlight \in BOOLEAN
    /\ probeLost \in BOOLEAN
    /\ call \in [Callers -> CallStates]
    /\ outages \in 0 .. MaxOutages

MonitorInit ==
    /\ state = "healthy"
    /\ failures = 0
    /\ cooldown = 0
    /\ probeFailures = 0
    /\ probeInFlight = FALSE
    /\ probeLost = FALSE
    /\ call = [c \in Callers |-> "out"]
    /\ outages = 0

-----------------------------------------------------------------------------
\* What wait_until_healthy answers a caller that holds the lock.
Verdict ==
    IF state = "healthy" THEN "round"
    ELSE IF probeInFlight THEN "onReport"
    ELSE IF cooldown > 0 THEN "onCooldown"
    ELSE "probe"

WaitUntilHealthy(c) ==
    /\ \/ call[c] \in {"out", "woken"}
       \/ call[c] = "onCooldown" /\ cooldown = 0        \* TimeoutError
    /\ call' = [call EXCEPT ![c] = Verdict]
    /\ probeInFlight' = (probeInFlight \/ Verdict = "probe")
    /\ UNCHANGED <<state, failures, cooldown, probeFailures, probeLost, outages>>

\* A report that forgets to wake anybody; the definition it varies follows.
LeaveAsleep(c) == call' = [call EXCEPT ![c] = "out"]

\* _replace_wake_event as c leaves: whoever waits is released.
LeaveAndWake(c) ==
    call' = [d \in Callers |-> IF d = c THEN "out"
                               ELSE IF call[d] \in Waiting THEN "woken"
                               ELSE call[d]]

Leave(c) == call' = [call EXCEPT ![c] = "out"]

\* A success that touches the window only when it closes the breaker.
ReportSuccessKeepingWindow(c) ==
    /\ call[c] \in Permitted
    /\ failures' = failures
    /\ probeInFlight' = FALSE /\ probeLost' = FALSE
    /\ state' = "healthy"
    /\ probeFailures' = IF state = "degraded" THEN 0 ELSE probeFailures
    /\ cooldown' = IF state = "degraded" THEN 0 ELSE cooldown
    /\ LeaveAndWake(c)
    /\ UNCHANGED outages

ReportSuccess(c) ==
    /\ call[c] \in Permitted
    /\ failures' = 0
    /\ probeInFlight' = FALSE /\ probeLost' = FALSE
    /\ state' = "healthy"
    /\ probeFailures' = IF state = "degraded" THEN 0 ELSE probeFailures
    /\ cooldown' = IF state = "degraded" THEN 0 ELSE cooldown
    /\ LeaveAndWake(c)
    /\ UNCHANGED outages

\* _compute_cooldown: base * 2^attempt up to the cap, plus uniform jitter.
CooldownsFor(attempt) ==
    LET grown == BaseCooldown * 2^attempt
        capped == IF grown < MaxCooldown THEN grown ELSE MaxCooldown
    IN  {t \in 0 .. MaxCooldown + CooldownJitter :
            capped <= t /\ t <= capped + CooldownJitter}

\* From attempt OverflowAttempt on, float * 2^attempt raises OverflowError.
Overflows(attempt) == attempt >= OverflowAttempt

\* A failure while "healthy": it may trip the breaker.
FailureCounted ==
    /\ state = "healthy"
    /\ \E kept \in 0 .. failures :
          /\ failures' = kept + 1
          /\ IF kept + 1 >= FailureThreshold
             THEN /\ state' = "degraded"
                  /\ probeFailures' = 0
                  /\ cooldown' \in CooldownsFor(0)
             ELSE UNCHANGED <<state, probeFailures, cooldown>>

\* A failure while "degraded": back off further.
FailureBacksOff ==
    /\ state = "degraded"
    /\ probeFailures' = probeFailures + 1
    /\ \E kept \in 0 .. failures : failures' = kept + 1
    /\ cooldown' \in CooldownsFor(probeFailures + 1)
    /\ UNCHANGED state

\* The same, when computing the cooldown raises: the deadline and the event
\* stay as they were and the exception reaches the caller.
FailureOverflows ==
    /\ probeFailures' = probeFailures + 1
    /\ \E kept \in 0 .. failures : failures' = kept + 1
    /\ UNCHANGED <<state, cooldown>>

ReportRaises == state = "degraded" /\ Overflows(probeFailures + 1)

ReportFailure(c) ==
    /\ call[c] \in Permitted
    /\ outages < MaxOutages
    /\ outages' = outages + 1
    /\ probeInFlight' = FALSE /\ probeLost' = FALSE
    /\ IF ReportRaises
       THEN FailureOverflows /\ Leave(c)
       ELSE (FailureCounted \/ FailureBacksOff) /\ LeaveAndWake(c)

\* The caller's round ended, or its wait was cancelled, without a report.
LeaveUnreported(c) ==
    /\ call[c] # "out"
    /\ Leave(c)
    /\ probeLost' = (probeLost \/ (probeInFlight /\ call[c] = "probe"))
    /\ UNCHANGED <<state, failures, cooldown, probeFailures, probeInFlight,
                   outages>>

Tick ==
    /\ cooldown > 0
    /\ cooldown' = cooldown - 1
    /\ UNCHANGED <<state, failures, probeFailures, probeInFlight, probeLost,
                   call, outages>>

MonitorNext ==
    \/ Tick
    \/ \E c \in Callers : \/ WaitUntilHealthy(c)
                          \/ ReportSuccess(c)
                          \/ ReportFailure(c)
                          \/ LeaveUnreported(c)

\* What the schedulers' use of the monitor amounts to.
MonitorSpec == MonitorInit /\ [][MonitorNext]_monitorVars

-----------------------------------------------------------------------------
\* While the breaker is closed nothing of an outage is left over: no probe
\* slot, no deadline, no grown backoff, and fewer failures than would have
\* opened it (report_success and the trip in report_failure).
HealthyIsClean ==
    state = "healthy" =>
        /\ ~probeInFlight
        /\ cooldown = 0
        /\ probeFailures = 0
        /\ failures < FailureThreshold

\* A caller that waits without a timeout waits while a probe is out, whose
\* report frees the slot and wakes it.  There are two exceptions: a probe that
\* ended without a report (its round raised, it was cancelled, its driver
\* crashed), whose slot is taken until a round begun earlier reports, if there
\* is one; and the overflow of the backoff, which wakes nobody.
WaitersHaveAWaker ==
    \A c \in Callers :
        call[c] = "onReport" =>
            (\E d \in Callers : call[d] = "probe") \/ probeLost \/ Overflows(probeFailures)
=============================================================================
