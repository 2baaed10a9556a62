----------------------- MODULE ProviderHealth_proofs -----------------------
(***************************************************************************)
(* The circuit breaker alone: its type invariant, and the two invariants   *)
(* about what an outage leaves behind and about who wakes the callers that *)
(* wait without a timeout.  The latter follows from two that are inductive *)
(* given the types: waiters wait for the slot, and the slot is a probe's.  *)
(***************************************************************************)
EXTENDS ProviderHealth, TLAPS

USE MonitorAssumption DEF MonitorAssumption

-----------------------------------------------------------------------------
\* _compute_cooldown answers a number of ticks between 0 and the jittered cap.
LEMMA CooldownsAreBounded ==
    \A n : CooldownsFor(n) \subseteq 0 .. MaxCooldown + CooldownJitter
BY DEF CooldownsFor

\* _replace_wake_event keeps callers in the states of the protocol.
LEMMA LeavingIsTyped ==
    ASSUME MonitorTypeOK, NEW c \in Callers, LeaveAndWake(c) \/ Leave(c)
    PROVE  call' \in [Callers -> CallStates]
<1>1. CASE LeaveAndWake(c)
  BY <1>1 DEF MonitorTypeOK, LeaveAndWake, CallStates
<1>2. CASE Leave(c)
  BY <1>2 DEF MonitorTypeOK, Leave, CallStates
<1> QED
  BY <1>1, <1>2

-----------------------------------------------------------------------------
LEMMA MonitorTypeStep ==
    ASSUME MonitorTypeOK, [MonitorNext]_monitorVars
    PROVE  MonitorTypeOK'
<1>1. CASE Tick
  BY <1>1 DEF MonitorTypeOK, Tick
<1>2. ASSUME NEW c \in Callers, WaitUntilHealthy(c)
      PROVE  MonitorTypeOK'
  <2>1. Verdict \in CallStates
    BY DEF Verdict, CallStates, Permitted, Waiting
  <2> QED
    BY <1>2, <2>1 DEF MonitorTypeOK, WaitUntilHealthy
<1>3. ASSUME NEW c \in Callers, ReportSuccess(c)
      PROVE  MonitorTypeOK'
  <2>1. call' \in [Callers -> CallStates]
    BY <1>3, LeavingIsTyped DEF ReportSuccess
  <2>2. probeInFlight' \in BOOLEAN /\ probeLost' \in BOOLEAN
    BY <1>3, Zenon DEF ReportSuccess
  <2>3. /\ state' \in {"healthy", "degraded"}
        /\ failures' \in Nat
        /\ cooldown' \in 0 .. MaxCooldown + CooldownJitter
        /\ probeFailures' \in Nat
        /\ outages' \in 0 .. MaxOutages
    BY <1>3 DEF MonitorTypeOK, ReportSuccess
  <2> QED
    BY <2>1, <2>2, <2>3, Zenon DEF MonitorTypeOK
<1>4. ASSUME NEW c \in Callers, ReportFailure(c)
      PROVE  MonitorTypeOK'
  <2>1. call' \in [Callers -> CallStates]
    BY <1>4, LeavingIsTyped DEF ReportFailure
  <2>2. outages' \in 0 .. MaxOutages /\ probeInFlight' \in BOOLEAN /\ probeLost' \in BOOLEAN
    <3>1. outages' \in 0 .. MaxOutages
      BY <1>4 DEF MonitorTypeOK, ReportFailure
    <3>2. probeInFlight' \in BOOLEAN /\ probeLost' \in BOOLEAN
      BY <1>4, Zenon DEF ReportFailure
    <3> QED
      BY <3>1, <3>2
  <2>3. CASE FailureOverflows
    BY <2>1, <2>2, <2>3 DEF MonitorTypeOK, FailureOverflows
  <2>4. CASE FailureCounted
    BY <2>1, <2>2, <2>4, CooldownsAreBounded DEF MonitorTypeOK, FailureCounted
  <2>5. CASE FailureBacksOff
    BY <2>1, <2>2, <2>5, CooldownsAreBounded DEF MonitorTypeOK, FailureBacksOff
  <2> QED
    BY <1>4, <2>3, <2>4, <2>5 DEF ReportFailure
<1>5. ASSUME NEW c \in Callers, LeaveUnreported(c)
      PROVE  MonitorTypeOK'
  BY <1>5, LeavingIsTyped DEF MonitorTypeOK, LeaveUnreported
<1>6. CASE UNCHANGED monitorVars
  BY <1>6 DEF MonitorTypeOK, monitorVars
<1> QED
  BY <1>1, <1>2, <1>3, <1>4, <1>5, <1>6 DEF MonitorNext

-----------------------------------------------------------------------------
LEMMA HealthyIsCleanStep ==
    ASSUME MonitorTypeOK, HealthyIsClean, [MonitorNext]_monitorVars
    PROVE  HealthyIsClean'
<1>1. CASE Tick
  BY <1>1 DEF MonitorTypeOK, HealthyIsClean, Tick
<1>2. ASSUME NEW c \in Callers, WaitUntilHealthy(c)
      PROVE  HealthyIsClean'
  BY <1>2 DEF HealthyIsClean, WaitUntilHealthy, Verdict
<1>3. ASSUME NEW c \in Callers, ReportSuccess(c)
      PROVE  HealthyIsClean'
  BY <1>3 DEF MonitorTypeOK, HealthyIsClean, ReportSuccess
<1>4. ASSUME NEW c \in Callers, ReportFailure(c)
      PROVE  HealthyIsClean'
  <2>1. CASE ReportRaises /\ FailureOverflows
    BY <2>1 DEF HealthyIsClean, ReportRaises, FailureOverflows
  <2>2. CASE FailureCounted
    BY <1>4, <2>2 DEF MonitorTypeOK, HealthyIsClean, ReportFailure, FailureCounted
  <2>3. CASE FailureBacksOff
    BY <2>3 DEF HealthyIsClean, FailureBacksOff
  <2> QED
    BY <1>4, <2>1, <2>2, <2>3 DEF ReportFailure
<1>5. ASSUME NEW c \in Callers, LeaveUnreported(c)
      PROVE  HealthyIsClean'
  BY <1>5 DEF HealthyIsClean, LeaveUnreported
<1>6. CASE UNCHANGED monitorVars
  BY <1>6 DEF HealthyIsClean, monitorVars
<1> QED
  BY <1>1, <1>2, <1>3, <1>4, <1>5, <1>6 DEF MonitorNext

-----------------------------------------------------------------------------
\* Who waits without a timeout waits for the slot: the report that frees it
\* releases everybody, but for one whose backoff overflows.
WaitersAwaitTheSlot ==
    \A c \in Callers : call[c] = "onReport" => probeInFlight \/ Overflows(probeFailures)

\* A slot that is taken is a probe's that is out, unless one was lost.
SlotIsAProbes == probeInFlight /\ ~probeLost => \E c \in Callers : call[c] = "probe"

LEMMA WaitersAwaitTheSlotStep ==
    ASSUME MonitorTypeOK, WaitersAwaitTheSlot, [MonitorNext]_monitorVars
    PROVE  WaitersAwaitTheSlot'
<1>1. CASE Tick
  BY <1>1 DEF WaitersAwaitTheSlot, Tick, Overflows
<1>2. ASSUME NEW c \in Callers, WaitUntilHealthy(c)
      PROVE  WaitersAwaitTheSlot'
  <2>1. Verdict = "onReport" => probeInFlight
    BY DEF Verdict
  <2> QED
    BY <1>2, <2>1 DEF MonitorTypeOK, WaitersAwaitTheSlot, WaitUntilHealthy, Overflows
<1>3. ASSUME NEW c \in Callers, LeaveAndWake(c)
      PROVE  WaitersAwaitTheSlot'
  BY <1>3 DEF MonitorTypeOK, WaitersAwaitTheSlot, LeaveAndWake, Waiting
<1>4. ASSUME NEW c \in Callers, ReportRaises, FailureOverflows
      PROVE  WaitersAwaitTheSlot'
  BY <1>4 DEF MonitorTypeOK, WaitersAwaitTheSlot, ReportRaises, FailureOverflows,
              Overflows
<1>5. ASSUME NEW c \in Callers, LeaveUnreported(c)
      PROVE  WaitersAwaitTheSlot'
  BY <1>5 DEF MonitorTypeOK, WaitersAwaitTheSlot, LeaveUnreported, Leave, Overflows
<1>6. CASE UNCHANGED monitorVars
  BY <1>6 DEF WaitersAwaitTheSlot, monitorVars, Overflows
<1> QED
  BY <1>1, <1>2, <1>3, <1>4, <1>5, <1>6
     DEF MonitorNext, ReportSuccess, ReportFailure

\* Only who asks takes the slot, and goes as the probe; only a report frees it;
\* and who leaves without one either was no probe or is a lost one.
LEMMA SlotIsAProbesStep ==
    ASSUME MonitorTypeOK, SlotIsAProbes, [MonitorNext]_monitorVars
    PROVE  SlotIsAProbes'
<1>1. CASE Tick
  BY <1>1 DEF SlotIsAProbes, Tick
<1>2. ASSUME NEW c \in Callers, WaitUntilHealthy(c)
      PROVE  SlotIsAProbes'
  <2>1. /\ call' = [call EXCEPT ![c] = Verdict] /\ probeLost' = probeLost
        /\ probeInFlight' = (probeInFlight \/ Verdict = "probe")
        /\ call[c] # "probe"
    BY <1>2 DEF WaitUntilHealthy
  <2>2. CASE Verdict = "probe"
    BY <2>1, <2>2 DEF MonitorTypeOK, SlotIsAProbes
  <2>3. CASE Verdict # "probe"
    <3>1. probeInFlight' => probeInFlight
      BY <2>1, <2>3
    <3>2. \A d \in Callers : call[d] = "probe" => call'[d] = "probe"
      BY <2>1 DEF MonitorTypeOK
    <3> QED
      BY <2>1, <3>1, <3>2 DEF SlotIsAProbes
  <2> QED
    BY <2>2, <2>3
<1>3. ASSUME NEW c \in Callers, ReportSuccess(c) \/ ReportFailure(c)
      PROVE  SlotIsAProbes'
  BY <1>3 DEF SlotIsAProbes, ReportSuccess, ReportFailure
<1>4. ASSUME NEW c \in Callers, LeaveUnreported(c)
      PROVE  SlotIsAProbes'
  <2>1. /\ call' = [call EXCEPT ![c] = "out"] /\ probeInFlight' = probeInFlight
        /\ (probeInFlight /\ call[c] = "probe") \/ probeLost => probeLost'
    BY <1>4 DEF LeaveUnreported, Leave
  <2>2. \A d \in Callers \ {c} : call'[d] = call[d]
    BY <2>1 DEF MonitorTypeOK
  <2> QED
    BY <2>1, <2>2 DEF SlotIsAProbes
<1>5. CASE UNCHANGED monitorVars
  BY <1>5 DEF SlotIsAProbes, monitorVars
<1> QED
  BY <1>1, <1>2, <1>3, <1>4, <1>5 DEF MonitorNext

-----------------------------------------------------------------------------
MonitorInv == MonitorTypeOK /\ HealthyIsClean /\ WaitersAwaitTheSlot /\ SlotIsAProbes

\* What the breaker promises follows from it.
LEMMA WaitersAreWoken == MonitorInv => WaitersHaveAWaker
BY DEF MonitorInv, MonitorTypeOK, WaitersAwaitTheSlot, SlotIsAProbes, WaitersHaveAWaker

\* Under the protocol its callers follow, the breaker keeps its types, leaves
\* nothing of an outage behind, and nobody waits for a report that no probe will
\* make but where one was lost: for any number of callers and any settings.
THEOREM MonitorCorrect == MonitorSpec => [](MonitorInv /\ WaitersHaveAWaker)
<1>1. MonitorInit => MonitorInv
  <2> SUFFICES ASSUME MonitorInit
               PROVE  MonitorInv
    OBVIOUS
  <2>1. MonitorTypeOK
    <3>1. probeInFlight \in BOOLEAN /\ probeLost \in BOOLEAN
      BY Zenon DEF MonitorInit
    <3>2. call \in [Callers -> CallStates]
      BY DEF MonitorInit, CallStates
    <3> QED
      BY <3>1, <3>2 DEF MonitorInit, MonitorTypeOK
  <2>2. HealthyIsClean
    BY DEF MonitorInit, HealthyIsClean
  <2>3. WaitersAwaitTheSlot /\ SlotIsAProbes
    BY DEF MonitorInit, WaitersAwaitTheSlot, SlotIsAProbes
  <2> QED
    BY <2>1, <2>2, <2>3 DEF MonitorInv
<1>2. MonitorInv /\ [MonitorNext]_monitorVars => MonitorInv'
  BY MonitorTypeStep, HealthyIsCleanStep, WaitersAwaitTheSlotStep, SlotIsAProbesStep
     DEF MonitorInv
<1> QED
  BY <1>1, <1>2, WaitersAreWoken, PTL DEF MonitorSpec
=============================================================================
