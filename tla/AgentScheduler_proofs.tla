----------------------- MODULE AgentScheduler_proofs -----------------------
(***************************************************************************)
(* The safety properties of AgentScheduler, for any number of sessions,    *)
(* agents, permits and strikes.                                            *)
(*                                                                         *)
(* A step of the scheduler is seen through two narrower machines: to the   *)
(* monitor it is a step of MonitorNext or nothing, and to the semaphores   *)
(* it is one of the six steps below.  What concerns one of them only is   *)
(* proved of its few steps, not of the scheduler's many.                   *)
(***************************************************************************)
EXTENDS AgentScheduler, ProviderHealth_proofs, FiniteSetTheorems, TLAPS

USE SchedulerAssumption DEF SchedulerAssumption

-----------------------------------------------------------------------------
(* The scheduler and the monitor.                                          *)

LEMMA MonitorSteps ==
    ASSUME [Next]_vars
    PROVE  [MonitorNext]_monitorVars
<1>1. CASE Time
  BY <1>1 DEF Time, MonitorNext
<1>2. ASSUME NEW s \in Sessions, DriverStep(s)
      PROVE  [MonitorNext]_monitorVars
  BY <1>2 DEF DriverStep, Begin, IdleWakes, CheckInbox, LeaveGate, AskMonitor,
              EnterRound, SaveDone, OutageRecorded, Unwind, MonitorNext
<1>3. ASSUME NEW s \in Sessions,
             Deliver(s) \/ CheckInboxRaises(s) \/ CloseItem(s)
      PROVE  UNCHANGED monitorVars
  BY <1>3 DEF Deliver, CheckInboxRaises, CloseItem
<1>8. ASSUME NEW s \in Sessions, RoundReadRaises(s)
      PROVE  MonitorNext
  BY <1>8 DEF RoundReadRaises, MonitorNext
<1>4. ASSUME NEW s \in Sessions, DispatcherEnds(s)
      PROVE  [MonitorNext]_monitorVars
  <2>1. PICK outcome \in Outcomes : EndRound(s, outcome)
    BY <1>4 DEF DispatcherEnds
  <2>2. \/ UNCHANGED monitorVars \/ ReportFailure(s) \/ LeaveUnreported(s)
    BY <2>1 DEF EndRound
  <2> QED
    BY <2>2 DEF MonitorNext
<1>5. ASSUME NEW a \in Agents, NEW mode \in ShutdownModes, Shutdown(a, mode)
      PROVE  UNCHANGED monitorVars
  BY <1>5 DEF Shutdown
<1>6. ASSUME NEW a \in Agents, GraceExpires(a)
      PROVE  UNCHANGED monitorVars
  BY <1>6 DEF GraceExpires
<1>7. CASE UNCHANGED vars
  BY <1>7 DEF vars
<1> QED
  BY <1>1, <1>2, <1>3, <1>4, <1>5, <1>6, <1>7, <1>8 DEF Next

\* Whatever the drivers do, they follow the protocol of the monitor: only who
\* was let through reports, once, and only who asked waits.
THEOREM SchedulerUsesMonitor == Spec => MonitorSpec
<1>1. Init => MonitorInit
  BY DEF Init
<1>2. [Next]_vars => [MonitorNext]_monitorVars
  BY MonitorSteps
<1> QED
  BY <1>1, <1>2, PTL DEF Spec, MonitorSpec

\* While the breaker is closed nothing of an outage is left over.
THEOREM SchedulerHealthyIsClean == Spec => []HealthyIsClean
<1>1. MonitorInv => HealthyIsClean
  BY DEF MonitorInv
<1> QED
  BY <1>1, SchedulerUsesMonitor, MonitorCorrect, PTL

\* A driver that waits at the gate without a timeout waits while a probe is out,
\* unless one was lost without a report or the backoff overflowed.
THEOREM SchedulerWaitersHaveAWaker == Spec => []WaitersHaveAWaker
BY SchedulerUsesMonitor, MonitorCorrect, PTL

-----------------------------------------------------------------------------
(* The scheduler and the semaphores.                                       *)

OffSemaphore == PCs \ (Slots \union {"semaphore"})

\* The six steps: s goes on without touching its semaphore, takes a permit,
\* queues for one, returns its permit to the pool, hands it to the head of the
\* queue, or is cancelled in the queue.
Moves(s) ==
    /\ UNCHANGED semVars
    /\ \E p \in PCs : /\ pc' = [pc EXCEPT ![s] = p]
                      /\ p \in Slots <=> pc[s] \in Slots
                      /\ p = "semaphore" <=> pc[s] = "semaphore"
TakesPermit(s) ==
    /\ pc[s] \in OffSemaphore
    /\ permits[AgentOf[s]] > 0
    /\ queue[AgentOf[s]] = <<>>
    /\ pc' = [pc EXCEPT ![s] = "prompt"]
    /\ permits' = [permits EXCEPT ![AgentOf[s]] = permits[AgentOf[s]] - 1]
    /\ queue' = queue
QueuesUp(s) ==
    /\ pc[s] \in OffSemaphore
    /\ permits[AgentOf[s]] > 0 => queue[AgentOf[s]] # <<>>
    /\ pc' = [pc EXCEPT ![s] = "semaphore"]
    /\ permits' = permits
    /\ queue' = [queue EXCEPT ![AgentOf[s]] = Append(queue[AgentOf[s]], s)]
ReturnsPermit(s) ==
    /\ pc[s] \in Slots
    /\ queue[AgentOf[s]] = <<>>
    /\ \E next \in OffSemaphore : pc' = [pc EXCEPT ![s] = next]
    /\ permits' = [permits EXCEPT ![AgentOf[s]] = permits[AgentOf[s]] + 1]
    /\ queue' = queue
HandsOver(s) ==
    /\ pc[s] \in Slots
    /\ queue[AgentOf[s]] # <<>>
    /\ \E next \in OffSemaphore :
          pc' = [pc EXCEPT ![s] = next, ![Head(queue[AgentOf[s]])] = "granted"]
    /\ permits' = permits
    /\ queue' = [queue EXCEPT ![AgentOf[s]] = Tail(queue[AgentOf[s]])]
LeavesQueue(s) ==
    /\ pc[s] = "semaphore"
    /\ pc' = [pc EXCEPT ![s] = "done"]
    /\ permits' = permits
    /\ queue' = [queue EXCEPT ![AgentOf[s]] = Without(queue[AgentOf[s]], s)]

SemaphoreStep ==
    \/ UNCHANGED <<pc, semVars>>
    \/ \E s \in Sessions :
          \/ Moves(s) \/ TakesPermit(s) \/ QueuesUp(s)
          \/ ReturnsPermit(s) \/ HandsOver(s) \/ LeavesQueue(s)

SemTyped ==
    /\ pc \in [Sessions -> PCs]
    /\ queue \in [Agents -> Seq(Sessions)]
    /\ permits \in [Agents -> Nat]

LEMMA LoopTopOff == \A s : LoopTop(s) \in {"done", "yielding"}
BY DEF LoopTop

LEMMA EntersOrQueues ==
    ASSUME NEW s \in Sessions, pc[s] \in OffSemaphore, EnterSemaphore(s)
    PROVE  TakesPermit(s) \/ QueuesUp(s)
BY DEF EnterSemaphore, TakesPermit, QueuesUp

LEMMA ReleasesEitherWay ==
    ASSUME NEW s \in Sessions, pc[s] \in Slots,
           NEW next \in OffSemaphore, ReleaseTo(s, next)
    PROVE  ReturnsPermit(s) \/ HandsOver(s)
<1>1. CASE queue[AgentOf[s]] = <<>>
  BY <1>1 DEF ReleaseTo, ReturnsPermit
<1>2. CASE queue[AgentOf[s]] # <<>>
  BY <1>2 DEF ReleaseTo, HandsOver
<1> QED
  BY <1>1, <1>2

LEMMA SemaphoreSteps ==
    ASSUME SemTyped, [Next]_vars
    PROVE  SemaphoreStep
<1> USE DEF Slots, PCs, OffSemaphore, SemTyped
<1>1. CASE Time
  BY <1>1 DEF Time, driverVars, SemaphoreStep
<1>2. ASSUME NEW s \in Sessions,
             Deliver(s) \/ Begin(s) \/ IdleWakes(s) \/ EnterRound(s)
             \/ SaveDone(s) \/ OutageRecorded(s) \/ CheckInboxRaises(s)
             \/ CloseItem(s)
      PROVE  UNCHANGED <<pc, semVars>> \/ Moves(s)
  <2>1. CASE Deliver(s)
    BY <2>1 DEF Deliver, Submit, Live, Moves
  <2>2. CASE Begin(s)
    BY <2>2, LoopTopOff DEF Begin, Moves
  <2>3. CASE IdleWakes(s)
    BY <2>3, LoopTopOff DEF IdleWakes, Moves
  <2>4. CASE EnterRound(s)
    BY <2>4 DEF EnterRound, Moves
  <2>5. CASE SaveDone(s)
    BY <2>5, LoopTopOff DEF SaveDone, Moves
  <2>6. CASE OutageRecorded(s)
    BY <2>6, LoopTopOff DEF OutageRecorded, Moves
  <2>7. CASE CheckInboxRaises(s)
    BY <2>7 DEF CheckInboxRaises, Moves
  <2>8. CASE CloseItem(s)
    BY <2>8 DEF CloseItem, driverVars
  <2> QED
    BY <1>2, <2>1, <2>2, <2>3, <2>4, <2>5, <2>6, <2>7, <2>8
<1>3. ASSUME NEW s \in Sessions, pc[s] \in {"yielding", "gate"}, AskMonitor(s)
      PROVE  Moves(s) \/ TakesPermit(s) \/ QueuesUp(s)
  <2>1. CASE EnterSemaphore(s)
    BY <1>3, <2>1, EntersOrQueues
  <2> QED
    BY <1>3, <2>1 DEF AskMonitor, Moves
<1>4. ASSUME NEW s \in Sessions, CheckInbox(s) \/ LeaveGate(s)
      PROVE  Moves(s) \/ TakesPermit(s) \/ QueuesUp(s)
  <2>1. CASE CheckInbox(s) /\ inbox[s] = {}
    BY <2>1 DEF CheckInbox, Moves
  <2> QED
    BY <1>3, <1>4, <2>1 DEF CheckInbox, LeaveGate
<1>5. ASSUME NEW s \in Sessions, Unwind(s)
      PROVE  Moves(s) \/ ReturnsPermit(s) \/ HandsOver(s) \/ LeavesQueue(s)
  <2>1. CASE pc[s] \in Slots
    BY <1>5, <2>1, ReleasesEitherWay DEF Unwind
  <2>2. CASE pc[s] = "semaphore"
    BY <1>5, <2>2 DEF Unwind, LeavesQueue
  <2>3. CASE pc[s] \notin Slots /\ pc[s] # "semaphore"
    <3>1. pc' = [pc EXCEPT ![s] = "done"] /\ UNCHANGED semVars
      BY <1>5, <2>3 DEF Unwind, semVars
    <3> QED
      BY <2>3, <3>1 DEF Moves
  <2> QED
    BY <2>1, <2>2, <2>3
<1>6. ASSUME NEW s \in Sessions, DispatcherEnds(s)
      PROVE  ReturnsPermit(s) \/ HandsOver(s)
  <2>1. PICK outcome \in Outcomes : EndRound(s, outcome)
    BY <1>6 DEF DispatcherEnds
  <2>2. PICK next \in {"saving", "done", "recording", "yielding"} : ReleaseTo(s, next)
    BY <2>1, LoopTopOff DEF EndRound
  <2> QED
    BY <2>1, <2>2, ReleasesEitherWay DEF EndRound
<1>7. ASSUME NEW a \in Agents, NEW mode \in ShutdownModes, Shutdown(a, mode)
      PROVE  UNCHANGED <<pc, semVars>>
  BY <1>7 DEF Shutdown
<1>8. ASSUME NEW a \in Agents, GraceExpires(a)
      PROVE  UNCHANGED <<pc, semVars>>
  BY <1>8 DEF GraceExpires, driverVars
<1>9. CASE UNCHANGED vars
  BY <1>9 DEF vars, driverVars, SemaphoreStep
<1>10. ASSUME NEW s \in Sessions, RoundReadRaises(s)
       PROVE  ReturnsPermit(s) \/ HandsOver(s)
  BY <1>10, ReleasesEitherWay DEF RoundReadRaises
<1> QED
  BY <1>1, <1>2, <1>4, <1>5, <1>6, <1>7, <1>8, <1>9, <1>10
     DEF Next, DriverStep, SemaphoreStep

-----------------------------------------------------------------------------
(* The queues.                                                             *)

\* Nobody is in q twice.
Distinct(q) == \A i, j \in 1 .. Len(q) : q[i] = q[j] => i = j

\* Whoever is in a queue waits for that queue's semaphore, and is in it once.
QueuesHoldWaiters ==
    \A a \in Agents :
        /\ Distinct(queue[a])
        /\ \A i \in 1 .. Len(queue[a]) : /\ pc[queue[a][i]] = "semaphore"
                                        /\ AgentOf[queue[a][i]] = a

\* Whoever waits for a semaphore is in its queue.
WaitersAreQueued ==
    \A s \in Sessions : pc[s] = "semaphore" =>
        \E i \in 1 .. Len(queue[AgentOf[s]]) : queue[AgentOf[s]][i] = s

Queues == QueuesHoldWaiters /\ WaitersAreQueued

\* r is q with its k-th entry taken out.
RemovedAt(q, k, r) ==
    /\ r \in Seq(Sessions)
    /\ Distinct(r)
    /\ \A j \in 1 .. Len(r) : \E i \in 1 .. Len(q) : i # k /\ r[j] = q[i]
    /\ \A i \in 1 .. Len(q) : i # k => \E j \in 1 .. Len(r) : r[j] = q[i]

\* Tail takes the head out.
LEMMA TailRemoves ==
    ASSUME NEW q \in Seq(Sessions), q # <<>>, Distinct(q)
    PROVE  /\ 1 \in 1 .. Len(q)
           /\ Head(q) = q[1]
           /\ RemovedAt(q, 1, Tail(q))
<1>1. /\ 1 \in 1 .. Len(q)
      /\ Head(q) = q[1]
      /\ Tail(q) \in Seq(Sessions)
      /\ Len(Tail(q)) = Len(q) - 1
      /\ \A j \in 1 .. Len(q) - 1 : Tail(q)[j] = q[j + 1]
  OBVIOUS
<1>2. Len(q) \in Nat
  OBVIOUS
<1>3. Distinct(Tail(q))
  <2> SUFFICES ASSUME NEW i \in 1 .. Len(q) - 1, NEW j \in 1 .. Len(q) - 1,
                      q[i + 1] = q[j + 1]
               PROVE  i = j
    BY <1>1 DEF Distinct
  <2>1. i + 1 = j + 1
    BY <1>2 DEF Distinct
  <2> QED
    BY <2>1
<1>4. ASSUME NEW j \in 1 .. Len(q) - 1
      PROVE  \E i \in 1 .. Len(q) : i # 1 /\ Tail(q)[j] = q[i]
  <2>1. j + 1 \in 1 .. Len(q) /\ j + 1 # 1
    BY <1>2
  <2> QED
    BY <1>1, <2>1
<1>5. ASSUME NEW i \in 1 .. Len(q), i # 1
      PROVE  \E j \in 1 .. Len(q) - 1 : Tail(q)[j] = q[i]
  <2>1. i - 1 \in 1 .. Len(q) - 1 /\ (i - 1) + 1 = i
    BY <1>2, <1>5
  <2> QED
    BY <1>1, <2>1
<1> QED
  BY <1>1, <1>3, <1>4, <1>5 DEF RemovedAt

\* Without takes a waiter out, wherever it is.
LEMMA WithoutRemoves ==
    ASSUME NEW q \in Seq(Sessions), NEW s \in Sessions, Distinct(q),
           NEW k \in 1 .. Len(q), q[k] = s
    PROVE  RemovedAt(q, k, Without(q, s))
<1> DEFINE n == Len(q) - 1
           from(j) == IF k <= j THEN j + 1 ELSE j
           rest == [j \in 1 .. n |-> q[from(j)]]
<1>1. n \in Nat /\ Len(q) \in Nat
  OBVIOUS
<1>2. \A j \in 1 .. n : from(j) \in 1 .. Len(q) /\ from(j) # k
  BY <1>1
<1>3. \A j \in 1 .. n : (\E i \in 1 .. j : q[i] = s) <=> k <= j
  BY <1>1 DEF Distinct
<1>4. Without(q, s) = rest
  BY <1>3 DEF Without
<1>5. rest \in Seq(Sessions) /\ Len(rest) = n
  <2> HIDE DEF from
  <2> QED
    BY <1>1, <1>2
<1>6. Distinct(rest)
  <2> SUFFICES ASSUME NEW i \in 1 .. n, NEW j \in 1 .. n, rest[i] = rest[j]
               PROVE  i = j
    BY <1>5 DEF Distinct
  <2>1. q[from(i)] = q[from(j)]
    OBVIOUS
  <2>2. from(i) = from(j)
    <3> HIDE DEF from
    <3> QED
      BY <1>2, <2>1 DEF Distinct
  <2> QED
    BY <1>1, <2>2
<1>7. \A j \in 1 .. n : \E i \in 1 .. Len(q) : i # k /\ rest[j] = q[i]
  <2> HIDE DEF from
  <2> QED
    BY <1>2
<1>8. ASSUME NEW i \in 1 .. Len(q), i # k
      PROVE  \E j \in 1 .. n : rest[j] = q[i]
  <2>1. CASE i < k
    <3>1. i \in 1 .. n /\ from(i) = i
      BY <1>1, <2>1
    <3> QED
      BY <3>1
  <2>2. CASE i > k
    <3>1. i - 1 \in 1 .. n /\ from(i - 1) = i
      BY <1>1, <2>2
    <3> QED
      BY <3>1
  <2> QED
    BY <1>1, <1>8, <2>1, <2>2
<1> HIDE DEF rest
<1> QED
  BY <1>4, <1>5, <1>6, <1>7, <1>8 DEF RemovedAt

-----------------------------------------------------------------------------
\* Nobody enters or leaves a queue.
LEMMA QueuesUnmoved ==
    ASSUME Queues, queue' = queue,
           \A t \in Sessions : pc'[t] = "semaphore" <=> pc[t] = "semaphore",
           queue \in [Agents -> Seq(Sessions)]
    PROVE  Queues'
<1>1. \A a \in Agents : \A i \in 1 .. Len(queue[a]) : queue[a][i] \in Sessions
  OBVIOUS
<1>2. QueuesHoldWaiters'
  BY <1>1 DEF Queues, QueuesHoldWaiters
<1>3. WaitersAreQueued'
  BY DEF Queues, WaitersAreQueued
<1> QED
  BY <1>2, <1>3 DEF Queues

\* One waiter leaves its queue, to run or cancelled.
LEMMA QueuesLoseOne ==
    ASSUME Queues, queue \in [Agents -> Seq(Sessions)],
           NEW a \in Agents, NEW k \in 1 .. Len(queue[a]), NEW r,
           RemovedAt(queue[a], k, r),
           queue' = [queue EXCEPT ![a] = r],
           \A t \in Sessions : pc'[t] = "semaphore" <=>
                                  pc[t] = "semaphore" /\ t # queue[a][k]
    PROVE  Queues' /\ queue' \in [Agents -> Seq(Sessions)]
<1>1. \A b \in Agents : /\ Distinct(queue[b])
                        /\ \A i \in 1 .. Len(queue[b]) :
                              /\ queue[b][i] \in Sessions
                              /\ pc[queue[b][i]] = "semaphore"
                              /\ AgentOf[queue[b][i]] = b
  BY DEF Queues, QueuesHoldWaiters
<1>2. /\ queue'[a] = r
      /\ \A b \in Agents : b # a => queue'[b] = queue[b]
  OBVIOUS
<1>3. AgentOf[queue[a][k]] = a
  BY <1>1
<1>4. ASSUME NEW b \in Agents
      PROVE  /\ Distinct(queue'[b])
             /\ \A i \in 1 .. Len(queue'[b]) : /\ pc'[queue'[b][i]] = "semaphore"
                                              /\ AgentOf[queue'[b][i]] = b
  <2>1. CASE b # a
    <3>1. queue'[b] = queue[b] /\ Distinct(queue[b])
      BY <1>1, <1>2, <2>1
    <3>2. ASSUME NEW i \in 1 .. Len(queue[b])
          PROVE  pc'[queue[b][i]] = "semaphore" /\ AgentOf[queue[b][i]] = b
      <4>1. /\ queue[b][i] \in Sessions
            /\ pc[queue[b][i]] = "semaphore"
            /\ AgentOf[queue[b][i]] = b
            /\ queue[b][i] # queue[a][k]
        BY <1>1, <1>3, <2>1
      <4> QED
        BY <4>1
    <3> QED
      BY <3>1, <3>2
  <2>2. CASE b = a
    <3> SUFFICES ASSUME NEW i \in 1 .. Len(r)
                 PROVE  pc'[r[i]] = "semaphore" /\ AgentOf[r[i]] = a
      BY <1>2, <2>2 DEF RemovedAt
    <3>1. PICK j \in 1 .. Len(queue[a]) : j # k /\ r[i] = queue[a][j]
      BY DEF RemovedAt
    <3>2. queue[a][j] # queue[a][k]
      BY <1>1, <3>1 DEF Distinct
    <3>3. /\ queue[a][j] \in Sessions
          /\ pc[queue[a][j]] = "semaphore"
          /\ AgentOf[queue[a][j]] = a
      BY <1>1, <3>1
    <3>4. pc'[queue[a][j]] = "semaphore"
      BY <3>2, <3>3
    <3> QED
      BY <3>1, <3>3, <3>4
  <2> QED
    BY <2>1, <2>2
<1>5. ASSUME NEW t \in Sessions, pc'[t] = "semaphore"
      PROVE  \E j \in 1 .. Len(queue'[AgentOf[t]]) : queue'[AgentOf[t]][j] = t
  <2>1. pc[t] = "semaphore" /\ t # queue[a][k]
    BY <1>5
  <2>2. PICK i \in 1 .. Len(queue[AgentOf[t]]) : queue[AgentOf[t]][i] = t
    BY <2>1 DEF Queues, WaitersAreQueued
  <2>3. CASE AgentOf[t] # a
    BY <1>2, <2>2, <2>3
  <2>4. CASE AgentOf[t] = a
    <3>1. i # k /\ i \in 1 .. Len(queue[a]) /\ queue[a][i] = t
      BY <2>1, <2>2, <2>4
    <3>2. PICK j \in 1 .. Len(r) : r[j] = queue[a][i]
      BY <3>1 DEF RemovedAt
    <3> QED
      BY <1>2, <2>4, <3>1, <3>2
  <2> QED
    BY <2>3, <2>4
<1> QED
  BY <1>4, <1>5 DEF Queues, QueuesHoldWaiters, WaitersAreQueued, RemovedAt

\* A newcomer goes to the end of its queue.
LEMMA QueuesGainOne ==
    ASSUME Queues, queue \in [Agents -> Seq(Sessions)],
           NEW s \in Sessions, pc[s] # "semaphore",
           queue' = [queue EXCEPT ![AgentOf[s]] = Append(queue[AgentOf[s]], s)],
           \A t \in Sessions : pc'[t] = "semaphore" <=>
                                  pc[t] = "semaphore" \/ t = s
    PROVE  Queues' /\ queue' \in [Agents -> Seq(Sessions)]
<1> DEFINE a == AgentOf[s]
<1>1. \A b \in Agents : /\ Distinct(queue[b])
                        /\ \A i \in 1 .. Len(queue[b]) :
                              /\ queue[b][i] \in Sessions
                              /\ queue[b][i] # s
                              /\ pc[queue[b][i]] = "semaphore"
                              /\ AgentOf[queue[b][i]] = b
  BY DEF Queues, QueuesHoldWaiters
<1>2. /\ a \in Agents
      /\ queue[a] \in Seq(Sessions)
      /\ queue'[a] = Append(queue[a], s)
      /\ \A b \in Agents : b # a => queue'[b] = queue[b]
  OBVIOUS
<1>3. /\ queue'[a] \in Seq(Sessions)
      /\ Len(queue'[a]) = Len(queue[a]) + 1
      /\ queue'[a][Len(queue[a]) + 1] = s
      /\ \A i \in 1 .. Len(queue[a]) : queue'[a][i] = queue[a][i]
      /\ Len(queue[a]) \in Nat
  <2> HIDE DEF a
  <2> QED
    BY <1>2
<1> HIDE DEF a
<1>4. ASSUME NEW b \in Agents
      PROVE  /\ Distinct(queue'[b])
             /\ \A i \in 1 .. Len(queue'[b]) : /\ pc'[queue'[b][i]] = "semaphore"
                                              /\ AgentOf[queue'[b][i]] = b
  <2>1. CASE b # a
    <3>1. queue'[b] = queue[b] /\ Distinct(queue[b])
      BY <1>1, <1>2, <2>1
    <3>2. ASSUME NEW i \in 1 .. Len(queue[b])
          PROVE  pc'[queue[b][i]] = "semaphore" /\ AgentOf[queue[b][i]] = b
      BY <1>1
    <3> QED
      BY <3>1, <3>2
  <2>2. CASE b = a
    <3>1. \A i \in 1 .. Len(queue'[a]) :
             i \in 1 .. Len(queue[a]) \/ i = Len(queue[a]) + 1
      BY <1>3
    <3>2. Distinct(queue'[a])
      BY <1>1, <1>2, <1>3, <3>1 DEF Distinct
    <3>3. \A i \in 1 .. Len(queue'[a]) : /\ pc'[queue'[a][i]] = "semaphore"
                                        /\ AgentOf[queue'[a][i]] = a
      BY <1>1, <1>2, <1>3, <3>1 DEF a
    <3> QED
      BY <2>2, <3>2, <3>3
  <2> QED
    BY <2>1, <2>2
<1>5. ASSUME NEW t \in Sessions, pc'[t] = "semaphore"
      PROVE  \E j \in 1 .. Len(queue'[AgentOf[t]]) : queue'[AgentOf[t]][j] = t
  <2>1. CASE t = s
    <3>1. Len(queue[a]) + 1 \in 1 .. Len(queue'[a])
      BY <1>3
    <3> QED
      BY <1>3, <2>1, <3>1 DEF a
  <2>2. CASE t # s
    <3>1. PICK i \in 1 .. Len(queue[AgentOf[t]]) : queue[AgentOf[t]][i] = t
      BY <1>5, <2>2 DEF Queues, WaitersAreQueued
    <3>2. CASE AgentOf[t] # a
      BY <1>2, <3>1, <3>2
    <3>3. CASE AgentOf[t] = a
      <4>1. i \in 1 .. Len(queue'[a])
        BY <1>3, <3>1, <3>3
      <4> QED
        BY <1>3, <3>1, <3>3, <4>1
    <3> QED
      BY <3>2, <3>3
  <2> QED
    BY <2>1, <2>2
<1>6. queue' \in [Agents -> Seq(Sessions)]
  BY <1>2, <1>3 DEF a
<1> QED
  BY <1>4, <1>5, <1>6 DEF Queues, QueuesHoldWaiters, WaitersAreQueued

LEMMA QueuesStep ==
    ASSUME SemTyped, Queues, SemaphoreStep
    PROVE  SemTyped' /\ Queues'
<1> USE DEF SemTyped
<1>1. CASE UNCHANGED <<pc, semVars>>
  BY <1>1, QueuesUnmoved DEF semVars
<1>2. ASSUME NEW s \in Sessions, Moves(s)
      PROVE  SemTyped' /\ Queues'
  BY <1>2, QueuesUnmoved DEF Moves, semVars
<1>3. ASSUME NEW s \in Sessions, TakesPermit(s)
      PROVE  SemTyped' /\ Queues'
  <2>1. permits' \in [Agents -> Nat]
    <3>1. permits[AgentOf[s]] - 1 \in Nat
      BY <1>3 DEF TakesPermit
    <3> QED
      BY <1>3, <3>1 DEF TakesPermit
  <2>2. pc' \in [Sessions -> PCs]
    BY <1>3 DEF TakesPermit, PCs, Slots
  <2>3. Queues'
    BY <1>3, QueuesUnmoved DEF TakesPermit, OffSemaphore
  <2> QED
    BY <1>3, <2>1, <2>2, <2>3 DEF TakesPermit
<1>4. ASSUME NEW s \in Sessions, QueuesUp(s)
      PROVE  SemTyped' /\ Queues'
  <2>1. pc' \in [Sessions -> PCs] /\ permits' \in [Agents -> Nat]
    BY <1>4 DEF QueuesUp, PCs
  <2>2. \A t \in Sessions : pc'[t] = "semaphore" <=> pc[t] = "semaphore" \/ t = s
    BY <1>4 DEF QueuesUp
  <2> QED
    BY <1>4, <2>1, <2>2, QueuesGainOne DEF QueuesUp, OffSemaphore
<1>5. ASSUME NEW s \in Sessions, ReturnsPermit(s)
      PROVE  SemTyped' /\ Queues'
  <2>1. permits' \in [Agents -> Nat]
    <3>1. permits[AgentOf[s]] + 1 \in Nat
      OBVIOUS
    <3> QED
      BY <1>5, <3>1 DEF ReturnsPermit
  <2>2. PICK next \in OffSemaphore : pc' = [pc EXCEPT ![s] = next]
    BY <1>5 DEF ReturnsPermit
  <2>3. pc' \in [Sessions -> PCs]
    BY <2>2 DEF OffSemaphore
  <2>4. Queues'
    BY <1>5, <2>2, QueuesUnmoved DEF ReturnsPermit, OffSemaphore, Slots
  <2> QED
    BY <1>5, <2>1, <2>3, <2>4 DEF ReturnsPermit
<1>6. ASSUME NEW s \in Sessions, HandsOver(s)
      PROVE  SemTyped' /\ Queues'
  <2> DEFINE q == queue[AgentOf[s]]
  <2>1. q \in Seq(Sessions) /\ q # <<>> /\ Distinct(q)
    BY <1>6 DEF HandsOver, Queues, QueuesHoldWaiters
  <2>2. 1 \in 1 .. Len(q) /\ Head(q) = q[1] /\ RemovedAt(q, 1, Tail(q))
    <3> HIDE DEF q
    <3> QED
      BY <2>1, TailRemoves
  <2>3. PICK next \in OffSemaphore :
            pc' = [pc EXCEPT ![s] = next, ![q[1]] = "granted"]
    BY <1>6, <2>2 DEF HandsOver
  <2>4. q[1] \in Sessions /\ pc[q[1]] = "semaphore"
    BY <2>1, <2>2 DEF Queues, QueuesHoldWaiters
  <2>5. \A t \in Sessions : pc'[t] = "semaphore" <=> pc[t] = "semaphore" /\ t # q[1]
    BY <1>6, <2>3, <2>4 DEF HandsOver, OffSemaphore, Slots
  <2>6. pc' \in [Sessions -> PCs]
    BY <2>3, <2>4 DEF OffSemaphore, PCs, Slots
  <2>7. AgentOf[s] \in Agents /\ queue' = [queue EXCEPT ![AgentOf[s]] = Tail(q)]
    BY <1>6 DEF HandsOver
  <2>8. Queues' /\ queue' \in [Agents -> Seq(Sessions)]
    <3> DEFINE a == AgentOf[s]
               k == 1
               r == Tail(q)
    <3>1. /\ a \in Agents
          /\ k \in 1 .. Len(queue[a])
          /\ RemovedAt(queue[a], k, r)
          /\ queue' = [queue EXCEPT ![a] = r]
          /\ \A t \in Sessions : pc'[t] = "semaphore" <=>
                                     pc[t] = "semaphore" /\ t # queue[a][k]
      BY <2>2, <2>5, <2>7
    <3> HIDE DEF a, k, r
    <3> QED
      BY <3>1, QueuesLoseOne
  <2> QED
    BY <1>6, <2>6, <2>8 DEF HandsOver
<1>7. ASSUME NEW s \in Sessions, LeavesQueue(s)
      PROVE  SemTyped' /\ Queues'
  <2> DEFINE q == queue[AgentOf[s]]
  <2>1. q \in Seq(Sessions) /\ Distinct(q)
    BY DEF Queues, QueuesHoldWaiters
  <2>2. PICK k \in 1 .. Len(q) : q[k] = s
    BY <1>7 DEF LeavesQueue, Queues, WaitersAreQueued
  <2>3. RemovedAt(q, k, Without(q, s))
    <3> HIDE DEF q
    <3> QED
      BY <2>1, <2>2, WithoutRemoves
  <2>4. pc' \in [Sessions -> PCs] /\ permits' \in [Agents -> Nat]
    BY <1>7 DEF LeavesQueue, PCs
  <2>5. \A t \in Sessions : pc'[t] = "semaphore" <=> pc[t] = "semaphore" /\ t # q[k]
    BY <1>7, <2>2 DEF LeavesQueue
  <2>6. AgentOf[s] \in Agents /\ queue' = [queue EXCEPT ![AgentOf[s]] = Without(q, s)]
    BY <1>7 DEF LeavesQueue
  <2>7. Queues' /\ queue' \in [Agents -> Seq(Sessions)]
    <3> DEFINE a == AgentOf[s]
               r == Without(q, s)
    <3>1. a \in Agents /\ k \in 1 .. Len(queue[a])
      BY <2>2, <2>6
    <3>2. RemovedAt(queue[a], k, r)
      BY <2>3
    <3>3. queue' = [queue EXCEPT ![a] = r]
      BY <2>6
    <3>4. \A t \in Sessions : pc'[t] = "semaphore" <=>
                                  pc[t] = "semaphore" /\ t # queue[a][k]
      BY <2>5
    <3>5. queue \in [Agents -> Seq(Sessions)] /\ Queues
      OBVIOUS
    <3> HIDE DEF a, r
    <3> QED
      BY ONLY <3>1, <3>2, <3>3, <3>4, <3>5, QueuesLoseOne
  <2>8. SemTyped'
    BY <2>4, <2>7 DEF SemTyped
  <2> QED
    BY <2>7, <2>8
<1> QED
  BY <1>1, <1>2, <1>3, <1>4, <1>5, <1>6, <1>7 DEF SemaphoreStep

-----------------------------------------------------------------------------
(* The permits.                                                            *)

Holders(a) == {s \in Sessions : AgentOf[s] = a /\ pc[s] \in Slots}

\* No permit is idle while a session of the agent queues for one.
NoIdlePermit == \A a \in Agents : permits[a] > 0 => queue[a] = <<>>

LEMMA HoldersAreFinite ==
    \A a : IsFiniteSet(Holders(a)) /\ Cardinality(Holders(a)) \in Nat
BY FS_Subset, FS_CardinalityType DEF Holders

LEMMA PermitsStep ==
    ASSUME SemTyped, Queues, PermitsAccounted, NoIdlePermit, SemaphoreStep
    PROVE  PermitsAccounted' /\ NoIdlePermit'
<1> USE DEF SemTyped
<1>1. \A a \in Agents : permits[a] + Cardinality(Holders(a)) = Concurrency
  BY DEF PermitsAccounted, Holders
<1>2. ASSUME \A a \in Agents : permits'[a] + Cardinality(Holders(a)') = Concurrency
      PROVE  PermitsAccounted'
  BY <1>2 DEF PermitsAccounted, Holders
<1>3. ASSUME UNCHANGED semVars,
             \A t \in Sessions : pc'[t] \in Slots <=> pc[t] \in Slots
      PROVE  PermitsAccounted' /\ NoIdlePermit'
  <2>1. \A a \in Agents : Holders(a)' = Holders(a)
    BY <1>3 DEF Holders
  <2> QED
    BY <1>1, <1>2, <1>3, <2>1 DEF semVars, NoIdlePermit
<1>4. CASE UNCHANGED <<pc, semVars>>
  BY <1>3, <1>4
<1>5. ASSUME NEW s \in Sessions, Moves(s)
      PROVE  PermitsAccounted' /\ NoIdlePermit'
  BY <1>3, <1>5 DEF Moves
<1>6. ASSUME NEW s \in Sessions, TakesPermit(s)
      PROVE  PermitsAccounted' /\ NoIdlePermit'
  <2>1. ASSUME NEW a \in Agents
        PROVE  permits'[a] + Cardinality(Holders(a)') = Concurrency
    <3>1. CASE a = AgentOf[s]
      <4>1. s \notin Holders(a)
        BY <1>6 DEF TakesPermit, OffSemaphore, Holders
      <4>2. Holders(a)' = Holders(a) \union {s}
        BY <1>6, <3>1 DEF TakesPermit, Holders, Slots
      <4>3. Cardinality(Holders(a)') = Cardinality(Holders(a)) + 1
        BY <4>1, <4>2, HoldersAreFinite, FS_AddElement
      <4>4. permits'[a] = permits[a] - 1
        BY <1>6, <3>1 DEF TakesPermit
      <4> QED
        BY <1>1, <4>3, <4>4, HoldersAreFinite
    <3>2. CASE a # AgentOf[s]
      <4>1. Holders(a)' = Holders(a)
        BY <1>6, <3>2 DEF TakesPermit, Holders
      <4>2. permits'[a] = permits[a]
        BY <1>6, <3>2 DEF TakesPermit
      <4> QED
        BY <1>1, <4>1, <4>2
    <3> QED
      BY <3>1, <3>2
  <2>2. NoIdlePermit'
    BY <1>6 DEF TakesPermit, NoIdlePermit
  <2> QED
    BY <1>2, <2>1, <2>2
<1>7. ASSUME NEW s \in Sessions, QueuesUp(s)
      PROVE  PermitsAccounted' /\ NoIdlePermit'
  <2>1. \A a \in Agents : Holders(a)' = Holders(a)
    BY <1>7 DEF QueuesUp, OffSemaphore, Slots, Holders
  <2>2. NoIdlePermit'
    BY <1>7 DEF QueuesUp, NoIdlePermit
  <2> QED
    BY <1>1, <1>2, <1>7, <2>1, <2>2 DEF QueuesUp
<1>8. ASSUME NEW s \in Sessions, ReturnsPermit(s)
      PROVE  PermitsAccounted' /\ NoIdlePermit'
  <2>1. PICK next \in OffSemaphore : pc' = [pc EXCEPT ![s] = next]
    BY <1>8 DEF ReturnsPermit
  <2>2. ASSUME NEW a \in Agents
        PROVE  permits'[a] + Cardinality(Holders(a)') = Concurrency
    <3>1. CASE a = AgentOf[s]
      <4>1. s \in Holders(a)
        BY <1>8, <3>1 DEF ReturnsPermit, Holders
      <4>2. Holders(a)' = Holders(a) \ {s}
        <5>1. next \notin Slots /\ pc'[s] = next
          BY <2>1 DEF OffSemaphore
        <5>2. \A t \in Sessions : t # s => pc'[t] = pc[t]
          BY <2>1
        <5> QED
          BY <5>1, <5>2, <3>1 DEF Holders
      <4>3. Cardinality(Holders(a)') = Cardinality(Holders(a)) - 1
        BY <4>1, <4>2, HoldersAreFinite, FS_RemoveElement
      <4>4. permits'[a] = permits[a] + 1
        BY <1>8, <3>1 DEF ReturnsPermit
      <4> QED
        BY <1>1, <4>3, <4>4, HoldersAreFinite
    <3>2. CASE a # AgentOf[s]
      <4>1. Holders(a)' = Holders(a)
        BY <2>1, <3>2 DEF Holders
      <4>2. permits'[a] = permits[a]
        BY <1>8, <3>2 DEF ReturnsPermit
      <4> QED
        BY <1>1, <4>1, <4>2
    <3> QED
      BY <3>1, <3>2
  <2>3. NoIdlePermit'
    BY <1>8 DEF ReturnsPermit, NoIdlePermit
  <2> QED
    BY <1>2, <2>2, <2>3
<1>9. ASSUME NEW s \in Sessions, HandsOver(s)
      PROVE  PermitsAccounted' /\ NoIdlePermit'
  <2> DEFINE h == Head(queue[AgentOf[s]])
  <2>1. PICK next \in OffSemaphore : pc' = [pc EXCEPT ![s] = next, ![h] = "granted"]
    BY <1>9 DEF HandsOver
  <2>2. h \in Sessions /\ pc[h] = "semaphore" /\ AgentOf[h] = AgentOf[s]
    <3>1. queue[AgentOf[s]] \in Seq(Sessions) /\ queue[AgentOf[s]] # <<>>
      BY <1>9 DEF HandsOver
    <3>2. h = queue[AgentOf[s]][1] /\ 1 \in 1 .. Len(queue[AgentOf[s]]) /\ h \in Sessions
      BY <3>1
    <3> QED
      BY <3>2 DEF Queues, QueuesHoldWaiters
  <2>3. s # h
    BY <1>9, <2>2 DEF HandsOver, Slots
  <2> HIDE DEF h
  <2>4. ASSUME NEW a \in Agents
        PROVE  Cardinality(Holders(a)') = Cardinality(Holders(a))
    <3>1. CASE a = AgentOf[s]
      <4>1. s \in Holders(a) /\ h \notin Holders(a)
        BY <1>9, <2>2, <3>1 DEF HandsOver, Holders, Slots
      <4>2. Holders(a)' = (Holders(a) \ {s}) \union {h}
        BY <2>1, <2>2, <2>3, <3>1 DEF OffSemaphore, Slots, Holders
      <4>3. /\ IsFiniteSet(Holders(a) \ {s})
            /\ Cardinality(Holders(a) \ {s}) = Cardinality(Holders(a)) - 1
        BY <4>1, HoldersAreFinite, FS_RemoveElement
      <4>4. Cardinality(Holders(a)') = Cardinality(Holders(a) \ {s}) + 1
        BY <4>1, <4>2, <4>3, FS_AddElement
      <4> QED
        BY <4>3, <4>4, HoldersAreFinite
    <3>2. CASE a # AgentOf[s]
      <4>1. Holders(a)' = Holders(a)
        BY <2>1, <2>2, <3>2 DEF Holders
      <4> QED
        BY <4>1
    <3> QED
      BY <3>1, <3>2
  <2>5. permits' = permits
    BY <1>9 DEF HandsOver
  <2>6. NoIdlePermit'
    BY <1>9 DEF HandsOver, NoIdlePermit
  <2> QED
    BY <1>1, <1>2, <2>4, <2>5, <2>6
<1>10. ASSUME NEW s \in Sessions, LeavesQueue(s)
      PROVE  PermitsAccounted' /\ NoIdlePermit'
  <2>1. \A a \in Agents : Holders(a)' = Holders(a)
    BY <1>10 DEF LeavesQueue, Slots, Holders
  <2>2. queue[AgentOf[s]] # <<>>
    BY <1>10 DEF LeavesQueue, Queues, WaitersAreQueued
  <2>3. NoIdlePermit'
    BY <1>10, <2>2 DEF LeavesQueue, NoIdlePermit
  <2> QED
    BY <1>1, <1>2, <1>10, <2>1, <2>3 DEF LeavesQueue
<1> QED
  BY <1>4, <1>5, <1>6, <1>7, <1>8, <1>9, <1>10 DEF SemaphoreStep

SemInv == SemTyped /\ Queues /\ PermitsAccounted /\ NoIdlePermit

LEMMA SemInit == Init => SemInv
<1> SUFFICES ASSUME Init
             PROVE  SemInv
  OBVIOUS
<1>1. SemTyped
  BY DEF Init, SemTyped, PCs
<1>2. Queues
  BY DEF Init, Queues, QueuesHoldWaiters, WaitersAreQueued, Distinct
<1>3. PermitsAccounted
  <2> SUFFICES ASSUME NEW a \in Agents
               PROVE  permits[a] + Cardinality({s \in Sessions :
                                AgentOf[s] = a /\ pc[s] \in Slots}) = Concurrency
    BY DEF PermitsAccounted
  <2>1. {s \in Sessions : AgentOf[s] = a /\ pc[s] \in Slots} = {}
    BY DEF Init, Slots
  <2>2. Cardinality({}) = 0
    BY FS_EmptySet
  <2>3. permits[a] = Concurrency
    BY DEF Init
  <2> QED
    BY <2>1, <2>2, <2>3
<1>4. NoIdlePermit
  BY DEF Init, NoIdlePermit
<1> QED
  BY <1>1, <1>2, <1>3, <1>4 DEF SemInv

LEMMA SemInvariant == Spec => []SemInv
<1>1. SemInv /\ [Next]_vars => SemInv'
  BY SemaphoreSteps, QueuesStep, PermitsStep DEF SemInv
<1> QED
  BY <1>1, SemInit, PTL DEF Spec

\* No permit is leaked and none is returned twice, by rounds that raise or by
\* tasks cancelled in a round or in the queue.
THEOREM PermitsAreAccountedFor == Spec => []PermitsAccounted
<1>1. SemInv => PermitsAccounted
  BY DEF SemInv
<1> QED
  BY <1>1, SemInvariant, PTL

\* The semaphore bounds the rounds of an agent.
THEOREM RoundsAreBounded ==
    Spec => [](\A a \in Agents : Cardinality(Holders(a)) <= Concurrency)
<1>1. SemInv => \A a \in Agents : Cardinality(Holders(a)) <= Concurrency
  <2> SUFFICES ASSUME SemInv, NEW a \in Agents
               PROVE  Cardinality(Holders(a)) <= Concurrency
    OBVIOUS
  <2>1. permits[a] \in Nat /\ permits[a] + Cardinality(Holders(a)) = Concurrency
    BY DEF SemInv, SemTyped, PermitsAccounted, Holders
  <2> QED
    BY <2>1, HoldersAreFinite
<1> QED
  BY <1>1, SemInvariant, PTL

\* A free permit is never kept from a session that queues for one.
THEOREM NoPermitIsIdle == Spec => []NoIdlePermit
<1>1. SemInv => NoIdlePermit
  BY DEF SemInv
<1> QED
  BY <1>1, SemInvariant, PTL

-----------------------------------------------------------------------------
(* The semaphores are fair.                                                *)

\* Without takes a waiter out and keeps the order of the others.
LEMMA WithoutKeepsOrder ==
    ASSUME NEW q \in Seq(Sessions), NEW s \in Sessions, Distinct(q),
           NEW k \in 1 .. Len(q), q[k] = s
    PROVE  Without(q, s) = Semaphore!Removing(q, k)
<1>1. Len(q) \in Nat
  OBVIOUS
<1>2. \A j \in 1 .. Len(q) - 1 : (\E i \in 1 .. j : q[i] = s) <=> ~(j < k)
  BY <1>1 DEF Distinct
<1> QED
  BY <1>2 DEF Without, Semaphore!Removing

\* Who holds a permit, or is on its way to the semaphore, does not wait.
LEMMA OnlyWaitersWait ==
    ASSUME SemTyped, Queues, NEW s \in Sessions, pc[s] # "semaphore"
    PROVE  ~Semaphore!Waits(s)
BY DEF Semaphore!Waits, SemTyped, Queues, QueuesHoldWaiters

\* The abstract semaphore counts as this module does.
LEMMA SameCount == \A S : Semaphore!Cardinality(S) = Cardinality(S)
BY DEF Semaphore!Cardinality, Cardinality

\* A step of the scheduler is one of the abstract semaphore or leaves it alone.
LEMMA StepsOfTheSemaphore ==
    ASSUME SemInv, SemaphoreStep
    PROVE  [Semaphore!Next]_<<{s \in Sessions : pc[s] \in Slots}, queue>>
<1> DEFINE held == {s \in Sessions : pc[s] \in Slots}
<1> USE DEF SemInv, SemTyped
<1>1. /\ \A a \in Agents : Semaphore!HoldersOf(a) = Holders(a)
      /\ \A a \in Agents : permits[a] + Cardinality(Holders(a)) = Concurrency
  BY DEF Semaphore!HoldersOf, Holders, PermitsAccounted
<1>2. ASSUME UNCHANGED <<pc, semVars>> \/ \E s \in Sessions : Moves(s)
      PROVE  UNCHANGED <<held, queue>>
  <2>1. \A t \in Sessions : pc'[t] \in Slots <=> pc[t] \in Slots
    BY <1>2 DEF Moves
  <2> QED
    BY <1>2, <2>1 DEF Moves, semVars
<1>3. ASSUME NEW s \in Sessions, TakesPermit(s)
      PROVE  Semaphore!Enter(s)
  <2>1. s \notin held /\ ~Semaphore!Waits(s)
    BY <1>3, OnlyWaitersWait DEF TakesPermit, OffSemaphore
  <2>2. Cardinality(Semaphore!HoldersOf(AgentOf[s])) < Concurrency
    BY <1>1, <1>3, HoldersAreFinite DEF TakesPermit
  <2>3. held' = held \union {s}
    BY <1>3 DEF TakesPermit, Slots
  <2>4. queue[AgentOf[s]] = <<>> /\ queue' = queue
    BY <1>3 DEF TakesPermit
  <2> QED
    BY <2>1, <2>2, <2>3, <2>4, SameCount DEF Semaphore!Enter
<1>4. ASSUME NEW s \in Sessions, QueuesUp(s)
      PROVE  Semaphore!Wait(s)
  <2>1. s \notin held /\ ~Semaphore!Waits(s)
    BY <1>4, OnlyWaitersWait DEF QueuesUp, OffSemaphore
  <2>2. permits[AgentOf[s]] = 0
    BY <1>4 DEF QueuesUp, NoIdlePermit
  <2>3. Cardinality(Semaphore!HoldersOf(AgentOf[s])) = Concurrency
    BY <1>1, <2>2, HoldersAreFinite
  <2>4. held' = held
    BY <1>4 DEF QueuesUp, OffSemaphore, Slots
  <2>5. queue' = [queue EXCEPT ![AgentOf[s]] = Append(queue[AgentOf[s]], s)]
    BY <1>4 DEF QueuesUp
  <2> QED
    BY <2>1, <2>3, <2>4, <2>5, SameCount DEF Semaphore!Wait
<1>5. ASSUME NEW s \in Sessions, ReturnsPermit(s)
      PROVE  Semaphore!Leave(s)
  <2>1. PICK next \in OffSemaphore : pc' = [pc EXCEPT ![s] = next]
    BY <1>5 DEF ReturnsPermit
  <2>2. held' = held \ {s}
    BY <2>1 DEF OffSemaphore
  <2> QED
    BY <1>5, <2>2 DEF ReturnsPermit, Semaphore!Leave
<1>6. ASSUME NEW s \in Sessions, HandsOver(s)
      PROVE  Semaphore!Leave(s)
  <2> DEFINE h == Head(queue[AgentOf[s]])
  <2>1. PICK next \in OffSemaphore : pc' = [pc EXCEPT ![s] = next, ![h] = "granted"]
    BY <1>6 DEF HandsOver
  <2>2. h \in Sessions
    BY <1>6 DEF HandsOver
  <2>3. held' = (held \ {s}) \union {h}
    <3> HIDE DEF h
    <3> QED
      BY <2>1, <2>2 DEF OffSemaphore, Slots
  <2> QED
    BY <1>6, <2>3 DEF HandsOver, Semaphore!Leave
<1>7. ASSUME NEW s \in Sessions, LeavesQueue(s)
      PROVE  Semaphore!GiveUp(s)
  <2>1. PICK k \in 1 .. Len(queue[AgentOf[s]]) : queue[AgentOf[s]][k] = s
    BY <1>7 DEF LeavesQueue, Queues, WaitersAreQueued
  <2>2. Without(queue[AgentOf[s]], s) = Semaphore!Removing(queue[AgentOf[s]], k)
    BY <2>1, WithoutKeepsOrder DEF Queues, QueuesHoldWaiters
  <2>3. held' = held
    BY <1>7 DEF LeavesQueue, Slots
  <2> QED
    BY <1>7, <2>1, <2>2, <2>3 DEF LeavesQueue, Semaphore!GiveUp
<1> QED
  BY <1>2, <1>3, <1>4, <1>5, <1>6, <1>7 DEF SemaphoreStep, Semaphore!Next

\* Refinement: asyncio's count of permits, which are handed from task to task,
\* is a FIFO semaphore to the rounds, whatever becomes of the tasks that hold
\* it or wait for it.
THEOREM RoundsTakeTurns == Spec => PermitsGoInOrder
<1>1. Init => Semaphore!Init
  BY DEF Init, Semaphore!Init, Slots
<1>2. SemInv /\ [Next]_vars => [Semaphore!Next]_<<{s \in Sessions : pc[s] \in Slots}, queue>>
  BY SemaphoreSteps, StepsOfTheSemaphore DEF SemInv
<1> QED
  BY <1>1, <1>2, SemInvariant, PTL DEF Spec, PermitsGoInOrder, Semaphore!Spec
=============================================================================
