-------------------------- MODULE AgentDrain_proofs --------------------------
(***************************************************************************)
(* What AgentScheduler does with the inboxes and with the monitor, for any *)
(* number of sessions and items: types, the watch over pending items, the  *)
(* rounds that outages end, the drivers that the monitor lets through or   *)
(* has wait, and what a shutdown does to them.                             *)
(***************************************************************************)
EXTENDS AgentScheduler_proofs, WellFoundedInduction

USE SchedulerAssumption DEF SchedulerAssumption

-----------------------------------------------------------------------------
(* Types.                                                                  *)

DriverTyped ==
    /\ inbox \in [Sessions -> SUBSET (1 .. MaxItems)]
    /\ posted \in [Sessions -> 0 .. MaxItems]
    /\ wake \in [Sessions -> BOOLEAN]
    /\ stop \in [Sessions -> BOOLEAN]
    /\ stall \in [Sessions -> Nat]
    /\ before \in [Sessions -> SUBSET (1 .. MaxItems)]
    /\ closing \in [Agents -> {"open", "patient", "grace", "immediate"}]
    /\ cancelled \in SUBSET Sessions
    /\ crashed \in SUBSET Sessions

LEMMA StallAfterTyped ==
    ASSUME DriverTyped, NEW s \in Sessions, NEW outcome
    PROVE  StallAfter(s, outcome) \in Nat
BY DEF DriverTyped, StallAfter

LEMMA EvictionTyped ==
    ASSUME DriverTyped, NEW s \in Sessions, NEW n \in Nat, MaybeEvict(s, n)
    PROVE  /\ inbox' \in [Sessions -> SUBSET (1 .. MaxItems)]
           /\ stall' \in [Sessions -> Nat]
BY DEF DriverTyped, MaybeEvict

\* Who enters a round notes the inbox it finds.
LEMMA AskMonitorTyped ==
    ASSUME DriverTyped, NEW s \in Sessions, AskMonitor(s)
    PROVE  before' \in [Sessions -> SUBSET (1 .. MaxItems)]
<1>1. \/ before' = before \/ before' = [before EXCEPT ![s] = inbox[s]]
  BY DEF AskMonitor, EnterSemaphore
<1> QED
  BY <1>1 DEF DriverTyped

LEMMA DriverTypeStep ==
    ASSUME DriverTyped, [Next]_vars
    PROVE  DriverTyped'
<1> USE DEF DriverTyped
<1>1. CASE Time
  BY <1>1 DEF Time, driverVars
<1>2. ASSUME NEW s \in Sessions, Deliver(s)
      PROVE  DriverTyped'
  <2>1. /\ posted' \in [Sessions -> 0 .. MaxItems]
        /\ inbox' \in [Sessions -> SUBSET (1 .. MaxItems)]
    <3>1. posted[s] + 1 \in 1 .. MaxItems
      BY <1>2 DEF Deliver
    <3> QED
      BY <1>2, <3>1 DEF Deliver
  <2>2. /\ wake' \in [Sessions -> BOOLEAN]
        /\ stop' \in [Sessions -> BOOLEAN]
        /\ stall' \in [Sessions -> Nat]
        /\ crashed' \in SUBSET Sessions
    <3>1. CASE Submit(s)
      <4>1. wake' \in [Sessions -> BOOLEAN]
        BY <3>1 DEF Submit
      <4>2. CASE Live(s)
        BY <3>1, <4>1, <4>2 DEF Submit
      <4>3. CASE ~Live(s)
        <5>1. /\ stop' = [stop EXCEPT ![s] = FALSE]
              /\ stall' = [stall EXCEPT ![s] = 0]
              /\ crashed' = crashed \ {s}
          BY <3>1, <4>3 DEF Submit
        <5> QED
          BY <4>1, <5>1
      <4> QED
        BY <4>2, <4>3
    <3> QED
      BY <1>2, <3>1 DEF Deliver
  <2> QED
    BY <1>2, <2>1, <2>2 DEF Deliver
<1>3. ASSUME NEW s \in Sessions, Begin(s) \/ IdleWakes(s) \/ OutageRecorded(s)
                                 \/ SaveDone(s)
      PROVE  DriverTyped'
  BY <1>3 DEF Begin, IdleWakes, OutageRecorded, SaveDone
<1>4. ASSUME NEW s \in Sessions, CheckInbox(s)
      PROVE  DriverTyped'
  <2>1. before' \in [Sessions -> SUBSET (1 .. MaxItems)]
    BY <1>4, AskMonitorTyped DEF CheckInbox
  <2> QED
    BY <1>4, <2>1 DEF CheckInbox
<1>5. ASSUME NEW s \in Sessions, CheckInboxRaises(s)
      PROVE  DriverTyped'
  BY <1>5 DEF CheckInboxRaises
<1>6. ASSUME NEW s \in Sessions, LeaveGate(s)
      PROVE  DriverTyped'
  BY <1>6, AskMonitorTyped DEF LeaveGate
<1>7. ASSUME NEW s \in Sessions, EnterRound(s)
      PROVE  DriverTyped'
  BY <1>7 DEF EnterRound
<1>8. ASSUME NEW s \in Sessions, CloseItem(s)
      PROVE  DriverTyped'
  BY <1>8 DEF CloseItem, driverVars
<1>9. ASSUME NEW s \in Sessions, DispatcherEnds(s)
      PROVE  DriverTyped'
  <2>1. PICK outcome \in Outcomes : EndRound(s, outcome)
    BY <1>9 DEF DispatcherEnds
  <2>2. /\ inbox' \in [Sessions -> SUBSET (1 .. MaxItems)]
        /\ stall' \in [Sessions -> Nat]
    BY <2>1, StallAfterTyped, EvictionTyped DEF EndRound
  <2>3. crashed' \in SUBSET Sessions
    BY <2>1 DEF EndRound
  <2>4. before' \in [Sessions -> SUBSET (1 .. MaxItems)]
    BY <2>1 DEF EndRound
  <2> QED
    BY <2>1, <2>2, <2>3, <2>4 DEF EndRound
<1>10. ASSUME NEW s \in Sessions, Unwind(s)
       PROVE  DriverTyped'
  BY <1>10 DEF Unwind
<1>11. ASSUME NEW a \in Agents, NEW mode \in ShutdownModes, Shutdown(a, mode)
       PROVE  DriverTyped'
  <2>1. stop' \in [Sessions -> BOOLEAN] /\ wake' \in [Sessions -> BOOLEAN]
    BY <1>11, Zenon DEF Shutdown
  <2>2. cancelled' \in SUBSET Sessions
    BY <1>11 DEF Shutdown, Drivers
  <2>3. closing' \in [Agents -> {"open", "patient", "grace", "immediate"}]
    BY <1>11 DEF Shutdown
  <2> QED
    BY <1>11, <2>1, <2>2, <2>3 DEF Shutdown
<1>12. ASSUME NEW a \in Agents, GraceExpires(a)
       PROVE  DriverTyped'
  BY <1>12 DEF GraceExpires, Drivers, driverVars
<1>13. CASE UNCHANGED vars
  BY <1>13 DEF vars, driverVars
<1>14. ASSUME NEW s \in Sessions, RoundReadRaises(s)
       PROVE  DriverTyped'
  BY <1>14 DEF RoundReadRaises
<1> QED
  BY <1>1, <1>2, <1>3, <1>4, <1>5, <1>6, <1>7, <1>8, <1>9, <1>10, <1>11,
     <1>12, <1>13, <1>14 DEF Next, DriverStep

LEMMA DriverTypes == Spec => []DriverTyped
<1>1. Init => DriverTyped
  BY DEF Init, DriverTyped
<1>2. DriverTyped /\ [Next]_vars => DriverTyped'
  BY DriverTypeStep
<1> QED
  BY <1>1, <1>2, PTL DEF Spec

\* Types.  That the pool never holds more permits than the semaphore was made
\* with is the accounting of permits.
THEOREM TypesHold == Spec => []TypeOK
<1>1. MonitorInv /\ SemInv /\ DriverTyped => TypeOK
  <2> SUFFICES ASSUME MonitorInv, SemInv, DriverTyped
               PROVE  TypeOK
    OBVIOUS
  <2>1. permits \in [Agents -> 0 .. Concurrency]
    <3>1. ASSUME NEW a \in Agents
          PROVE  permits[a] \in 0 .. Concurrency
      <4>1. permits[a] + Cardinality(Holders(a)) = Concurrency
        BY DEF SemInv, PermitsAccounted, Holders
      <4>2. permits[a] \in Nat
        BY DEF SemInv, SemTyped
      <4> QED
        BY <4>1, <4>2, HoldersAreFinite
    <3> QED
      BY <3>1 DEF SemInv, SemTyped
  <2> QED
    BY <2>1 DEF TypeOK, MonitorInv, SemInv, SemTyped, DriverTyped
<1> QED
  BY <1>1, SchedulerUsesMonitor, MonitorCorrect, SemInvariant, DriverTypes, PTL

-----------------------------------------------------------------------------
(* The watch over pending items.                                           *)

\* Only a shutdown stops or cancels a driver.
StopsMeanClosing ==
    \A s \in Sessions :
        stop[s] \/ s \in cancelled => closing[AgentOf[s]] # "open"

WatchInv == SemTyped /\ DriverTyped /\ StopsMeanClosing /\ PendingIsWatched

\* A scheduler that shuts down never opens again.
LEMMA ClosingIsFinal ==
    ASSUME DriverTyped, [Next]_vars, NEW a \in Agents, closing'[a] = "open"
    PROVE  closing[a] = "open"
<1>1. ASSUME NEW b \in Agents, NEW mode \in ShutdownModes, Shutdown(b, mode)
      PROVE  closing[a] = "open"
  BY <1>1 DEF DriverTyped, Shutdown
<1>2. ASSUME NEW b \in Agents, GraceExpires(b)
      PROVE  closing[a] = "open"
  BY <1>2 DEF DriverTyped, GraceExpires
<1>3. CASE UNCHANGED closing
  BY <1>3
<1> QED
  BY <1>1, <1>2, <1>3
     DEF Next, Time, Deliver, DriverStep, Begin, IdleWakes, CheckInbox,
         LeaveGate, EnterRound, SaveDone, OutageRecorded, Unwind,
         CheckInboxRaises, RoundReadRaises, CloseItem, DispatcherEnds, EndRound, vars

LEMMA StopsMeanClosingStep ==
    ASSUME DriverTyped, StopsMeanClosing, [Next]_vars
    PROVE  StopsMeanClosing'
<1> USE DEF DriverTyped, StopsMeanClosing
<1>1. CASE UNCHANGED <<stop, closing>> /\ cancelled' \subseteq cancelled
  BY <1>1
<1>2. ASSUME NEW s \in Sessions, Deliver(s)
      PROVE  StopsMeanClosing'
  <2>1. UNCHANGED <<closing, cancelled>>
    BY <1>2 DEF Deliver
  <2>2. stop' = stop \/ stop' = [stop EXCEPT ![s] = FALSE]
    BY <1>2 DEF Deliver, Submit
  <2>3. \A t \in Sessions : stop'[t] => stop[t]
    BY <2>2
  <2> QED
    BY <2>1, <2>3
<1>3. ASSUME NEW a \in Agents, NEW mode \in ShutdownModes, Shutdown(a, mode)
      PROVE  StopsMeanClosing'
  <2> SUFFICES ASSUME NEW s \in Sessions, stop'[s] \/ s \in cancelled'
               PROVE  closing'[AgentOf[s]] # "open"
    OBVIOUS
  <2>1. /\ mode # "open"
        /\ closing' = [closing EXCEPT ![a] = mode]
    BY <1>3 DEF Shutdown
  <2>2. stop[s] \/ s \in cancelled \/ AgentOf[s] = a
    BY <1>3 DEF Shutdown, Drivers
  <2> QED
    BY <2>1, <2>2
<1>4. ASSUME NEW a \in Agents, GraceExpires(a)
      PROVE  StopsMeanClosing'
  <2> SUFFICES ASSUME NEW s \in Sessions, stop'[s] \/ s \in cancelled'
               PROVE  closing'[AgentOf[s]] # "open"
    OBVIOUS
  <2>1. closing' = [closing EXCEPT ![a] = "immediate"]
    BY <1>4 DEF GraceExpires
  <2>2. stop[s] \/ s \in cancelled \/ AgentOf[s] = a
    BY <1>4 DEF GraceExpires, Drivers, driverVars
  <2> QED
    BY <2>1, <2>2
<1> QED
  BY <1>1, <1>2, <1>3, <1>4
     DEF Next, Time, DriverStep, Begin, IdleWakes, CheckInbox, LeaveGate,
         EnterRound, SaveDone, OutageRecorded, Unwind, CheckInboxRaises,
         RoundReadRaises,
         CloseItem, DispatcherEnds, EndRound, vars, driverVars

\* What a step may do to a session t for the watch over it to go on.
KeepsWatch(t) ==
    /\ inbox'[t] \subseteq inbox[t]
    /\ t \in crashed => t \in crashed'
    /\ \/ pc'[t] = pc[t] /\ wake'[t] = wake[t]
       \/ pc'[t] \in PCs \ {"absent", "idle", "done"}
       \/ pc'[t] = "idle" /\ inbox'[t] = {}
       \/ pc'[t] = "done" /\ (t \in crashed' \/ closing[AgentOf[t]] # "open")

\* What the watch promises of t after the step, if t has pending items.
WatchedNext(t) ==
    IF pc'[t] \notin {"absent", "done"}
    THEN pc'[t] = "idle" => wake'[t]
    ELSE t \in crashed'

LEMMA KeepingWatch ==
    ASSUME WatchInv, NEW t \in Sessions, KeepsWatch(t),
           closing[AgentOf[t]] = "open", inbox'[t] # {}
    PROVE  WatchedNext(t)
<1>1. /\ inbox[t] # {}
      /\ IF Live(t) THEN pc[t] = "idle" => wake[t] ELSE t \in crashed
      /\ crashed \in SUBSET Sessions
  BY DEF KeepsWatch, WatchInv, PendingIsWatched, DriverTyped
<1>2. CASE pc'[t] = pc[t] /\ wake'[t] = wake[t]
  BY <1>1, <1>2 DEF KeepsWatch, WatchedNext, Live
<1>3. CASE pc'[t] \in PCs \ {"absent", "idle", "done"}
  BY <1>3 DEF WatchedNext
<1>4. CASE pc'[t] = "done" /\ t \in crashed'
  BY <1>4 DEF WatchedNext
<1> QED
  BY <1>2, <1>3, <1>4 DEF KeepsWatch

\* A round that ends wakes nobody but the head of the queue.
LEMMA ReleaseKeepsOthers ==
    ASSUME SemTyped, NEW s \in Sessions, NEW next, ReleaseTo(s, next),
           NEW t \in Sessions
    PROVE  \/ pc'[t] = "granted"
           \/ pc'[t] = IF t = s THEN next ELSE pc[t]
BY DEF SemTyped, ReleaseTo

\* An evictor takes items out of its own session's inbox only.
LEMMA EvictionOnlyRemoves ==
    ASSUME DriverTyped, NEW s \in Sessions, NEW n, MaybeEvict(s, n),
           NEW t \in Sessions
    PROVE  inbox'[t] \subseteq inbox[t]
<1>1. inbox' = inbox \/ inbox' = [inbox EXCEPT ![s] = inbox[s] \ Evicted(s)]
  BY DEF MaybeEvict
<1> QED
  BY <1>1 DEF DriverTyped

LEMMA AskMonitorKeepsLive ==
    ASSUME SemTyped, NEW s \in Sessions, AskMonitor(s)
    PROVE  \E p \in {"gate", "prompt", "semaphore"} : pc' = [pc EXCEPT ![s] = p]
BY DEF AskMonitor, EnterSemaphore

LEMMA WatchIsKept ==
    ASSUME WatchInv, [Next]_vars, NEW t \in Sessions,
           \A s \in Sessions : ~Deliver(s),
           \A a \in Agents, mode \in ShutdownModes : ~Shutdown(a, mode)
    PROVE  KeepsWatch(t)
<1> USE DEF WatchInv, SemTyped, DriverTyped
<1>1. CASE UNCHANGED <<inbox, pc, wake, crashed>>
  BY <1>1 DEF KeepsWatch
<1>2. ASSUME NEW s \in Sessions, Begin(s) \/ IdleWakes(s) \/ SaveDone(s)
                                 \/ OutageRecorded(s)
      PROVE  KeepsWatch(t)
  <2>1. /\ pc' = [pc EXCEPT ![s] = LoopTop(s)]
        /\ UNCHANGED <<inbox, wake, crashed>>
    BY <1>2 DEF Begin, IdleWakes, SaveDone, OutageRecorded
  <2>2. CASE stop[s]
    <3>1. closing[AgentOf[s]] # "open" /\ LoopTop(s) = "done"
      BY <2>2 DEF StopsMeanClosing, LoopTop
    <3> QED
      BY <2>1, <3>1 DEF KeepsWatch
  <2>3. CASE ~stop[s]
    BY <2>1, <2>3 DEF LoopTop, KeepsWatch, PCs
  <2> QED
    BY <2>2, <2>3
<1>3. ASSUME NEW s \in Sessions, CheckInbox(s)
      PROVE  KeepsWatch(t)
  <2>1. /\ UNCHANGED <<inbox, crashed>>
        /\ t # s => wake'[t] = wake[t]
    BY <1>3 DEF CheckInbox
  <2>2. CASE inbox[s] = {}
    <3>1. pc' = [pc EXCEPT ![s] = "idle"]
      BY <1>3, <2>2 DEF CheckInbox
    <3> QED
      BY <2>1, <2>2, <3>1 DEF KeepsWatch
  <2>3. CASE inbox[s] # {}
    <3>1. PICK p \in {"gate", "prompt", "semaphore"} : pc' = [pc EXCEPT ![s] = p]
      BY <1>3, <2>3, AskMonitorKeepsLive DEF CheckInbox
    <3> QED
      BY <2>1, <3>1 DEF KeepsWatch, PCs, Slots
  <2> QED
    BY <2>2, <2>3
<1>4. ASSUME NEW s \in Sessions, CheckInboxRaises(s)
      PROVE  KeepsWatch(t)
  <2>1. /\ t # s => pc'[t] = pc[t] /\ wake'[t] = wake[t]
        /\ pc'[s] = "done"
        /\ inbox' = inbox
        /\ crashed' = crashed \union {s}
    BY <1>4 DEF CheckInboxRaises
  <2> QED
    BY <2>1 DEF KeepsWatch
<1>5. ASSUME NEW s \in Sessions, LeaveGate(s)
      PROVE  KeepsWatch(t)
  <2>1. PICK p \in {"gate", "prompt", "semaphore"} : pc' = [pc EXCEPT ![s] = p]
    BY <1>5, AskMonitorKeepsLive DEF LeaveGate
  <2> QED
    BY <1>5, <2>1 DEF LeaveGate, KeepsWatch, PCs, Slots
<1>6. ASSUME NEW s \in Sessions, EnterRound(s)
      PROVE  KeepsWatch(t)
  BY <1>6 DEF EnterRound, KeepsWatch, PCs, Slots
<1>7. ASSUME NEW s \in Sessions, CloseItem(s)
      PROVE  KeepsWatch(t)
  BY <1>7 DEF CloseItem, driverVars, KeepsWatch
<1>8. ASSUME NEW s \in Sessions, DispatcherEnds(s)
      PROVE  KeepsWatch(t)
  <2>1. PICK outcome \in Outcomes : EndRound(s, outcome)
    BY <1>8 DEF DispatcherEnds
  <2>2. /\ inbox'[t] \subseteq inbox[t]
        /\ t \in crashed => t \in crashed'
        /\ wake' = wake
    <3>1. inbox'[t] \subseteq inbox[t]
      BY <2>1, EvictionOnlyRemoves DEF EndRound
    <3>2. (t \in crashed => t \in crashed') /\ wake' = wake
      BY <2>1 DEF EndRound
    <3> QED
      BY <3>1, <3>2
  <2>3. PICK next : /\ ReleaseTo(s, next)
                    /\ \/ next \in {"saving", "recording", "yielding"}
                       \/ next = "done" /\ (s \in crashed' \/ stop[s])
    <3>1. CASE outcome = "clean"
      BY <2>1, <3>1 DEF EndRound
    <3>2. CASE outcome = "unavailable"
      BY <2>1, <3>2 DEF EndRound
    <3>3. CASE outcome \notin {"clean", "unavailable"}
      BY <2>1, <3>3 DEF EndRound, LoopTop
    <3> QED
      BY <3>1, <3>2, <3>3
  <2>4. pc'[t] = "granted" \/ pc'[t] = IF t = s THEN next ELSE pc[t]
    BY <2>3, ReleaseKeepsOthers
  <2>5. stop[s] => closing[AgentOf[s]] # "open"
    BY DEF StopsMeanClosing
  <2> QED
    BY <2>2, <2>3, <2>4, <2>5 DEF KeepsWatch, PCs, Slots
<1>9. ASSUME NEW s \in Sessions, Unwind(s)
      PROVE  KeepsWatch(t)
  <2>1. closing[AgentOf[s]] # "open" /\ UNCHANGED <<inbox, wake, crashed>>
    BY <1>9 DEF Unwind, StopsMeanClosing
  <2>2. pc'[t] = "granted" \/ pc'[t] = IF t = s THEN "done" ELSE pc[t]
    BY <1>9, ReleaseKeepsOthers DEF Unwind
  <2> QED
    BY <2>1, <2>2 DEF KeepsWatch, PCs, Slots
<1>10. ASSUME NEW s \in Sessions, RoundReadRaises(s)
       PROVE  KeepsWatch(t)
  <2>1. UNCHANGED <<inbox, wake>> /\ crashed' = crashed \union {s}
    BY <1>10 DEF RoundReadRaises
  <2>2. pc'[t] = "granted" \/ pc'[t] = IF t = s THEN "done" ELSE pc[t]
    BY <1>10, ReleaseKeepsOthers DEF RoundReadRaises
  <2> QED
    BY <2>1, <2>2 DEF KeepsWatch, PCs, Slots
<1> QED
  BY <1>1, <1>2, <1>3, <1>4, <1>5, <1>6, <1>7, <1>8, <1>9, <1>10
     DEF Next, DriverStep, Time, GraceExpires, vars, driverVars

LEMMA PendingIsWatchedStep ==
    ASSUME WatchInv, [Next]_vars
    PROVE  PendingIsWatched'
<1> SUFFICES ASSUME NEW t \in Sessions,
                    closing'[AgentOf[t]] = "open", inbox'[t] # {}
             PROVE  WatchedNext(t)
  BY DEF WatchedNext, PendingIsWatched, Live
<1>1. closing[AgentOf[t]] = "open"
  BY ClosingIsFinal DEF WatchInv
<1>2. ASSUME NEW s \in Sessions, Deliver(s)
      PROVE  WatchedNext(t)
  <2> USE DEF WatchInv, SemTyped, DriverTyped
  <2>1. CASE t = s
    <3>1. Submit(s)
      BY <1>1, <1>2, <2>1 DEF Deliver
    <3>2. wake'[s]
      BY <3>1 DEF Submit
    <3>3. pc'[s] \notin {"absent", "done"}
      BY <3>1 DEF Submit, Live
    <3> QED
      BY <2>1, <3>2, <3>3 DEF WatchedNext
  <2>2. CASE t # s
    <3>1. inbox'[t] = inbox[t] /\ (t \in crashed => t \in crashed')
      BY <1>2, <2>2 DEF Deliver, Submit
    <3>2. pc'[t] = pc[t] /\ wake'[t] = wake[t]
      BY <1>2, <2>2 DEF Deliver, Submit
    <3> QED
      BY <1>1, <3>1, <3>2 DEF PendingIsWatched, Live, WatchedNext
  <2> QED
    BY <2>1, <2>2
<1>3. ASSUME NEW a \in Agents, NEW mode \in ShutdownModes, Shutdown(a, mode)
      PROVE  WatchedNext(t)
  <2>1. UNCHANGED <<inbox, pc, crashed>>
    BY <1>3 DEF Shutdown
  <2>2. wake[t] => wake'[t]
    BY <1>3 DEF Shutdown
  <2> QED
    BY <1>1, <2>1, <2>2 DEF WatchInv, PendingIsWatched, Live, WatchedNext
<1> QED
  BY <1>1, <1>2, <1>3, WatchIsKept, KeepingWatch

\* While its scheduler is open a session with pending items has a driver that
\* is up or about to be woken, unless that driver crashed.
THEOREM PendingItemsAreWatched == Spec => []PendingIsWatched
<1>1. Init => StopsMeanClosing /\ PendingIsWatched
  BY DEF Init, StopsMeanClosing, PendingIsWatched
<1>2. /\ SemTyped /\ DriverTyped /\ StopsMeanClosing /\ PendingIsWatched
      /\ [Next]_vars
      => (StopsMeanClosing /\ PendingIsWatched)'
  BY StopsMeanClosingStep, PendingIsWatchedStep DEF WatchInv
<1>3. SemInv => SemTyped
  BY DEF SemInv
<1> QED
  BY <1>1, <1>2, <1>3, SemInvariant, DriverTypes, PTL DEF Spec

-----------------------------------------------------------------------------
(* Outages.                                                                *)

LEMMA OutageStep ==
    ASSUME MonitorTypeOK, DriverTyped, [Next]_vars, outages' > outages,
           NEW t \in Sessions, inbox'[t] # inbox[t]
    PROVE  stall[t] >= Strikes
<1>1. outages' # outages
  BY DEF MonitorTypeOK
<1>2. PICK s \in Sessions : EndRound(s, "unavailable")
  <2>1. PICK s \in Sessions, outcome \in Outcomes : EndRound(s, outcome)
    BY <1>1 DEF Next, Time, Tick, Deliver, DriverStep, Begin, IdleWakes,
                CheckInbox, LeaveGate, AskMonitor, WaitUntilHealthy, EnterRound,
                SaveDone, ReportSuccess, OutageRecorded, Unwind, LeaveUnreported,
                CheckInboxRaises, RoundReadRaises, CloseItem, DispatcherEnds, Shutdown,
                GraceExpires, vars, monitorVars
  <2>2. outcome = "unavailable"
    BY <1>1, <2>1 DEF EndRound, LeaveUnreported, monitorVars
  <2> QED
    BY <2>1, <2>2
<1>3. StallAfter(s, "unavailable") \in {0, stall[s]}
  BY DEF StallAfter
<1>4. MaybeEvict(s, StallAfter(s, "unavailable"))
  BY <1>2 DEF EndRound
<1>5. inbox' # inbox
  OBVIOUS
<1>6. StallAfter(s, "unavailable") >= Strikes /\ Strikes # 0
  BY <1>3, <1>4, <1>5 DEF MaybeEvict, DriverTyped
<1>7. t = s
  BY <1>4 DEF MaybeEvict, DriverTyped
<1> QED
  BY <1>3, <1>6, <1>7 DEF DriverTyped

\* A round the provider failed takes no item out of an inbox unless its
\* session had used up its strikes before.
THEOREM OutagesNeverEvict == Spec => OutageNeverEvicts
<1>1. MonitorTypeOK /\ DriverTyped /\ [Next]_vars
      => [outages' > outages =>
            \A s \in Sessions : inbox'[s] # inbox[s] => stall[s] >= Strikes]_vars
  BY OutageStep
<1>2. MonitorInv => MonitorTypeOK
  BY DEF MonitorInv
<1> QED
  BY <1>1, <1>2, SchedulerUsesMonitor, MonitorCorrect, DriverTypes, PTL
     DEF Spec, OutageNeverEvicts

-----------------------------------------------------------------------------
(* The drivers and the calls they make of the monitor.                     *)

\* Where a driver may be that the monitor let through.
LetThrough == {"semaphore", "granted", "prompt", "saving"}

\* What the monitor holds of s is what the driver of s does.
Matches(s) ==
    /\ call[s] \in Permitted <=> pc[s] \in LetThrough
    /\ call[s] \in Waiting \union {"woken"} <=> pc[s] = "gate"

DriversMatchCalls == \A s \in Sessions : Matches(s)

\* What a step of another driver may do to t: release it from the gate, or
\* hand it a permit.
Bystander(t) ==
    /\ \/ call'[t] = call[t]
       \/ call[t] \in Waiting /\ call'[t] = "woken"
    /\ \/ pc'[t] = pc[t]
       \/ pc[t] = "semaphore" /\ pc'[t] = "granted"

LEMMA BystandersMatch ==
    ASSUME NEW t \in Sessions, Matches(t), Bystander(t)
    PROVE  Matches(t)'
BY DEF Matches, Bystander, LetThrough, Permitted, Waiting

\* The driver a step is of, and the rest.
LEMMA MatchedByParts ==
    ASSUME DriversMatchCalls, NEW s \in Sessions, Matches(s)',
           \A t \in Sessions \ {s} : Bystander(t)
    PROVE  DriversMatchCalls'
BY BystandersMatch DEF DriversMatchCalls

LEMMA LeavingReleases ==
    ASSUME MonitorTypeOK, NEW s \in Sessions, LeaveAndWake(s) \/ Leave(s)
    PROVE  /\ call'[s] = "out"
           /\ \A t \in Sessions \ {s} :
                 \/ call'[t] = call[t]
                 \/ call[t] \in Waiting /\ call'[t] = "woken"
BY DEF MonitorTypeOK, LeaveAndWake, Leave

LEMMA ReleasingHandsOver ==
    ASSUME SemTyped, Queues, NEW s \in Sessions, pc[s] \in Slots,
           NEW next, ReleaseTo(s, next)
    PROVE  /\ pc'[s] = next
           /\ \A t \in Sessions \ {s} :
                 \/ pc'[t] = pc[t]
                 \/ pc[t] = "semaphore" /\ pc'[t] = "granted"
<1> DEFINE q == queue[AgentOf[s]]
<1>1. CASE q = <<>>
  BY <1>1 DEF ReleaseTo, SemTyped
<1>2. CASE q # <<>>
  <2>1. q \in Seq(Sessions) /\ Distinct(q)
    BY DEF SemTyped, Queues, QueuesHoldWaiters
  <2>2. 1 \in 1 .. Len(q) /\ Head(q) = q[1]
    <3> HIDE DEF q
    <3> QED
      BY <1>2, <2>1, TailRemoves
  <2>3. Head(q) \in Sessions /\ pc[Head(q)] = "semaphore"
    BY <2>1, <2>2 DEF Queues, QueuesHoldWaiters
  <2>4. pc' = [pc EXCEPT ![s] = next, ![Head(q)] = "granted"]
    BY <1>2 DEF ReleaseTo
  <2> HIDE DEF q
  <2> QED
    BY <2>3, <2>4 DEF SemTyped, Slots
<1> QED
  BY <1>1, <1>2

\* A report, or a round that ends without one: s is out, as its driver is.
LEMMA LeavingMatches ==
    ASSUME MonitorTypeOK, SemTyped, Queues, DriversMatchCalls,
           NEW s \in Sessions, LeaveAndWake(s) \/ Leave(s),
           pc[s] \in Slots, NEW next, next \notin LetThrough \union {"gate"},
           ReleaseTo(s, next)
    PROVE  DriversMatchCalls'
<1>1. Matches(s)'
  BY LeavingReleases, ReleasingHandsOver DEF Matches, LetThrough, Permitted, Waiting
<1>2. \A t \in Sessions \ {s} : Bystander(t)
  BY LeavingReleases, ReleasingHandsOver DEF Bystander
<1> QED
  BY <1>1, <1>2, MatchedByParts

\* A step of the driver of s that the monitor does not see.
LEMMA UnseenMatches ==
    ASSUME SemTyped, DriversMatchCalls, NEW s \in Sessions,
           UNCHANGED call, NEW p, pc' = [pc EXCEPT ![s] = p],
           pc[s] \in LetThrough <=> p \in LetThrough,
           pc[s] = "gate" <=> p = "gate"
    PROVE  DriversMatchCalls'
BY DEF DriversMatchCalls, Matches, SemTyped

\* Asking: who is let through runs or queues, who is not stays at the gate.
LEMMA AskingMatches ==
    ASSUME MonitorTypeOK, SemTyped, DriversMatchCalls,
           NEW s \in Sessions, AskMonitor(s)
    PROVE  DriversMatchCalls'
<1>1. /\ call' = [call EXCEPT ![s] = Verdict]
      /\ Verdict \in {"round", "onReport", "onCooldown", "probe"}
  BY DEF AskMonitor, WaitUntilHealthy, Verdict
<1>2. call'[s] = Verdict /\ \A t \in Sessions \ {s} : call'[t] = call[t]
  BY <1>1 DEF MonitorTypeOK
<1>3. PICK p \in {"gate", "prompt", "semaphore"} :
          /\ pc' = [pc EXCEPT ![s] = p]
          /\ p = "gate" <=> call'[s] \notin Permitted
  BY DEF AskMonitor, EnterSemaphore
<1>4. pc'[s] = p /\ \A t \in Sessions \ {s} : pc'[t] = pc[t]
  BY <1>3 DEF SemTyped
<1>5. Matches(s)'
  BY <1>1, <1>2, <1>3, <1>4 DEF Matches, LetThrough, Permitted, Waiting
<1>6. \A t \in Sessions \ {s} : Bystander(t)
  BY <1>2, <1>4 DEF Bystander
<1> QED
  BY <1>5, <1>6, MatchedByParts

LEMMA DriversMatchStep ==
    ASSUME MonitorTypeOK, SemTyped, Queues, DriversMatchCalls, [Next]_vars
    PROVE  DriversMatchCalls'
<1> USE DEF LetThrough, Slots
<1>1. CASE UNCHANGED <<call, pc>>
  BY <1>1 DEF DriversMatchCalls, Matches
<1>2. ASSUME NEW s \in Sessions,
             Deliver(s) \/ Begin(s) \/ IdleWakes(s) \/ EnterRound(s)
             \/ OutageRecorded(s) \/ CheckInboxRaises(s)
      PROVE  DriversMatchCalls'
  <2>1. CASE Deliver(s)
    <3>1. UNCHANGED <<call, pc>> \/ (UNCHANGED call /\ ~Live(s)
                                     /\ pc' = [pc EXCEPT ![s] = "started"])
      BY <2>1 DEF Deliver, Submit, monitorVars
    <3> QED
      BY <1>1, <3>1, UnseenMatches DEF Live
  <2>2. CASE Begin(s) \/ IdleWakes(s) \/ OutageRecorded(s)
    <3>1. /\ UNCHANGED call
          /\ pc[s] \in {"started", "idle", "recording"}
          /\ \E p \in {"done", "yielding"} : pc' = [pc EXCEPT ![s] = p]
      BY <2>2, LoopTopOff DEF Begin, IdleWakes, OutageRecorded, monitorVars
    <3> QED
      BY <3>1, UnseenMatches
  <2>3. CASE EnterRound(s)
    BY <2>3, UnseenMatches DEF EnterRound, monitorVars
  <2>4. CASE CheckInboxRaises(s)
    BY <2>4, UnseenMatches DEF CheckInboxRaises, monitorVars
  <2> QED
    BY <1>2, <2>1, <2>2, <2>3, <2>4
<1>3. ASSUME NEW s \in Sessions, CheckInbox(s) \/ LeaveGate(s)
      PROVE  DriversMatchCalls'
  <2>1. CASE CheckInbox(s) /\ inbox[s] = {}
    BY <2>1, UnseenMatches DEF CheckInbox, monitorVars
  <2> QED
    BY <1>3, <2>1, AskingMatches DEF CheckInbox, LeaveGate
<1>4. ASSUME NEW s \in Sessions, SaveDone(s)
      PROVE  DriversMatchCalls'
  <2>1. LeaveAndWake(s) /\ pc' = [pc EXCEPT ![s] = LoopTop(s)]
    BY <1>4 DEF SaveDone, ReportSuccess
  <2>2. /\ call'[s] = "out" /\ pc'[s] \in {"done", "yielding"}
        /\ \A t \in Sessions \ {s} : pc'[t] = pc[t]
    BY <2>1, LeavingReleases, LoopTopOff DEF SemTyped
  <2>3. Matches(s)'
    BY <2>2 DEF Matches, Permitted, Waiting
  <2>4. \A t \in Sessions \ {s} : Bystander(t)
    BY <2>1, <2>2, LeavingReleases DEF Bystander
  <2> QED
    BY <2>3, <2>4, MatchedByParts
<1>5. ASSUME NEW s \in Sessions, DispatcherEnds(s)
      PROVE  DriversMatchCalls'
  <2>1. PICK outcome \in Outcomes : EndRound(s, outcome)
    BY <1>5 DEF DispatcherEnds
  <2>2. CASE outcome = "clean"
    <3>1. /\ UNCHANGED call /\ pc[s] \in Slots /\ ReleaseTo(s, "saving")
          /\ pc[s] = "prompt"
      BY <2>1, <2>2 DEF EndRound, monitorVars
    <3>2. Matches(s)'
      BY <3>1, ReleasingHandsOver DEF DriversMatchCalls, Matches
    <3>3. \A t \in Sessions \ {s} : Bystander(t)
      BY <3>1, ReleasingHandsOver DEF Bystander
    <3> QED
      BY <3>2, <3>3, MatchedByParts
  <2>3. CASE outcome = "unavailable"
    <3>1. PICK next \in {"done", "recording"} : ReleaseTo(s, next)
      BY <2>1, <2>3 DEF EndRound
    <3>2. (LeaveAndWake(s) \/ Leave(s)) /\ pc[s] \in Slots
      BY <2>1, <2>3 DEF EndRound, ReportFailure
    <3> QED
      BY <3>1, <3>2, LeavingMatches
  <2>4. CASE outcome \notin {"clean", "unavailable"}
    <3>1. PICK next \in {"done", "yielding"} : ReleaseTo(s, next)
      BY <2>1, <2>4, LoopTopOff DEF EndRound
    <3>2. Leave(s) /\ pc[s] \in Slots
      BY <2>1, <2>4 DEF EndRound, LeaveUnreported
    <3> QED
      BY <3>1, <3>2, LeavingMatches
  <2> QED
    BY <2>2, <2>3, <2>4
<1>6. ASSUME NEW s \in Sessions, RoundReadRaises(s)
      PROVE  DriversMatchCalls'
  BY <1>6, LeavingMatches DEF RoundReadRaises, LeaveUnreported
<1>7. ASSUME NEW s \in Sessions, Unwind(s)
      PROVE  DriversMatchCalls'
  <2>1. CASE pc[s] \in Slots
    <3>1. call[s] # "out"
      BY <2>1 DEF DriversMatchCalls, Matches, Permitted
    <3>2. Leave(s) /\ ReleaseTo(s, "done")
      BY <1>7, <2>1, <3>1 DEF Unwind, LeaveUnreported
    <3> QED
      BY <2>1, <3>2, LeavingMatches
  <2>2. CASE pc[s] \notin Slots
    <3>1. pc'[s] = "done" /\ \A t \in Sessions \ {s} : pc'[t] = pc[t]
      BY <1>7, <2>2 DEF Unwind, SemTyped
    <3>2. call'[s] = "out" /\ \A t \in Sessions \ {s} : call'[t] = call[t]
      BY <1>7 DEF Unwind, LeaveUnreported, Leave, MonitorTypeOK, monitorVars
    <3>3. Matches(s)'
      BY <3>1, <3>2 DEF Matches, Permitted, Waiting
    <3>4. \A t \in Sessions \ {s} : Bystander(t)
      BY <3>1, <3>2 DEF Bystander
    <3> QED
      BY <3>3, <3>4, MatchedByParts
  <2> QED
    BY <2>1, <2>2
<1>8. ASSUME \/ Time \/ UNCHANGED vars
             \/ \E s \in Sessions : CloseItem(s)
             \/ \E a \in Agents : \/ GraceExpires(a)
                                  \/ \E mode \in ShutdownModes : Shutdown(a, mode)
      PROVE  UNCHANGED <<call, pc>>
  BY <1>8 DEF Time, Tick, vars, CloseItem, GraceExpires, Shutdown, driverVars,
              monitorVars
<1> QED
  BY <1>1, <1>2, <1>3, <1>4, <1>5, <1>6, <1>7, <1>8 DEF Next, DriverStep

\* A driver runs, queues or saves exactly while the monitor counts it as let
\* through, and is held at the gate exactly while the monitor has it wait: no
\* round goes ahead of a degraded provider but the probe, and whoever a
\* cancellation, a crash or a failed round takes out leaves the protocol too.
THEOREM DriversMatchTheirCalls == Spec => []DriversMatchCalls
<1>1. Init => DriversMatchCalls
  BY DEF Init, MonitorInit, DriversMatchCalls, Matches, LetThrough, Permitted,
         Waiting
<1>2. MonitorInv /\ SemInv /\ DriversMatchCalls /\ [Next]_vars
        => DriversMatchCalls'
  BY DriversMatchStep DEF MonitorInv, SemInv
<1> QED
  BY <1>1, <1>2, SchedulerUsesMonitor, MonitorCorrect, SemInvariant, PTL DEF Spec

-----------------------------------------------------------------------------
(* Who waits for a report, waits for a probe that runs.                    *)

\* Probes report: none of them fails otherwise than by an outage, reading an
\* inbox never raises, and nothing is cancelled.
ProbesReport ==
    /\ ProbeOutcomes \subseteq {"clean", "unavailable"}
    /\ Crashing = {}
    /\ ShutdownModes \subseteq {"patient"}

\* A driver on its way to a round, in it, or saving after it.
ProbeRuns == \E s \in Sessions : call[s] = "probe" /\ pc[s] \in LetThrough

WaitersAwaitProbe ==
    \A s \in Sessions :
        call[s] = "onReport" => ProbeRuns \/ Overflows(probeFailures)

ProbeInv ==
    /\ probeInFlight => \E s \in Sessions : call[s] = "probe"
    /\ cancelled = {}
    /\ \A a \in Agents : closing[a] \in {"open", "patient"}

LEMMA NothingIsCancelled ==
    ASSUME ProbesReport, DriverTyped, ProbeInv, [Next]_vars
    PROVE  cancelled' = {} /\ \A a \in Agents : closing'[a] \in {"open", "patient"}
<1> USE DEF ProbeInv, DriverTyped
<1>1. CASE UNCHANGED <<cancelled, closing>>
  BY <1>1
<1>2. ASSUME NEW a \in Agents, NEW mode \in ShutdownModes, Shutdown(a, mode)
      PROVE  cancelled' = {} /\ \A b \in Agents : closing'[b] \in {"open", "patient"}
  <2>1. mode = "patient"
    BY DEF ProbesReport
  <2> QED
    BY <1>2, <2>1 DEF Shutdown
<1>3. ~\E a \in Agents : GraceExpires(a)
  BY DEF GraceExpires
<1>4. ~\E s \in Sessions : Unwind(s)
  BY DEF Unwind
<1> QED
  BY <1>1, <1>2, <1>3, <1>4
     DEF Next, Time, Deliver, DriverStep, Begin, IdleWakes, CheckInbox,
         LeaveGate, EnterRound, SaveDone, OutageRecorded, CheckInboxRaises,
         RoundReadRaises, CloseItem, DispatcherEnds, EndRound, vars

\* A probe leaves the protocol by a report only, which frees the slot.
LEMMA ProbeInvStep ==
    ASSUME ProbesReport, MonitorTypeOK, DriverTyped, ProbeInv, [Next]_vars
    PROVE  ProbeInv'
<1>0. probeInFlight => \E t \in Sessions : call[t] = "probe"
  BY DEF ProbeInv
<1>1. CASE UNCHANGED <<probeInFlight, call>>
  BY <1>0, <1>1, NothingIsCancelled DEF ProbeInv
<1>2. ASSUME NEW s \in Sessions, WaitUntilHealthy(s)
      PROVE  ProbeInv'
  <2>1. call[s] # "probe" /\ call' = [call EXCEPT ![s] = Verdict]
    BY <1>2 DEF WaitUntilHealthy
  <2>2. call'[s] = Verdict /\ \A t \in Sessions : call[t] = "probe" => call'[t] = "probe"
    BY <2>1 DEF MonitorTypeOK
  <2>3. probeInFlight' => probeInFlight \/ Verdict = "probe"
    BY <1>2 DEF WaitUntilHealthy
  <2> QED
    BY <1>0, <2>2, <2>3, NothingIsCancelled DEF ProbeInv
<1>3. ASSUME NEW s \in Sessions, ReportSuccess(s) \/ ReportFailure(s)
      PROVE  ProbeInv'
  <2>1. ~probeInFlight'
    BY <1>3 DEF ReportSuccess, ReportFailure
  <2> QED
    BY <2>1, NothingIsCancelled DEF ProbeInv
<1>4. ASSUME NEW s \in Sessions, LeaveUnreported(s), call[s] # "probe"
      PROVE  ProbeInv'
  <2>1. /\ probeInFlight' = probeInFlight
        /\ \A t \in Sessions : call[t] = "probe" => call'[t] = "probe"
    BY <1>4 DEF LeaveUnreported, Leave, MonitorTypeOK
  <2> QED
    BY <1>0, <2>1, NothingIsCancelled DEF ProbeInv
<1>5. ASSUME NEW s \in Sessions, DispatcherEnds(s)
      PROVE  ProbeInv'
  <2>1. PICK outcome \in Outcomes : EndRound(s, outcome)
    BY <1>5 DEF DispatcherEnds
  <2>2. call[s] = "probe" => outcome \in {"clean", "unavailable"}
    BY <2>1 DEF EndRound, ProbesReport
  <2>3. \/ UNCHANGED monitorVars
        \/ ReportFailure(s)
        \/ LeaveUnreported(s) /\ call[s] # "probe"
    BY <2>1, <2>2 DEF EndRound
  <2> QED
    BY <1>1, <1>3, <1>4, <2>3 DEF monitorVars
<1>6. ASSUME NEW s \in Sessions, CheckInbox(s) \/ LeaveGate(s) \/ SaveDone(s)
      PROVE  ProbeInv'
  BY <1>1, <1>2, <1>3, <1>6
     DEF CheckInbox, LeaveGate, SaveDone, AskMonitor, monitorVars
<1>7. ~\E s \in Sessions : Unwind(s) \/ RoundReadRaises(s)
  BY DEF Unwind, RoundReadRaises, ProbeInv, ProbesReport
<1>8. ASSUME \/ Time \/ UNCHANGED vars
             \/ \E s \in Sessions :
                   \/ Deliver(s) \/ Begin(s) \/ IdleWakes(s) \/ EnterRound(s)
                   \/ OutageRecorded(s) \/ CheckInboxRaises(s) \/ CloseItem(s)
             \/ \E a \in Agents : \/ GraceExpires(a)
                                  \/ \E mode \in ShutdownModes : Shutdown(a, mode)
      PROVE  UNCHANGED <<probeInFlight, call>>
  BY <1>8 DEF Time, Tick, vars, monitorVars, Deliver, Begin, IdleWakes,
              EnterRound, OutageRecorded, CheckInboxRaises, CloseItem,
              GraceExpires, Shutdown
<1> QED
  BY <1>1, <1>5, <1>6, <1>7, <1>8 DEF Next, DriverStep

\* Where probes report, no driver waits for a report that nobody will make:
\* the driver that probes is on its way to its round, runs it, or saves after
\* it.  What is assumed is needed: the run in which probes may end without a
\* report shows drivers that wait for ever.
THEOREM WaitersAwaitAProbe ==
    ASSUME ProbesReport
    PROVE  Spec => []WaitersAwaitProbe
<1>1. Init => ProbeInv
  BY DEF Init, MonitorInit, ProbeInv
<1>2. MonitorInv /\ DriverTyped /\ ProbeInv /\ [Next]_vars => ProbeInv'
  BY ProbeInvStep DEF MonitorInv
<1>3. MonitorInv /\ DriversMatchCalls /\ ProbeInv => WaitersAwaitProbe
  BY DEF MonitorInv, WaitersAwaitTheSlot, DriversMatchCalls, Matches, Permitted,
         ProbeInv, ProbeRuns, WaitersAwaitProbe
<1> QED
  BY <1>1, <1>2, <1>3, SchedulerUsesMonitor, MonitorCorrect, DriverTypes,
     DriversMatchTheirCalls, PTL DEF Spec
-----------------------------------------------------------------------------
(* What a shutdown does to the drivers there are.                          *)

\* A closed scheduler has no driver without the stop request, and past its
\* deadline none that is not being cancelled.
StopReachesAll ==
    \A s \in Sessions : Live(s) =>
        /\ closing[AgentOf[s]] # "open" => stop[s]
        /\ closing[AgentOf[s]] = "immediate" => s \in cancelled

\* A closed scheduler gains no driver, and a driver that was told to stop does
\* not begin another turn of its loop.
NoNewTurns ==
    \A s \in Sessions :
        /\ closing[AgentOf[s]] # "open" /\ Live(s)' => Live(s)
        /\ stop[s] /\ Live(s) /\ pc'[s] = "yielding" => pc[s] = "yielding"
DriversOnlyLeave == [][NoNewTurns]_vars

\* What becomes of t in a step of somebody's driver.
MovesOn(t) ==
    /\ pc'[t] \notin {"absent", "done"} => Live(t)
    /\ stop[t] /\ pc'[t] = "yielding" => pc[t] = "yielding"

LEMMA OwnStepMovesOn ==
    ASSUME SemTyped, NEW s \in Sessions, Live(s), NEW p, pc' = [pc EXCEPT ![s] = p],
           stop[s] => p # "yielding", NEW t \in Sessions
    PROVE  MovesOn(t)
BY DEF SemTyped, MovesOn, Live

LEMMA ReleaseMovesOn ==
    ASSUME SemTyped, Queues, NEW s \in Sessions, pc[s] \in Slots, NEW next,
           ReleaseTo(s, next), stop[s] => next # "yielding", NEW t \in Sessions
    PROVE  MovesOn(t)
BY ReleasingHandsOver DEF MovesOn, Live, Slots

LEMMA DriversMoveOn ==
    ASSUME SemTyped, Queues, [Next]_vars, \A s \in Sessions : ~Deliver(s),
           NEW t \in Sessions
    PROVE  MovesOn(t)
<1>1. CASE UNCHANGED pc
  BY <1>1 DEF MovesOn, Live
<1>2. ASSUME NEW s \in Sessions,
             Begin(s) \/ IdleWakes(s) \/ SaveDone(s) \/ OutageRecorded(s)
      PROVE  MovesOn(t)
  <2>1. /\ pc' = [pc EXCEPT ![s] = LoopTop(s)] /\ Live(s)
        /\ stop[s] => LoopTop(s) # "yielding"
    BY <1>2 DEF Begin, IdleWakes, SaveDone, OutageRecorded, Live, LoopTop
  <2> QED
    BY <2>1, OwnStepMovesOn
<1>3. ASSUME NEW s \in Sessions,
             CheckInbox(s) \/ LeaveGate(s) \/ EnterRound(s) \/ CheckInboxRaises(s)
      PROVE  MovesOn(t)
  <2>1. Live(s) /\ \E p \in PCs \ {"yielding"} : pc' = [pc EXCEPT ![s] = p]
    BY <1>3, AskMonitorKeepsLive
       DEF CheckInbox, LeaveGate, EnterRound, CheckInboxRaises, Live, PCs, Slots
  <2> QED
    BY <2>1, OwnStepMovesOn
<1>4. ASSUME NEW s \in Sessions, DispatcherEnds(s)
      PROVE  MovesOn(t)
  <2>1. PICK outcome \in Outcomes : EndRound(s, outcome)
    BY <1>4 DEF DispatcherEnds
  <2>2. PICK next \in {"saving", "recording", "done", LoopTop(s)} : ReleaseTo(s, next)
    BY <2>1 DEF EndRound
  <2>3. pc[s] \in Slots /\ (stop[s] => next # "yielding")
    BY <2>1, <2>2 DEF EndRound, Slots, LoopTop
  <2> QED
    BY <2>2, <2>3, ReleaseMovesOn
<1>5. ASSUME NEW s \in Sessions, RoundReadRaises(s)
      PROVE  MovesOn(t)
  BY <1>5, ReleaseMovesOn DEF RoundReadRaises, Slots
<1>6. ASSUME NEW s \in Sessions, Unwind(s)
      PROVE  MovesOn(t)
  <2>1. CASE pc[s] \in Slots
    BY <1>6, <2>1, ReleaseMovesOn DEF Unwind
  <2>2. CASE pc[s] \notin Slots
    BY <1>6, <2>2 DEF Unwind, SemTyped, MovesOn, Live
  <2> QED
    BY <2>1, <2>2
<1>7. ASSUME \/ Time \/ UNCHANGED vars
             \/ \E s \in Sessions : CloseItem(s)
             \/ \E a \in Agents : \/ GraceExpires(a)
                                  \/ \E mode \in ShutdownModes : Shutdown(a, mode)
      PROVE  UNCHANGED pc
  BY <1>7 DEF Time, vars, CloseItem, GraceExpires, Shutdown, driverVars
<1> QED
  BY <1>1, <1>2, <1>3, <1>4, <1>5, <1>6, <1>7 DEF Next, DriverStep

\* A submit starts a driver of an open scheduler only.
LEMMA DeliverStarts ==
    ASSUME SemTyped, DriverTyped, NEW s \in Sessions, Deliver(s), NEW t \in Sessions
    PROVE  /\ UNCHANGED <<closing, cancelled>>
           /\ \/ pc'[t] = pc[t] /\ stop'[t] = stop[t]
              \/ closing[AgentOf[t]] = "open" /\ ~Live(t) /\ pc'[t] = "started"
BY DEF Deliver, Submit, SemTyped, DriverTyped

LEMMA StopReachesStep ==
    ASSUME SemTyped, Queues, DriverTyped, StopReachesAll, [Next]_vars
    PROVE  StopReachesAll'
<1> SUFFICES ASSUME NEW t \in Sessions, Live(t)'
             PROVE  /\ closing'[AgentOf[t]] # "open" => stop'[t]
                    /\ closing'[AgentOf[t]] = "immediate" => t \in cancelled'
  BY DEF StopReachesAll
<1>1. CASE \E s \in Sessions : Deliver(s)
  BY <1>1, DeliverStarts DEF StopReachesAll, Live
<1>2. CASE ~\E s \in Sessions : Deliver(s)
  <2>1. Live(t)
    BY <1>2, DriversMoveOn DEF MovesOn, Live
  <2>2. CASE UNCHANGED <<closing, stop, cancelled>>
    BY <2>1, <2>2 DEF StopReachesAll
  <2>3. ASSUME NEW a \in Agents, NEW mode \in ShutdownModes, Shutdown(a, mode)
        PROVE  /\ closing'[AgentOf[t]] # "open" => stop'[t]
               /\ closing'[AgentOf[t]] = "immediate" => t \in cancelled'
    BY <2>1, <2>3 DEF Shutdown, Drivers, StopReachesAll, DriverTyped
  <2>4. ASSUME NEW a \in Agents, GraceExpires(a)
        PROVE  /\ closing'[AgentOf[t]] # "open" => stop'[t]
               /\ closing'[AgentOf[t]] = "immediate" => t \in cancelled'
    BY <2>1, <2>4 DEF GraceExpires, Drivers, StopReachesAll, DriverTyped, driverVars
  <2>5. ASSUME NEW s \in Sessions, Unwind(s)
        PROVE  UNCHANGED <<closing, stop>> /\ t # s /\ cancelled' = cancelled \ {s}
    <3>1. pc'[s] = "done"
      BY <2>5, ReleasingHandsOver DEF Unwind, SemTyped
    <3> QED
      BY <2>5, <3>1 DEF Unwind, Live
  <2>6. ASSUME ~\E s \in Sessions : Unwind(s),
               ~\E a \in Agents : \/ GraceExpires(a)
                                  \/ \E mode \in ShutdownModes : Shutdown(a, mode)
        PROVE  UNCHANGED <<closing, stop, cancelled>>
    BY <1>2, <2>6 DEF Next, vars, driverVars, Time, DriverStep, Begin, IdleWakes,
       CheckInbox, LeaveGate, EnterRound, SaveDone, OutageRecorded,
       CheckInboxRaises, RoundReadRaises, CloseItem, DispatcherEnds, EndRound
  <2> QED
    BY <2>1, <2>2, <2>3, <2>4, <2>5, <2>6 DEF StopReachesAll
<1> QED
  BY <1>1, <1>2

\* Whenever a scheduler is closed every driver of it was told to stop, and past
\* the deadline every one is being cancelled, the one that was started a moment
\* before as well (shutdown, request_stop).
THEOREM StopsReachEveryDriver == Spec => []StopReachesAll
<1>1. Init => StopReachesAll
  BY DEF Init, StopReachesAll, Live
<1>2. SemInv /\ DriverTyped /\ StopReachesAll /\ [Next]_vars => StopReachesAll'
  BY StopReachesStep DEF SemInv
<1> QED
  BY <1>1, <1>2, SemInvariant, DriverTypes, PTL DEF Spec

\* And the drivers of a closed scheduler only become fewer: nothing starts one,
\* and who was told to stop ends at the head of its loop.  A stop that is not
\* seen (the run SchedulerPatientStop) meets a driver that was between the head
\* of the loop and its inbox already.
THEOREM StoppedDriversLeave == Spec => DriversOnlyLeave
<1>1. SemInv /\ DriverTyped /\ [Next]_vars => [NoNewTurns]_vars
  <2> SUFFICES ASSUME SemInv, DriverTyped, Next, NEW s \in Sessions
               PROVE  /\ closing[AgentOf[s]] # "open" /\ Live(s)' => Live(s)
                      /\ stop[s] /\ Live(s) /\ pc'[s] = "yielding" => pc[s] = "yielding"
    BY DEF NoNewTurns
  <2>1. CASE \E t \in Sessions : Deliver(t)
    BY <2>1, DeliverStarts DEF SemInv, Live
  <2>2. CASE ~\E t \in Sessions : Deliver(t)
    BY <2>2, DriversMoveOn DEF SemInv, MovesOn, Live
  <2> QED
    BY <2>1, <2>2
<1> QED
  BY <1>1, SemInvariant, DriverTypes, PTL DEF Spec, DriversOnlyLeave

-----------------------------------------------------------------------------
(* Rounds are for work, and every one of them counts.                      *)

BeforeRound == {"gate", "semaphore", "granted"}

\* A driver that waits for a round has items to run it for, and a round that
\* runs began with some.
RoundsHaveWork ==
    \A s \in Sessions : /\ pc[s] \in BeforeRound => inbox[s] # {}
                        /\ pc[s] = "prompt" => before[s] # {}

\* What came in since a round began is younger than what it began with.
OldestFirst ==
    \A s \in Sessions :
        /\ inbox[s] \subseteq 1 .. posted[s]
        /\ before[s] \subseteq 1 .. posted[s]
        /\ pc[s] = "prompt" =>
              \A i \in inbox[s] \ before[s] : \A j \in before[s] : j < i

\* Items that the round of s began with left in it.
Leaves(s) == before[s] \ inbox'[s] # {}

\* A round that ends with the driver alive takes an item of its own out of the
\* inbox, or a strike is counted, or the provider is the cause; and strikes are
\* forgiven only where an item left, or the evictor met a degraded provider.
\* Whatever the round's end takes out, the round had before it.
RoundCounts(s) ==
    /\ pc[s] = "prompt" /\ pc'[s] \notin {"prompt", "done"} =>
          Leaves(s) \/ stall'[s] > stall[s] \/ state = "degraded" \/ outages' > outages
    /\ Live(s) /\ stall'[s] < stall[s] => Leaves(s) \/ state = "degraded"
    /\ pc[s] = "prompt" /\ pc'[s] # "prompt" => inbox[s] \ inbox'[s] \subseteq before[s]
RoundsCount == [][\A s \in Sessions : RoundCounts(s)]_vars

LEMMA MinIsLeast ==
    ASSUME NEW S \in SUBSET Nat, S # {}
    PROVE  Min(S) \in S /\ \A y \in S : Min(S) <= y
<1>1. PICK x \in S : \A y \in S : ~(<<y, x>> \in OpToRel(<, Nat))
  BY WFMin, NatLessThanWellFounded
<1>2. \A y \in S : ~(y < x)
  BY <1>1, Zenon DEF OpToRel
<1>3. \A y \in S : x =< y
  BY <1>2
<1> QED
  BY <1>3 DEF Min

\* What a step that posts nothing may do to t.
KeepsRound(t) ==
    /\ inbox'[t] \subseteq inbox[t] /\ posted'[t] = posted[t]
    /\ before'[t] \in {before[t], {}, inbox[t]}
    /\ pc'[t] \in BeforeRound =>
          inbox'[t] = inbox[t] /\ (pc[t] \in BeforeRound \/ inbox[t] # {})
    /\ pc'[t] = "prompt" =>
          \/ pc[t] = "prompt" /\ before'[t] = before[t]
          \/ /\ before'[t] = inbox[t] /\ inbox'[t] = inbox[t]
             /\ pc[t] \in BeforeRound \/ inbox[t] # {}

\* The driver of t is not in this step, but may be handed a permit.
LEMMA OthersKeepRound ==
    ASSUME NEW t \in Sessions, inbox'[t] = inbox[t], posted'[t] = posted[t],
           before'[t] = before[t],
           pc'[t] = pc[t] \/ (pc[t] = "semaphore" /\ pc'[t] = "granted")
    PROVE  KeepsRound(t)
BY DEF KeepsRound, BeforeRound

\* A round of s that ends.
LEMMA EndsKeepRound ==
    ASSUME SemTyped, Queues, DriverTyped, NEW s \in Sessions, pc[s] \in Slots,
           NEW next \in {"saving", "recording", "yielding", "done"},
           ReleaseTo(s, next), before' = [before EXCEPT ![s] = {}], posted' = posted,
           \A t \in Sessions : inbox'[t] \subseteq inbox[t],
           \A t \in Sessions \ {s} : inbox'[t] = inbox[t],
           NEW t \in Sessions
    PROVE  KeepsRound(t)
<1>1. CASE t = s
  BY <1>1, ReleasingHandsOver DEF KeepsRound, BeforeRound, DriverTyped
<1>2. CASE t # s
  <2>1. inbox'[t] = inbox[t] /\ posted'[t] = posted[t] /\ before'[t] = before[t]
    BY <1>2 DEF DriverTyped
  <2> QED
    BY <1>2, <2>1, ReleasingHandsOver, OthersKeepRound
<1> QED
  BY <1>1, <1>2

\* A driver asks the monitor with items in its inbox.
LEMMA AskingKeepsRound ==
    ASSUME SemTyped, DriverTyped, NEW s \in Sessions, AskMonitor(s),
           UNCHANGED <<inbox, posted>>, pc[s] \in BeforeRound \/ inbox[s] # {},
           NEW t \in Sessions
    PROVE  KeepsRound(t)
<1>1. PICK p \in {"gate", "prompt", "semaphore"} :
         /\ pc' = [pc EXCEPT ![s] = p]
         /\ \/ before' = before /\ p # "prompt"
            \/ before' = [before EXCEPT ![s] = inbox[s]]
  BY DEF AskMonitor, EnterSemaphore
<1>2. CASE t = s
  BY <1>1, <1>2 DEF KeepsRound, BeforeRound, SemTyped, DriverTyped
<1>3. CASE t # s
  <2>1. /\ inbox'[t] = inbox[t] /\ posted'[t] = posted[t]
        /\ before'[t] = before[t] /\ pc'[t] = pc[t]
    BY <1>1, <1>3 DEF SemTyped, DriverTyped
  <2> QED
    BY <2>1, OthersKeepRound
<1> QED
  BY <1>2, <1>3

\* The outcome of a round, and where it leaves the driver.
LEMMA EndReleases ==
    ASSUME NEW s \in Sessions, NEW outcome, EndRound(s, outcome)
    PROVE  \E next \in {"saving", "recording", "yielding", "done"} : ReleaseTo(s, next)
<1>1. CASE outcome = "clean"
  BY <1>1 DEF EndRound
<1>2. CASE outcome = "unavailable"
  BY <1>2 DEF EndRound
<1>3. CASE outcome \notin {"clean", "unavailable"}
  BY <1>3, LoopTopOff DEF EndRound
<1> QED
  BY <1>1, <1>2, <1>3

LEMMA RoundsAreKept ==
    ASSUME SemTyped, Queues, DriverTyped, [Next]_vars,
           \A s \in Sessions : ~Deliver(s), NEW t \in Sessions
    PROVE  KeepsRound(t)
<1>1. CASE UNCHANGED <<inbox, posted, pc, before>>
  <2>1. /\ inbox'[t] = inbox[t] /\ posted'[t] = posted[t]
        /\ before'[t] = before[t] /\ pc'[t] = pc[t]
    BY <1>1
  <2> QED
    BY <2>1, OthersKeepRound
<1>2. ASSUME NEW s \in Sessions, NEW p \in {"yielding", "idle", "done"},
             pc' = [pc EXCEPT ![s] = p], UNCHANGED <<inbox, posted, before>>
      PROVE  KeepsRound(t)
  BY <1>2 DEF KeepsRound, BeforeRound, SemTyped
<1>3. ASSUME NEW s \in Sessions,
             Begin(s) \/ IdleWakes(s) \/ SaveDone(s) \/ OutageRecorded(s)
      PROVE  KeepsRound(t)
  BY <1>2, <1>3, LoopTopOff DEF Begin, IdleWakes, SaveDone, OutageRecorded
<1>4. ASSUME NEW s \in Sessions, CheckInbox(s)
      PROVE  KeepsRound(t)
  <2>1. CASE inbox[s] = {}
    BY <1>2, <1>4, <2>1 DEF CheckInbox
  <2>2. CASE inbox[s] # {}
    BY <1>4, <2>2, AskingKeepsRound DEF CheckInbox
  <2> QED
    BY <2>1, <2>2
<1>5. ASSUME NEW s \in Sessions, CheckInboxRaises(s)
      PROVE  KeepsRound(t)
  BY <1>2, <1>5 DEF CheckInboxRaises
<1>6. ASSUME NEW s \in Sessions, LeaveGate(s)
      PROVE  KeepsRound(t)
  BY <1>6, AskingKeepsRound DEF LeaveGate, BeforeRound
<1>7. ASSUME NEW s \in Sessions, EnterRound(s)
      PROVE  KeepsRound(t)
  BY <1>7 DEF EnterRound, KeepsRound, BeforeRound, SemTyped, DriverTyped
<1>8. ASSUME NEW s \in Sessions, CloseItem(s)
      PROVE  KeepsRound(t)
  <2>1. PICK i \in inbox[s] : inbox' = [inbox EXCEPT ![s] = @ \ {i}]
    BY <1>8 DEF CloseItem
  <2>2. UNCHANGED <<posted, pc, before>> /\ pc[s] = "prompt"
    BY <1>8 DEF CloseItem, driverVars
  <2> QED
    BY <2>1, <2>2 DEF KeepsRound, BeforeRound, SemTyped, DriverTyped
<1>9. ASSUME NEW s \in Sessions, DispatcherEnds(s)
      PROVE  KeepsRound(t)
  <2>1. PICK outcome \in Outcomes : EndRound(s, outcome)
    BY <1>9 DEF DispatcherEnds
  <2>2. PICK next \in {"saving", "recording", "yielding", "done"} : ReleaseTo(s, next)
    BY <2>1, EndReleases
  <2>3. pc[s] \in Slots /\ before' = [before EXCEPT ![s] = {}] /\ posted' = posted
    BY <2>1 DEF EndRound, Slots
  <2>4. \A u \in Sessions : inbox'[u] \subseteq inbox[u]
    BY <2>1, EvictionOnlyRemoves DEF EndRound
  <2>5. \A u \in Sessions \ {s} : inbox'[u] = inbox[u]
    BY <2>1 DEF EndRound, MaybeEvict, DriverTyped
  <2> QED
    BY <2>2, <2>3, <2>4, <2>5, EndsKeepRound
<1>10. ASSUME NEW s \in Sessions, RoundReadRaises(s)
       PROVE  KeepsRound(t)
  BY <1>10, EndsKeepRound DEF RoundReadRaises, Slots
<1>11. ASSUME NEW s \in Sessions, Unwind(s)
       PROVE  KeepsRound(t)
  <2>1. CASE pc[s] \in Slots
    BY <1>11, <2>1, EndsKeepRound DEF Unwind
  <2>2. CASE pc[s] \notin Slots
    BY <1>11, <2>2 DEF Unwind, KeepsRound, BeforeRound, SemTyped, DriverTyped
  <2> QED
    BY <2>1, <2>2
<1>12. ASSUME \/ Time \/ UNCHANGED vars
              \/ \E a \in Agents : \/ GraceExpires(a)
                                   \/ \E mode \in ShutdownModes : Shutdown(a, mode)
       PROVE  UNCHANGED <<inbox, posted, pc, before>>
  BY <1>12 DEF Time, vars, GraceExpires, Shutdown, driverVars
<1> QED
  BY <1>1, <1>3, <1>4, <1>5, <1>6, <1>7, <1>8, <1>9, <1>10, <1>11, <1>12
     DEF Next, DriverStep

LEMMA RoundsHaveWorkStep ==
    ASSUME SemTyped, Queues, DriverTyped, RoundsHaveWork, OldestFirst, [Next]_vars
    PROVE  RoundsHaveWork' /\ OldestFirst'
<1>1. ASSUME NEW s \in Sessions, Deliver(s)
      PROVE  RoundsHaveWork' /\ OldestFirst'
  <2>1. /\ posted' = [posted EXCEPT ![s] = @ + 1]
        /\ inbox' = [inbox EXCEPT ![s] = @ \union {posted[s] + 1}]
        /\ before' = before
        /\ \A t \in Sessions : pc'[t] = pc[t] \/ pc'[t] = "started"
    BY <1>1 DEF Deliver, Submit, SemTyped
  <2>2. RoundsHaveWork'
    BY <2>1 DEF RoundsHaveWork, BeforeRound, DriverTyped
  <2>3. ASSUME NEW t \in Sessions
        PROVE  /\ inbox'[t] \subseteq 1 .. posted'[t]
               /\ before'[t] \subseteq 1 .. posted'[t]
    BY <2>1 DEF OldestFirst, DriverTyped
  <2>4. ASSUME NEW t \in Sessions, pc'[t] = "prompt",
               NEW i \in inbox'[t] \ before'[t], NEW j \in before'[t]
        PROVE  j < i
    <3>1. pc[t] = "prompt" /\ j \in 1 .. posted[t]
      BY <2>1, <2>4 DEF OldestFirst
    <3>2. i \in inbox[t] \/ i = posted[t] + 1
      BY <2>1 DEF DriverTyped
    <3> QED
      BY <2>1, <3>1, <3>2 DEF OldestFirst, DriverTyped
  <2> QED
    BY <2>2, <2>3, <2>4 DEF OldestFirst
<1>2. CASE \A s \in Sessions : ~Deliver(s)
  <2>1. \A t \in Sessions : KeepsRound(t)
    BY <1>2, RoundsAreKept
  <2>2. RoundsHaveWork'
    BY <2>1 DEF KeepsRound, RoundsHaveWork
  <2>3. OldestFirst'
    BY <2>1 DEF KeepsRound, OldestFirst
  <2> QED
    BY <2>2, <2>3
<1> QED
  BY <1>1, <1>2

LEMMA OldestFirstHolds == Spec => [](RoundsHaveWork /\ OldestFirst)
<1>1. Init => RoundsHaveWork /\ OldestFirst
  BY DEF Init, RoundsHaveWork, OldestFirst, BeforeRound
<1>2. SemInv /\ DriverTyped /\ RoundsHaveWork /\ OldestFirst /\ [Next]_vars
        => RoundsHaveWork' /\ OldestFirst'
  BY RoundsHaveWorkStep DEF SemInv
<1> QED
  BY <1>1, <1>2, SemInvariant, DriverTypes, PTL DEF Spec

\* No driver waits for a permit or for the monitor with nothing to do, and no
\* round is started for an empty inbox, whatever tools, evictors, outages and
\* cancellations did to it since the driver looked (prompt_pending, before_ids).
THEOREM RoundsAreForWork == Spec => []RoundsHaveWork
BY OldestFirstHolds, PTL

\* The evictor's victim is an item the round began with: the oldest there is.
LEMMA VictimWasThere ==
    ASSUME DriverTyped, RoundsHaveWork, OldestFirst, NEW s \in Sessions,
           pc[s] = "prompt", before[s] \ inbox[s] = {}
    PROVE  /\ Evicted(s) \subseteq before[s] \intersect inbox[s]
           /\ state = "healthy" => Evicted(s) # {}
<1>1. before[s] # {} /\ before[s] \subseteq inbox[s] /\ inbox[s] \in SUBSET Nat
  BY DEF RoundsHaveWork, DriverTyped
<1>2. Min(inbox[s]) \in inbox[s] /\ \A j \in inbox[s] : Min(inbox[s]) <= j
  BY <1>1, MinIsLeast
<1>3. Min(inbox[s]) \in before[s]
  <2> SUFFICES ASSUME Min(inbox[s]) \notin before[s]
               PROVE  FALSE
    OBVIOUS
  <2>1. PICK j \in before[s] : j < Min(inbox[s])
    BY <1>1, <1>2 DEF OldestFirst
  <2> QED
    BY <1>1, <1>2, <2>1
<1> QED
  BY <1>1, <1>2, <1>3 DEF Evicted

LEMMA EndCounts ==
    ASSUME MonitorTypeOK, DriverTyped, RoundsHaveWork, OldestFirst,
           NEW s \in Sessions, NEW outcome, EndRound(s, outcome)
    PROVE  /\ Leaves(s) \/ stall'[s] > stall[s] \/ state = "degraded" \/ outages' > outages
           /\ stall'[s] < stall[s] => Leaves(s) \/ state = "degraded"
           /\ inbox[s] \ inbox'[s] \subseteq before[s]
<1> DEFINE n == StallAfter(s, outcome)
<1>1. /\ pc[s] = "prompt" /\ MaybeEvict(s, n)
      /\ stall[s] \in Nat /\ n \in Nat /\ Strikes \in Nat
  BY StallAfterTyped DEF EndRound, DriverTyped
<1>2. CASE before[s] \ inbox[s] # {}
  <2>1. n = 0 /\ Leaves(s)
    BY <1>1, <1>2, EvictionOnlyRemoves DEF StallAfter, Leaves
  <2>2. inbox' = inbox
    BY <1>1, <2>1 DEF MaybeEvict
  <2> QED
    BY <2>1, <2>2
<1>3. CASE before[s] \ inbox[s] = {}
  <2>1. \/ n > stall[s]
        \/ n = stall[s] /\ outages' > outages
    <3>1. CASE outcome = "unavailable"
      BY <1>1, <1>3, <3>1 DEF StallAfter, EndRound, ReportFailure, MonitorTypeOK
    <3>2. CASE outcome = "noProgress"
      BY <1>1, <1>3, <3>2 DEF StallAfter
    <3>3. CASE outcome \notin {"unavailable", "noProgress"}
      BY <1>1, <1>3, <3>3 DEF StallAfter
    <3> QED
      BY <3>1, <3>2, <3>3
  <2>2. CASE stall'[s] = n /\ inbox' = inbox
    BY <1>1, <2>1, <2>2
  <2>3. CASE inbox'[s] = inbox[s] \ Evicted(s)
    <3>1. Evicted(s) \subseteq before[s] \intersect inbox[s]
      BY <1>1, <1>3, VictimWasThere
    <3>2. Leaves(s) \/ state = "degraded"
      BY <1>1, <1>3, <2>3, VictimWasThere DEF Leaves, MonitorTypeOK
    <3> QED
      BY <2>3, <3>1, <3>2
  <2> HIDE DEF n
  <2> QED
    BY <1>1, <2>2, <2>3 DEF MaybeEvict, DriverTyped
<1> QED
  BY <1>2, <1>3

LEMMA RoundCountsStep ==
    ASSUME MonitorTypeOK, SemTyped, Queues, DriverTyped, RoundsHaveWork,
           OldestFirst, Next, NEW s \in Sessions
    PROVE  RoundCounts(s)
<1>1. ASSUME NEW r \in Sessions, DispatcherEnds(r)
      PROVE  RoundCounts(s)
  <2>1. PICK outcome \in Outcomes : EndRound(r, outcome)
    BY <1>1 DEF DispatcherEnds
  <2>2. CASE r = s
    <3> DEFINE Counts == Leaves(s) \/ stall'[s] > stall[s] \/ state = "degraded"
                            \/ outages' > outages
    <3>1. /\ Counts
          /\ stall'[s] < stall[s] => Leaves(s) \/ state = "degraded"
          /\ inbox[s] \ inbox'[s] \subseteq before[s]
      BY <2>1, <2>2, EndCounts
    <3> QED
      BY <3>1 DEF RoundCounts
  <2>3. CASE r # s
    <3>1. stall'[s] = stall[s] /\ inbox'[s] = inbox[s]
      BY <2>1, <2>3 DEF EndRound, MaybeEvict, DriverTyped
    <3>2. pc[s] = "prompt" => pc'[s] = "prompt"
      <4>1. PICK next : ReleaseTo(r, next)
        BY <2>1, EndReleases
      <4>2. pc[r] \in Slots
        BY <2>1 DEF EndRound, Slots
      <4> QED
        BY <2>3, <4>1, <4>2, ReleasingHandsOver
    <3> QED
      BY <3>1, <3>2 DEF RoundCounts, DriverTyped
  <2> QED
    BY <2>2, <2>3
<1>2. ASSUME NEW r \in Sessions, RoundReadRaises(r) \/ Unwind(r)
      PROVE  RoundCounts(s)
  <2>1. UNCHANGED <<stall, inbox>>
    BY <1>2 DEF RoundReadRaises, Unwind
  <2>2. pc[s] = "prompt" => pc'[s] \in {"prompt", "done"}
    <3>1. CASE pc[r] \in Slots
      BY <1>2, <3>1, ReleasingHandsOver DEF RoundReadRaises, Unwind
    <3>2. CASE pc[r] \notin Slots
      BY <1>2, <3>2 DEF RoundReadRaises, Unwind, SemTyped, Slots
    <3> QED
      BY <3>1, <3>2
  <2> QED
    BY <2>1, <2>2 DEF RoundCounts, DriverTyped
<1>3. ASSUME NEW r \in Sessions, Deliver(r)
      PROVE  RoundCounts(s)
  <2>1. /\ pc[s] = "prompt" => pc'[s] = "prompt"
        /\ Live(s) => stall'[s] = stall[s]
    BY <1>3 DEF Deliver, Submit, SemTyped, DriverTyped, Live
  <2> QED
    BY <2>1 DEF RoundCounts, DriverTyped
<1>4. ASSUME NEW r \in Sessions, CloseItem(r)
      PROVE  RoundCounts(s)
  BY <1>4 DEF CloseItem, driverVars, RoundCounts, DriverTyped
<1>5. ASSUME NEW r \in Sessions,
             \/ Begin(r) \/ IdleWakes(r) \/ CheckInbox(r) \/ LeaveGate(r)
             \/ EnterRound(r) \/ SaveDone(r) \/ OutageRecorded(r)
             \/ CheckInboxRaises(r)
      PROVE  RoundCounts(s)
  <2>1. UNCHANGED stall /\ pc[r] # "prompt" /\ \E p : pc' = [pc EXCEPT ![r] = p]
    BY <1>5, AskMonitorKeepsLive
       DEF Begin, IdleWakes, CheckInbox, LeaveGate, EnterRound, SaveDone,
           OutageRecorded, CheckInboxRaises
  <2>2. pc[s] = "prompt" => pc'[s] = "prompt"
    BY <2>1 DEF SemTyped
  <2> QED
    BY <2>1, <2>2 DEF RoundCounts, DriverTyped
<1>6. ASSUME \/ Time
             \/ \E a \in Agents : \/ GraceExpires(a)
                                  \/ \E mode \in ShutdownModes : Shutdown(a, mode)
      PROVE  RoundCounts(s)
  <2>1. UNCHANGED <<pc, stall>>
    BY <1>6 DEF Time, GraceExpires, Shutdown, driverVars
  <2> QED
    BY <2>1 DEF RoundCounts, DriverTyped
<1> QED
  BY <1>1, <1>2, <1>3, <1>4, <1>5, <1>6 DEF Next, DriverStep

\* A round that ends wastes nothing, which is the core of EveryItemLeaves: an
\* item that the round had before it left, or the session is a strike nearer to
\* the eviction of its oldest one; strikes are not forgiven for nothing; and an
\* item that came in while the round ran is not what its end takes out
\* (_run_one_round, _maybe_evict_for_progress, default_progress_evictor).
THEOREM NoRoundIsForNothing == Spec => RoundsCount
<1>1. /\ MonitorInv /\ SemInv /\ DriverTyped /\ RoundsHaveWork /\ OldestFirst
      /\ [Next]_vars
      => [\A s \in Sessions : RoundCounts(s)]_vars
  BY RoundCountsStep DEF MonitorInv, SemInv
<1> QED
  BY <1>1, SchedulerUsesMonitor, MonitorCorrect, SemInvariant, DriverTypes,
     OldestFirstHolds, PTL DEF Spec, RoundsCount
=============================================================================
