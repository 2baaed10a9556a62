--------------------------- MODULE AgentScheduler ---------------------------
(***************************************************************************)
(* The schedulers of one gateway: AgentScheduler and _SessionDriver of     *)
(* runtime/_scheduler.py, one scheduler per agent, every driver gated by   *)
(* the shared monitor of module ProviderHealth.                            *)
(*                                                                         *)
(* A driver is an asyncio task: an action here is what it does from one    *)
(* await that really suspends it to the next.  A session's inbox is the    *)
(* set of its prompt_pending() items; items are numbered in ULID order.    *)
(* The dispatcher (the agent's prompt loop) is external: while it runs it  *)
(* closes items, and it ends in one of Outcomes.                           *)
(***************************************************************************)
EXTENDS ProviderHealth, Sequences, FiniteSetsExt

CONSTANTS
    Sessions,           \* the session keys; each has at most one driver
    Agents,
    AgentOf,            \* the agent each session belongs to
    Concurrency,        \* DEFAULT_AGENT_CONCURRENCY: rounds per agent
    Strikes,            \* progress_strikes; 0 disables eviction
    MaxStall,           \* bound: stall count up to which an evictor raises
    MaxItems,           \* bound: items posted to a session
    Crashing,           \* the sessions whose inbox reads may raise
    Outcomes,           \* how dispatchers may end
    ProbeOutcomes,      \* and how the ones that run as a probe may
    ShutdownModes       \* the timeouts shutdown is called with

ASSUME SchedulerAssumption ==
    /\ Callers = Sessions
    /\ IsFiniteSet(Sessions)
    /\ AgentOf \in [Sessions -> Agents]
    /\ Concurrency \in Nat \ {0}
    /\ Strikes \in Nat
    /\ MaxStall \in Nat
    /\ MaxItems \in Nat
    /\ Crashing \subseteq Sessions
    /\ Outcomes \subseteq {"clean", "unavailable", "noProgress", "raised"}
    /\ ProbeOutcomes \subseteq Outcomes
    /\ ShutdownModes \subseteq {"patient", "grace", "immediate"}

VARIABLES
    inbox,      \* prompt-pending items of each session
    posted,     \* number of items ever posted to each session
    pc,         \* where the session's drain task is
    wake,       \* _wake.is_set()
    stop,       \* _stop
    stall,      \* _stall_count
    before,     \* before_ids of the round that runs
    queue,      \* FIFO of tasks waiting for the agent's semaphore
    permits,    \* value of the agent's semaphore
    closing,    \* "open", or how shutdown proceeds
    cancelled,  \* tasks with a cancellation on its way
    crashed     \* sessions whose last driver ended with an exception

driverVars == <<pc, wake, stop, stall, before>>
semVars == <<queue, permits>>
vars == <<monitorVars, inbox, posted, driverVars, semVars, closing,
          cancelled, crashed>>

Slots == {"granted", "prompt"}          \* holding a semaphore permit
PCs == {"absent", "started", "yielding", "idle", "gate", "semaphore",
        "saving", "recording", "done"} \union Slots

TypeOK ==
    /\ MonitorTypeOK
    /\ inbox \in [Sessions -> SUBSET (1 .. MaxItems)]
    /\ posted \in [Sessions -> 0 .. MaxItems]
    /\ pc \in [Sessions -> PCs]
    /\ wake \in [Sessions -> BOOLEAN]
    /\ stop \in [Sessions -> BOOLEAN]
    /\ stall \in [Sessions -> Nat]
    /\ before \in [Sessions -> SUBSET (1 .. MaxItems)]
    /\ queue \in [Agents -> Seq(Sessions)]
    /\ permits \in [Agents -> 0 .. Concurrency]
    /\ closing \in [Agents -> {"open", "patient", "grace", "immediate"}]
    /\ cancelled \in SUBSET Sessions
    /\ crashed \in SUBSET Sessions

Init ==
    /\ MonitorInit
    /\ inbox = [s \in Sessions |-> {}]
    /\ posted = [s \in Sessions |-> 0]
    /\ pc = [s \in Sessions |-> "absent"]
    /\ wake = [s \in Sessions |-> FALSE]
    /\ stop = [s \in Sessions |-> FALSE]
    /\ stall = [s \in Sessions |-> 0]
    /\ before = [s \in Sessions |-> {}]
    /\ queue = [a \in Agents |-> <<>>]
    /\ permits = [a \in Agents |-> Concurrency]
    /\ closing = [a \in Agents |-> "open"]
    /\ cancelled = {}
    /\ crashed = {}

Runs(s) == s \notin cancelled
Live(s) == pc[s] \notin {"absent", "done"}
Drivers(a) == {s \in Sessions : AgentOf[s] = a /\ Live(s)}

\* Variants of definitions with a plausible bug stand before the definition
\* they vary, named for it; no action uses them.

\* submit that kicks only the drivers it starts.
SubmitKickingNewOnly(s) ==
    IF Live(s)
    THEN UNCHANGED <<pc, wake, stop, stall, crashed>>
    ELSE /\ wake' = [wake EXCEPT ![s] = TRUE]
         /\ pc' = [pc EXCEPT ![s] = "started"]
         /\ stop' = [stop EXCEPT ![s] = FALSE]
         /\ stall' = [stall EXCEPT ![s] = 0]
         /\ crashed' = crashed \ {s}

\* submit: a missing or finished driver is replaced, then kicked.
Submit(s) ==
    /\ wake' = [wake EXCEPT ![s] = TRUE]
    /\ IF Live(s)
       THEN UNCHANGED <<pc, stop, stall, crashed>>
       ELSE /\ pc' = [pc EXCEPT ![s] = "started"]
            /\ stop' = [stop EXCEPT ![s] = FALSE]
            /\ stall' = [stall EXCEPT ![s] = 0]
            /\ crashed' = crashed \ {s}

\* The gateway hands an event over: inbox.post, then submit with no await
\* between.  A closed scheduler raises, and the item stays in the inbox.
Deliver(s) ==
    /\ posted[s] < MaxItems
    /\ posted' = [posted EXCEPT ![s] = @ + 1]
    /\ inbox' = [inbox EXCEPT ![s] = @ \union {posted[s] + 1}]
    /\ IF closing[AgentOf[s]] = "open"
       THEN Submit(s) ELSE UNCHANGED <<pc, wake, stop, stall, crashed>>
    /\ UNCHANGED <<monitorVars, before, semVars, closing, cancelled>>

-----------------------------------------------------------------------------
\* The drain loop.  `while not self._stop`, then the sleep(0).
LoopTop(s) == IF stop[s] THEN "done" ELSE "yielding"

Begin(s) ==
    /\ Runs(s)
    /\ pc[s] = "started"
    /\ pc' = [pc EXCEPT ![s] = LoopTop(s)]
    /\ UNCHANGED <<monitorVars, inbox, posted, wake, stop, stall, before,
                   semVars, closing, cancelled, crashed>>

IdleWakes(s) ==
    /\ Runs(s)
    /\ pc[s] = "idle"
    /\ wake[s]
    /\ pc' = [pc EXCEPT ![s] = LoopTop(s)]
    /\ UNCHANGED <<monitorVars, inbox, posted, wake, stop, stall, before,
                   semVars, closing, cancelled, crashed>>

\* async with self._semaphore: at once when a permit is free and nobody
\* queues, else behind the others.  before_ids is read on entry.
EnterSemaphore(s) ==
    LET a == AgentOf[s] IN
    IF permits[a] > 0 /\ queue[a] = <<>>
    THEN /\ permits' = [permits EXCEPT ![a] = @ - 1]
         /\ pc' = [pc EXCEPT ![s] = "prompt"]
         /\ before' = [before EXCEPT ![s] = inbox[s]]
         /\ UNCHANGED queue
    ELSE /\ queue' = [queue EXCEPT ![a] = Append(@, s)]
         /\ pc' = [pc EXCEPT ![s] = "semaphore"]
         /\ UNCHANGED <<permits, before>>

\* _run_one_round up to its first suspension.
AskMonitor(s) ==
    /\ WaitUntilHealthy(s)
    /\ IF call'[s] \in Permitted
       THEN EnterSemaphore(s)
       ELSE /\ pc' = [pc EXCEPT ![s] = "gate"]
            /\ UNCHANGED <<semVars, before>>

\* wake.clear(), then prompt_pending(), then a round or the idle wait.
CheckInbox(s) ==
    /\ Runs(s)
    /\ pc[s] = "yielding"
    /\ wake' = [wake EXCEPT ![s] = FALSE]
    /\ IF inbox[s] = {}
       THEN /\ pc' = [pc EXCEPT ![s] = "idle"]
            /\ UNCHANGED <<monitorVars, before, semVars>>
       ELSE AskMonitor(s)
    /\ UNCHANGED <<inbox, posted, stop, stall, closing, cancelled, crashed>>

\* prompt_pending() raises (a file renamed away by the operator's CLI while
\* it is listed): the drain loop logs it and ends.
CheckInboxRaises(s) ==
    /\ Runs(s)
    /\ pc[s] = "yielding"
    /\ s \in Crashing
    /\ crashed' = crashed \union {s}
    /\ wake' = [wake EXCEPT ![s] = FALSE]
    /\ pc' = [pc EXCEPT ![s] = "done"]
    /\ UNCHANGED <<monitorVars, inbox, posted, stop, stall, before, semVars,
                   closing, cancelled>>

LeaveGate(s) ==
    /\ Runs(s)
    /\ pc[s] = "gate"
    /\ AskMonitor(s)
    /\ UNCHANGED <<inbox, posted, wake, stop, stall, closing, cancelled,
                   crashed>>

\* A waiter that was handed a permit runs.
EnterRound(s) ==
    /\ Runs(s)
    /\ pc[s] = "granted"
    /\ pc' = [pc EXCEPT ![s] = "prompt"]
    /\ before' = [before EXCEPT ![s] = inbox[s]]
    /\ UNCHANGED <<monitorVars, inbox, posted, wake, stop, stall, semVars,
                   closing, cancelled, crashed>>

\* The agent's tools complete or park an item in the round.
CloseItem(s) ==
    /\ Runs(s)
    /\ pc[s] = "prompt"
    /\ \E i \in inbox[s] : inbox' = [inbox EXCEPT ![s] = @ \ {i}]
    /\ UNCHANGED <<monitorVars, posted, driverVars, semVars, closing,
                   cancelled, crashed>>

\* A release that hands the permit on and returns it to the pool as well.
ReleaseToTwice(s, next) ==
    LET a == AgentOf[s] IN
    /\ permits' = [permits EXCEPT ![a] = @ + 1]
    /\ IF queue[a] = <<>>
       THEN pc' = [pc EXCEPT ![s] = next] /\ UNCHANGED queue
       ELSE /\ pc' = [pc EXCEPT ![s] = next, ![Head(queue[a])] = "granted"]
            /\ queue' = [queue EXCEPT ![a] = Tail(@)]

\* A release that hands the permit to whoever came last.
ReleaseToNewest(s, next) ==
    LET a == AgentOf[s] IN
    IF queue[a] = <<>>
    THEN /\ permits' = [permits EXCEPT ![a] = @ + 1]
         /\ pc' = [pc EXCEPT ![s] = next]
         /\ UNCHANGED queue
    ELSE /\ pc' = [pc EXCEPT ![s] = next, ![queue[a][Len(queue[a])]] = "granted"]
         /\ queue' = [queue EXCEPT ![a] = SubSeq(@, 1, Len(@) - 1)]
         /\ UNCHANGED permits

\* Semaphore.release by s, whose pc becomes next: the permit goes to the
\* head of the queue, or back to the pool.
ReleaseTo(s, next) ==
    LET a == AgentOf[s] IN
    IF queue[a] = <<>>
    THEN /\ permits' = [permits EXCEPT ![a] = @ + 1]
         /\ pc' = [pc EXCEPT ![s] = next]
         /\ UNCHANGED queue
    ELSE /\ pc' = [pc EXCEPT ![s] = next, ![Head(queue[a])] = "granted"]
         /\ queue' = [queue EXCEPT ![a] = Tail(@)]
         /\ UNCHANGED permits

\* Strikes for outages as well.
StallAfterAnyRound(s, outcome) ==
    IF before[s] \ inbox[s] # {} THEN 0 ELSE stall[s] + 1

\* No strike for a dispatcher that raises.
StallAfterReturnOnly(s, outcome) ==
    IF before[s] \ inbox[s] # {} THEN 0
    ELSE stall[s] + (IF outcome = "clean" THEN 1 ELSE 0)

\* The strike count after a round, before the evictor is considered.
StallAfter(s, outcome) ==
    IF before[s] \ inbox[s] # {} THEN 0
    ELSE CASE outcome = "unavailable" -> stall[s]
           [] outcome = "noProgress"  -> IF stall[s] + 1 > Strikes
                                         THEN stall[s] + 1 ELSE Strikes
           [] OTHER                   -> stall[s] + 1

\* default_progress_evictor returning normally.
Evicted(s) ==
    IF state = "healthy" /\ inbox[s] # {} THEN {Min(inbox[s])} ELSE {}

\* _maybe_evict_for_progress; the second disjunct is an evictor that raises.
MaybeEvict(s, n) ==
    IF Strikes = 0 \/ n < Strikes
    THEN /\ stall' = [stall EXCEPT ![s] = n]
         /\ UNCHANGED inbox
    ELSE \/ /\ stall' = [stall EXCEPT ![s] = 0]
            /\ inbox' = [inbox EXCEPT ![s] = @ \ Evicted(s)]
         \/ /\ n <= MaxStall
            /\ stall' = [stall EXCEPT ![s] = n]
            /\ UNCHANGED inbox

\* The dispatcher is over, up to the next await that may suspend: the save
\* after a clean round, the one that records an outage, or the loop's yield.
EndRound(s, outcome) ==
    /\ Runs(s)
    /\ pc[s] = "prompt"
    /\ outcome \in IF call[s] = "probe" THEN ProbeOutcomes ELSE Outcomes
    /\ MaybeEvict(s, StallAfter(s, outcome))
    /\ CASE outcome = "clean" ->
                ReleaseTo(s, "saving") /\ UNCHANGED monitorVars
         [] outcome = "unavailable" ->
                /\ ReportFailure(s)
                /\ ReleaseTo(s, IF ReportRaises THEN "done" ELSE "recording")
         [] OTHER ->
                LeaveUnreported(s) /\ ReleaseTo(s, LoopTop(s))
    /\ before' = [before EXCEPT ![s] = {}]
    /\ crashed' = IF outcome = "unavailable" /\ ReportRaises
                  THEN crashed \union {s} ELSE crashed
    /\ UNCHANGED <<posted, wake, stop, closing, cancelled>>

\* prompt_pending() raises within the round, before or after the dispatcher
\* ran: the semaphore is released and the drain loop ends.
RoundReadRaises(s) ==
    /\ Runs(s)
    /\ pc[s] = "prompt"
    /\ s \in Crashing
    /\ crashed' = crashed \union {s}
    /\ LeaveUnreported(s)
    /\ ReleaseTo(s, "done")
    /\ before' = [before EXCEPT ![s] = {}]
    /\ UNCHANGED <<inbox, posted, wake, stop, stall, closing, cancelled>>

\* save_session returned or raised (which is only logged); report_success.
SaveDone(s) ==
    /\ Runs(s)
    /\ pc[s] = "saving"
    /\ ReportSuccess(s)
    /\ pc' = [pc EXCEPT ![s] = LoopTop(s)]
    /\ UNCHANGED <<inbox, posted, wake, stop, stall, before, semVars,
                   closing, cancelled, crashed>>

OutageRecorded(s) ==
    /\ Runs(s)
    /\ pc[s] = "recording"
    /\ pc' = [pc EXCEPT ![s] = LoopTop(s)]
    /\ UNCHANGED <<monitorVars, inbox, posted, wake, stop, stall, before,
                   semVars, closing, cancelled, crashed>>

-----------------------------------------------------------------------------
\* shutdown(timeout): None, a grace period, or zero.
Shutdown(a, mode) ==
    /\ closing[a] = "open"
    /\ mode \in ShutdownModes
    /\ closing' = [closing EXCEPT ![a] = mode]
    /\ stop' = [s \in Sessions |-> stop[s] \/ s \in Drivers(a)]
    /\ wake' = [s \in Sessions |-> wake[s] \/ s \in Drivers(a)]
    /\ cancelled' = IF mode = "immediate"
                    THEN cancelled \union Drivers(a) ELSE cancelled
    /\ UNCHANGED <<monitorVars, inbox, posted, pc, stall, before, semVars,
                   crashed>>

\* A deadline that cancels the rounds only.
GraceExpiresForRounds(a) ==
    /\ closing[a] = "grace"
    /\ closing' = [closing EXCEPT ![a] = "immediate"]
    /\ cancelled' = cancelled \union {s \in Drivers(a) : pc[s] \in Slots}
    /\ UNCHANGED <<monitorVars, inbox, posted, driverVars, semVars, crashed>>

GraceExpires(a) ==
    /\ closing[a] = "grace"
    /\ closing' = [closing EXCEPT ![a] = "immediate"]
    /\ cancelled' = cancelled \union Drivers(a)
    /\ UNCHANGED <<monitorVars, inbox, posted, driverVars, semVars, crashed>>

\* The queue with s taken out (a queue holds a task once).
Without(q, s) ==
    [j \in 1 .. Len(q) - 1 |->
        IF \E i \in 1 .. j : q[i] = s THEN q[j + 1] ELSE q[j]]

\* A cancelled round that keeps its permit.
UnwindKeepingPermit(s) ==
    /\ s \in cancelled
    /\ cancelled' = cancelled \ {s}
    /\ IF call[s] = "out" THEN UNCHANGED monitorVars ELSE LeaveUnreported(s)
    /\ pc' = [pc EXCEPT ![s] = "done"]
    /\ queue' = IF pc[s] = "semaphore"
                THEN [queue EXCEPT ![AgentOf[s]] = Without(@, s)] ELSE queue
    /\ before' = [before EXCEPT ![s] = {}]
    /\ UNCHANGED <<permits, inbox, posted, wake, stop, stall, closing, crashed>>

\* CancelledError unwinds the task wherever it is suspended.
Unwind(s) ==
    /\ s \in cancelled
    /\ cancelled' = cancelled \ {s}
    /\ IF call[s] = "out" THEN UNCHANGED monitorVars ELSE LeaveUnreported(s)
    /\ IF pc[s] \in Slots
       THEN ReleaseTo(s, "done")
       ELSE /\ pc' = [pc EXCEPT ![s] = "done"]
            /\ queue' = IF pc[s] = "semaphore"
                        THEN [queue EXCEPT ![AgentOf[s]] = Without(@, s)]
                        ELSE queue
            /\ UNCHANGED permits
    /\ before' = [before EXCEPT ![s] = {}]
    /\ UNCHANGED <<inbox, posted, wake, stop, stall, closing, crashed>>

Time ==
    /\ Tick
    /\ UNCHANGED <<inbox, posted, driverVars, semVars, closing, cancelled,
                   crashed>>

\* The steps of the driver's own task, but for the dispatcher it awaits.
DriverStep(s) ==
    \/ Begin(s) \/ IdleWakes(s) \/ CheckInbox(s) \/ LeaveGate(s)
    \/ EnterRound(s) \/ SaveDone(s) \/ OutageRecorded(s) \/ Unwind(s)

DispatcherEnds(s) == \E outcome \in Outcomes : EndRound(s, outcome)

Next ==
    \/ Time
    \/ \E s \in Sessions : \/ Deliver(s)
                           \/ DriverStep(s)
                           \/ CheckInboxRaises(s)
                           \/ RoundReadRaises(s)
                           \/ CloseItem(s)
                           \/ DispatcherEnds(s)
    \/ \E a \in Agents : \/ \E mode \in ShutdownModes : Shutdown(a, mode)
                         \/ GraceExpires(a)

Spec == Init /\ [][Next]_vars

\* The event loop runs every ready task, clocks advance, and a dispatcher
\* returns: its model calls have timeouts and it bounds its tool rounds.
Fairness ==
    /\ WF_vars(Time)
    /\ \A s \in Sessions : WF_vars(DriverStep(s)) /\ WF_vars(DispatcherEnds(s))
    /\ \A a \in Agents : WF_vars(GraceExpires(a))

FairSpec == Spec /\ Fairness

-----------------------------------------------------------------------------
\* Every permit of an agent's semaphore is in the pool or held by a round (or
\* by a waiter it was handed to): rounds that raise, and tasks that are
\* cancelled in a round or in the queue, leak none and return none twice.
PermitsAccounted ==
    \A a \in Agents :
        permits[a] + Cardinality({s \in Sessions : AgentOf[s] = a /\ pc[s] \in Slots})
            = Concurrency

\* The rounds of an agent's sessions hold its semaphore as a FIFO semaphore
\* promises (`async with self._semaphore`): at most Concurrency at once, nobody
\* waits while there is room, and who waits longest is next, through rounds
\* that raise and tasks cancelled in the queue or with a permit in hand.
Semaphore == INSTANCE FifoSemaphore WITH
    Tasks <- Sessions, Semaphores <- Agents, SemaphoreOf <- AgentOf, Size <- Concurrency,
    holders <- {s \in Sessions : pc[s] \in Slots}

PermitsGoInOrder == Semaphore!Spec

\* While its scheduler is open, a session with pending items has a driver
\* that will look at them: none that sleeps without its wake event set, and
\* none that is gone, unless it crashed reading the inbox or backing off.
\* (submit, kick, and the clear-then-read order of _drain_loop.)
PendingIsWatched ==
    \A s \in Sessions :
        closing[AgentOf[s]] = "open" /\ inbox[s] # {} =>
            IF Live(s) THEN pc[s] = "idle" => wake[s]
            ELSE s \in crashed

\* "a provider outage cannot cause notifications to be evicted-as-errored"
\* (module docstring, lines 91-92): a round the provider failed takes no item
\* out of an inbox, unless its session had used up its strikes before and the
\* evictor failed it then.
OutageNeverEvicts ==
    [][outages' > outages =>
          \A s \in Sessions : inbox'[s] # inbox[s] => stall[s] >= Strikes]_vars

\* Forward progress: an item does not stay pending for ever.  Whatever the
\* dispatcher does, the item is closed, or evicted once its session stalled
\* often enough, while the driver lives and the scheduler is open.
EveryItemLeaves ==
    \A s \in Sessions : \A i \in 1 .. MaxItems :
        i \in inbox[s] ~> \/ i \notin inbox[s]
                          \/ closing[AgentOf[s]] # "open"
                          \/ ~Live(s)

\* A driver held at the gate gets out of it: the outage ends, or the driver is
\* nominated to probe (docstring of wait_until_healthy, lines 350-357), also
\* when the caller that holds the slot never reports (lines 366-370).
GateOpens == \A s \in Sessions : pc[s] = "gate" ~> pc[s] # "gate"

\* A shutdown with a deadline leaves no driver behind.
ShutdownReturns ==
    \A a \in Agents : closing[a] \in {"grace", "immediate"} ~> Drivers(a) = {}

\* A stop request alone ends every driver: "waking the event ensures an idle
\* driver observes the stop flag ..., a mid-round driver will see the flag when
\* it comes back to the top of the loop" (request_stop, lines 544-547).
StopIsObserved == \A a \in Agents : closing[a] = "patient" ~> Drivers(a) = {}
=============================================================================
