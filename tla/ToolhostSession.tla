--------------------------- MODULE ToolhostSession ---------------------------
(***************************************************************************)
(* One agent's sandbox executor: DaemonToolExecutor of                     *)
(* toolhost/_executor.py, the SubprocessDaemonHost under it                *)
(* (toolhost/_host.py) and the daemon's request loop                       *)
(* (toolhost/_server.py).                                                  *)
(*                                                                         *)
(* A caller is a session that makes one tool call after another through    *)
(* `invoke` (a list_mcp_server_tools request takes the same path).  The    *)
(* callers share one daemon process, one connection to it and, once the    *)
(* handshake is done, one reader and one heartbeat task, here a single     *)
(* Watcher.  A teardown is run by whoever starts it: a call whose          *)
(* handshake failed, the Watcher, or Closer (the task in `aclose`).        *)
(* Frames are written under _send_lock, and drain() suspends the sender    *)
(* with the lock held while the peer does not read and the buffers are     *)
(* full.  A step is what runs between two awaits.                          *)
(***************************************************************************)
EXTENDS Naturals, FiniteSets, Sequences, SequencesExt

CONSTANTS Calls,          \* callers, each with one call at a time, under
                          \* call ids that no other call has
          Watcher,        \* the reader and heartbeat tasks of a connection
          Closer,         \* the task that runs aclose
          Nobody,
          MaxDaemons,     \* bound: daemon processes that can be spawned
          MaxConcurrency, \* the daemon's --max-concurrency
          Large,          \* callers whose requests do not fit in the buffers
          Faults          \* what may go wrong, see FaultKinds

\* How a daemon can fail: it stops answering, closes its connection and stays,
\* or exits; and what else can: starting it, its handshake, a malformed frame,
\* the cancellation of a call, and aclose.
Failures == {"wedged", "hungup", "dead"}
FaultKinds == Failures \cup {"start", "hello", "garbage", "cancel", "close"}

ASSUME ToolhostAssumption ==
    /\ MaxDaemons \in Nat \ {0}
    /\ MaxConcurrency \in Nat \ {0}
    /\ Large \subseteq Calls
    /\ Faults \subseteq FaultKinds
    /\ Watcher \notin Calls /\ Closer \notin Calls /\ Nobody \notin Calls
    /\ Watcher # Closer

Tasks == Calls \cup {Watcher, Closer}

VARIABLES
    pc,          \* caller -> where its call is, "idle" or "cancelled" without one
    lock,        \* the call that holds _lock
    writer,      \* _writer: the number of the daemon at its other end, 0 if None
    shut,        \* that writer's close() has been called
    watched,     \* its reader and heartbeat tasks are running
    closed,      \* _closed
    hostStarted, \* _host_started
    daemon,      \* the host's process: "none", "up" or a member of Failures
    spawned,     \* how many daemons have been spawned; the last is `daemon`
    conn,        \* caller -> the daemon its handshake or its request went to
    job,         \* caller -> its request, in the transport's buffer or the daemon
    full,        \* the transport's buffer is above its high-water mark
    line,        \* the tasks in _send, in the order in which they get _send_lock
    draining,    \* the first of them has it, and is suspended in drain()
    td,          \* task -> where its teardown is
    target,      \* task -> the daemon that teardown is about (history)
    abandoned,   \* a call was cancelled while it set the connection up (history)
    busyAtClose  \* a call was in `invoke` when aclose began (history)

vars == <<pc, lock, writer, shut, watched, closed, hostStarted, daemon, spawned,
          conn, job, full, line, draining, td, target, abandoned, busyAtClose>>
history == <<target, abandoned, busyAtClose>>
host == <<daemon, spawned, hostStarted>>
link == <<writer, shut, watched>>
wire == <<full, line, draining>>

Setup == {"start", "connect", "hello"}       \* under _lock
Requesting == {"send", "failed"}             \* in _send; "failed": by _fail_all
Sending == Requesting \cup {"cancelling"}    \* or there with a ToolCallCancel
InInvoke == Setup \cup Sending \cup {"lock", "await"}
Running == daemon \in {"up", "wedged", "hungup"}
Reachable == daemon \in {"up", "wedged"}     \* a write to it does not fail

Init ==
    /\ pc = [c \in Calls |-> "idle"]
    /\ lock = Nobody
    /\ writer = 0 /\ shut = FALSE /\ watched = FALSE
    /\ closed = FALSE /\ hostStarted = FALSE
    /\ daemon = "none" /\ spawned = 0
    /\ conn = [c \in Calls |-> 0]
    /\ job = [c \in Calls |-> "none"]
    /\ full = FALSE /\ line = <<>> /\ draining = FALSE
    /\ td = [t \in Tasks |-> "none"]
    /\ target = [t \in Tasks |-> 0]
    /\ abandoned = FALSE /\ busyAtClose = FALSE

-----------------------------------------------------------------------------
(* _send *)

\* Where a caller in phase p is once its write has raised, or once its frame has
\* left the transport's buffer.
Broken(p) == IF p = "cancelling" THEN "cancelled" ELSE "idle"
Drained(p) == IF p = "send" THEN "await" ELSE Broken(p)

\* write_frame, by c, to the writer w that it looked up before it had the lock:
\* the connection is gone and the write raises, the frame fits, or drain()
\* waits.  A closed transport still takes frames while it has some to flush.
WriteFrame(c, p, w) ==
    LET gone == w # writer \/ (~full /\ (shut \/ ~Reachable))
        blocks == full \/ (p \in Requesting /\ c \in Large)
        request(state) == [job EXCEPT ![c] = IF p \in Requesting THEN state ELSE @]
    IN  \/ /\ gone
           /\ pc' = [pc EXCEPT ![c] = Broken(p)]
           /\ UNCHANGED <<job, full>>
        \/ /\ ~gone /\ ~blocks
           /\ pc' = [pc EXCEPT ![c] = Drained(p)]
           /\ job' = request("sent")
           /\ UNCHANGED full
        \/ /\ ~gone /\ blocks
           /\ pc' = [pc EXCEPT ![c] = p]
           /\ job' = request("written")
           /\ full' = TRUE

\* _send: at the end of the line, or at once where there is none.
Send(c, p) ==
    /\ IF line = <<>>
       THEN /\ WriteFrame(c, p, writer)
            /\ draining' = (pc'[c] = p)
       ELSE /\ pc' = [pc EXCEPT ![c] = p]
            /\ UNCHANGED <<job, full, draining>>
    /\ line' = IF pc'[c] = p THEN Append(line, c) ELSE line
    /\ conn' = IF pc'[c] \in {p, "await"} THEN [conn EXCEPT ![c] = writer] ELSE conn

\* The lock is free, and the first in line writes its frame.
TakeSendLock ==
    /\ line # <<>> /\ ~draining
    /\ IF Head(line) = Watcher
       THEN draining' = full /\ UNCHANGED <<pc, job, full>>
       ELSE LET c == Head(line)
            IN  WriteFrame(c, pc[c], conn[c]) /\ draining' = (pc'[c] = pc[c])
    /\ line' = IF draining' THEN line ELSE Tail(line)
    /\ UNCHANGED <<lock, link, closed, host, conn, td, history>>

Beating == Watcher \in Range(line)

\* The heartbeat is due and does not get its frame out at once.
Beat ==
    /\ watched /\ ~closed /\ ~Beating /\ full
    /\ line' = Append(line, Watcher)
    /\ draining' = (draining \/ line = <<>>)
    /\ UNCHANGED <<pc, lock, link, closed, host, conn, job, full, td, history>>

\* The task in drain() goes on, its frame sent or its connection broken, and
\* releases the lock.
DrainReturns(sent) ==
    /\ full' = FALSE /\ draining' = FALSE
    /\ pc' = [c \in Calls |-> IF ~(draining /\ c = Head(line)) THEN pc[c]
                              ELSE IF sent THEN Drained(pc[c]) ELSE Broken(pc[c])]
    /\ line' = IF draining THEN Tail(line) ELSE line

\* The daemon reads what is in the buffer.
Flush ==
    /\ full /\ daemon = "up"
    /\ DrainReturns(TRUE)
    /\ job' = [c \in Calls |-> IF job[c] = "written" THEN "sent" ELSE job[c]]
    /\ UNCHANGED <<lock, link, closed, host, conn, td, history>>

\* The transport finds its peer gone, and drops what is in the buffer.
SendBreaks ==
    /\ full /\ ~Reachable
    /\ DrainReturns(FALSE)
    /\ job' = [c \in Calls |-> IF job[c] = "written" THEN "none" ELSE job[c]]
    /\ UNCHANGED <<lock, link, closed, host, conn, td, history>>

\* Task t is cancelled, wherever it is in _send.
LeaveLine(t) ==
    /\ IF t \in Range(line)
       THEN \E i \in DOMAIN line : line[i] = t /\ line' = RemoveAt(line, i)
       ELSE line' = line
    /\ draining' = (draining /\ Head(line) # t)

-----------------------------------------------------------------------------
(* invoke and the start of a daemon *)

\* invoke past _ensure_running: the future is registered and the request sent.
Ship(c) == Send(c, "send")

Invoke(c) ==
    /\ pc[c] \in {"idle", "cancelled"} /\ job[c] = "none"
    /\ ~closed
    /\ IF writer # 0
       THEN Ship(c)
       ELSE pc' = [pc EXCEPT ![c] = "lock"] /\ UNCHANGED <<conn, job, wire>>
    /\ UNCHANGED <<lock, link, closed, host, td, history>>

\* `async with self._lock`, and the second look at the writer under it.
TakeLock(c) ==
    /\ pc[c] = "lock" /\ lock = Nobody
    /\ IF writer # 0
       THEN Ship(c) /\ UNCHANGED lock
       ELSE /\ pc' = [pc EXCEPT ![c] = "start"] /\ lock' = c
            /\ UNCHANGED <<conn, job, wire>>
    /\ UNCHANGED <<link, closed, host, td, history>>

\* The tasks in T are through with their teardown or their host.stop(): a call
\* among them raises and releases the lock.
Ends(T) ==
    /\ td' = [t \in Tasks |-> IF t \in T THEN "none" ELSE td[t]]
    /\ pc' = [c \in Calls |-> IF c \in T THEN "idle" ELSE pc[c]]
    /\ lock' = IF lock \in T THEN Nobody ELSE lock
    /\ target' = [t \in Tasks |-> IF t \in T THEN 0 ELSE target[t]]

\* _stop_host_quietly: with a process to wait for, host.stop() suspends.
StopHost(t) ==
    IF Running
    THEN /\ td' = [td EXCEPT ![t] = "stopping"]
         /\ target' = [target EXCEPT ![t] = IF td[t] = "none" THEN spawned ELSE @]
         /\ UNCHANGED <<daemon, hostStarted, pc, lock>>
    ELSE /\ daemon' = "none" /\ hostStarted' = FALSE
         /\ Ends({t})

\* A host that spawns over a process still being stopped.
StartHostOverRunning(c) ==
    /\ pc[c] = "start" /\ td[c] = "none" /\ spawned < MaxDaemons
    /\ daemon' = "up" /\ spawned' = spawned + 1 /\ hostStarted' = TRUE
    /\ pc' = [pc EXCEPT ![c] = "connect"]
    /\ UNCHANGED <<td, lock, target, link, closed, conn, job, wire, abandoned, busyAtClose>>

\* host.start() raises over a running process; otherwise it spawns one.
StartHost(c) ==
    /\ pc[c] = "start" /\ td[c] = "none"
    /\ \/ /\ ~Running /\ spawned < MaxDaemons
          /\ daemon' = "up" /\ spawned' = spawned + 1 /\ hostStarted' = TRUE
          /\ pc' = [pc EXCEPT ![c] = "connect"]
          /\ UNCHANGED <<td, lock, target>>
       \/ /\ Running \/ spawned = MaxDaemons \/ "start" \in Faults
          /\ StopHost(c)
          /\ UNCHANGED spawned
    /\ UNCHANGED <<link, closed, conn, job, wire, abandoned, busyAtClose>>

\* _connect_socket, and _adopt_streams up to its await of the daemon's Hello:
\* the writer is set, and ours is sent (the buffers are empty), before the
\* answer is known.
Connect(c) ==
    /\ pc[c] = "connect" /\ td[c] = "none"
    /\ \/ /\ Reachable
          /\ writer' = spawned /\ shut' = FALSE
          /\ conn' = [conn EXCEPT ![c] = spawned]
          /\ pc' = [pc EXCEPT ![c] = "hello"]
          /\ UNCHANGED <<host, td, lock, target>>
       \/ /\ daemon # "up" \/ "start" \in Faults
          /\ StopHost(c)
          /\ UNCHANGED <<writer, shut, conn, spawned>>
    /\ UNCHANGED <<watched, closed, job, wire, abandoned, busyAtClose>>

OwnsWriter(c) == writer = conn[c] /\ ~shut

\* A setup that returns with the lock taken.
HelloArrivesUnderLock(c) ==
    /\ pc[c] = "hello" /\ td[c] = "none"
    /\ daemon = "up" /\ OwnsWriter(c)
    /\ watched' = TRUE
    /\ Ship(c)
    /\ UNCHANGED <<lock, writer, shut, closed, host, td, history>>

\* The daemon's Hello: the watching tasks start, the lock is released and the
\* call's own request goes out, all without an await.
HelloArrives(c) ==
    /\ pc[c] = "hello" /\ td[c] = "none"
    /\ daemon = "up" /\ OwnsWriter(c)
    /\ watched' = TRUE
    /\ lock' = Nobody
    /\ Ship(c)
    /\ UNCHANGED <<writer, shut, closed, host, td, history>>

\* A handshake whose failure is raised without a teardown.
LoseSetupBare(c) ==
    /\ pc[c] = "hello" /\ td[c] = "none"
    /\ Ends({c})
    /\ UNCHANGED <<link, closed, host, conn, job, wire, abandoned, busyAtClose>>

\* _teardown, by the call that holds the lock, up to its first await (there are
\* no tasks to cancel yet).
LoseSetup(c) ==
    /\ pc[c] = "hello" /\ td[c] = "none"
    /\ td' = [td EXCEPT ![c] = IF writer # 0 THEN "closing" ELSE "tasks"]
    /\ shut' = (writer # 0)
    /\ target' = [target EXCEPT ![c] = conn[c]]
    /\ UNCHANGED <<pc, lock, writer, watched, closed, host, conn, job, wire, abandoned, busyAtClose>>

\* A handshake without a timeout.
HelloFailsOnEof(c) == (~Reachable \/ ~OwnsWriter(c)) /\ LoseSetup(c)

\* The handshake times out or meets the end of the stream.
HelloFails(c) == (daemon # "up" \/ ~OwnsWriter(c)) /\ LoseSetup(c)

\* The daemon is too slow, or sends no Hello, or one of another version.
HelloRejected(c) == "hello" \in Faults /\ daemon = "up" /\ LoseSetup(c)

-----------------------------------------------------------------------------
(* The daemon, and the end of a call *)

\* _run_request takes a slot of the semaphore.  Requests that rode on a
\* handshake are read after it.
JobStarts(c) ==
    /\ job[c] = "sent" /\ daemon = "up"
    /\ Cardinality({d \in Calls : job[d] = "running"}) < MaxConcurrency
    /\ job' = [job EXCEPT ![c] = "running"]
    /\ UNCHANGED <<pc, lock, link, closed, host, conn, wire, td, history>>

\* The tool returns, or is cancelled while it runs: either sends a response.
JobReplies(c) ==
    /\ job[c] = "running" /\ daemon = "up"
    /\ job' = [job EXCEPT ![c] = "replied"]
    /\ UNCHANGED <<pc, lock, link, closed, host, conn, wire, td, history>>

\* A ToolCallCancel reaches a task that still waits for its slot: there is no
\* response.
JobCancelled(c) ==
    /\ job[c] = "sent" /\ pc[c] = "cancelled" /\ daemon = "up"
    /\ job' = [job EXCEPT ![c] = "none"]
    /\ UNCHANGED <<pc, lock, link, closed, host, conn, wire, td, history>>

\* The reader resolves the future; a late response finds none.
Respond(c) ==
    /\ job[c] = "replied" /\ watched /\ writer = conn[c]
    /\ job' = [job EXCEPT ![c] = "none"]
    /\ pc' = [pc EXCEPT ![c] = IF @ = "await" THEN "idle" ELSE @]
    /\ UNCHANGED <<lock, link, closed, host, conn, wire, td, history>>

\* The caller is cancelled.  While it waits for the lock it leaves at once, and
\* while it waits for its answer it first sends a ToolCallCancel, if there is a
\* writer to send it to.  In the middle
\* of the setup, or of the teardown of one, `except Exception` does not see the
\* CancelledError: the lock is released and everything else stays as it is.
Cancel(c) ==
    /\ "cancel" \in Faults /\ pc[c] \in Setup \cup {"lock", "await"}
    /\ IF pc[c] = "await" /\ writer # 0
       THEN Send(c, "cancelling")
       ELSE pc' = [pc EXCEPT ![c] = "cancelled"] /\ UNCHANGED <<conn, job, wire>>
    /\ lock' = IF lock = c THEN Nobody ELSE lock
    /\ td' = [td EXCEPT ![c] = "none"]
    /\ abandoned' = (abandoned \/ pc[c] \in Setup)
    /\ target' = [target EXCEPT ![c] = 0]
    /\ UNCHANGED <<link, closed, host, busyAtClose>>

\* Cancelled in _send it leaves at once too.  A request that is in the buffer
\* still goes out, and `except Exception` keeps its entry in _in_flight; so does
\* a ToolCallCancel that is.
CancelSend(c) ==
    /\ "cancel" \in Faults /\ pc[c] \in Sending
    /\ pc' = [pc EXCEPT ![c] = IF draining /\ Head(line) = c THEN Broken(@) ELSE "idle"]
    /\ LeaveLine(c)
    /\ UNCHANGED <<lock, link, closed, host, conn, job, full, td, history>>

\* The daemon fails; what it had not answered is lost when it is gone.
DaemonFails(f) ==
    /\ f \in Faults \cap Failures
    /\ \/ daemon = "up"
       \/ daemon \in {"wedged", "hungup"} /\ f = "dead"
    /\ \A t \in Tasks : td[t] # "stopping"
    /\ daemon' = f
    /\ job' = IF f = "wedged" THEN job
              ELSE [c \in Calls |-> IF job[c] = "replied" THEN job[c] ELSE "none"]
    /\ UNCHANGED <<pc, lock, link, closed, spawned, hostStarted, conn, wire, td, history>>

-----------------------------------------------------------------------------
(* _fail_all, _teardown and aclose *)

\* _fail_all, up to the first await of its _teardown: every future in flight
\* gets the exception, though who is still in _send will not see it before that
\* returns.  The writer is still set and open.
FailAll ==
    /\ watched /\ ~closed /\ td[Watcher] = "none"
    /\ pc' = [c \in Calls |-> CASE pc[c] = "await" -> "idle"
                                [] pc[c] = "send" -> "failed"
                                [] OTHER -> pc[c]]
    /\ td' = [td EXCEPT ![Watcher] = "tasks"]
    /\ target' = [target EXCEPT ![Watcher] = writer]
    /\ watched' = FALSE
    /\ LeaveLine(Watcher)
    /\ UNCHANGED <<lock, writer, shut, closed, host, conn, job, full, abandoned, busyAtClose>>

\* A reader without the heartbeat beside it.
DetectEof == ~Reachable /\ FailAll

\* The reader meets the end of the stream, or the heartbeat its deadline, which
\* it looks at between two frames of its own.
DetectFailure == (~Reachable \/ (daemon = "wedged" /\ ~Beating)) /\ FailAll

\* The reader meets a malformed frame, or the event loop stalled for longer
\* than heartbeat_dead_s.
DetectGarbage == "garbage" \in Faults /\ daemon = "up" /\ FailAll

\* aclose.
Close ==
    /\ "close" \in Faults /\ ~closed
    /\ closed' = TRUE
    /\ td' = [td EXCEPT ![Closer] = "tasks"]
    /\ target' = [target EXCEPT ![Closer] = writer]
    /\ busyAtClose' = \E c \in Calls : pc[c] \in InInvoke
    /\ UNCHANGED <<pc, lock, link, host, conn, job, wire, abandoned>>

\* _teardown, once the heartbeat and the reader are cancelled: writer.close().
CloseWriter(t) ==
    /\ td[t] = "tasks" /\ writer # 0
    /\ td' = [td EXCEPT ![t] = "closing"]
    /\ shut' = TRUE /\ watched' = FALSE
    /\ LeaveLine(Watcher)
    /\ UNCHANGED <<pc, lock, writer, closed, host, conn, job, full, history>>

\* A teardown that stops the host only where there was a connection to it.
ForgetWriterOnly(t) ==
    /\ (td[t] = "closing" /\ ~full) \/ (td[t] = "tasks" /\ writer = 0)
    /\ writer' = 0 /\ shut' = FALSE
    /\ watched' = (watched /\ td[t] = "closing")
    /\ job' = [c \in Calls |-> IF conn[c] = writer THEN "none" ELSE job[c]]
    /\ IF writer # 0
       THEN StopHost(t)
       ELSE Ends({t}) /\ UNCHANGED <<daemon, hostStarted>>
    /\ UNCHANGED <<closed, spawned, conn, wire, abandoned, busyAtClose>>

\* _teardown after wait_closed, which returns when the buffer is flushed or the
\* peer is gone, or with no writer to close.  The daemon sees the end of the
\* stream and cancels that connection's tasks.
ForgetWriter(t) ==
    /\ (td[t] = "closing" /\ ~full) \/ (td[t] = "tasks" /\ writer = 0)
    /\ writer' = 0 /\ shut' = FALSE
    /\ watched' = (watched /\ td[t] = "closing")
    /\ job' = [c \in Calls |-> IF conn[c] = writer THEN "none" ELSE job[c]]
    /\ IF hostStarted
       THEN StopHost(t)
       ELSE Ends({t}) /\ UNCHANGED <<daemon, hostStarted>>
    /\ UNCHANGED <<closed, spawned, conn, wire, abandoned, busyAtClose>>

\* The process is gone: whoever awaits it in host.stop() returns.
HostStopped ==
    LET stoppers == {t \in Tasks : td[t] = "stopping"} IN
    /\ stoppers # {}
    /\ daemon' = "none" /\ hostStarted' = FALSE
    /\ Ends(stoppers)
    /\ job' = [c \in Calls |-> IF conn[c] = spawned THEN "none" ELSE job[c]]
    /\ UNCHANGED <<link, closed, spawned, conn, wire, abandoned, busyAtClose>>

-----------------------------------------------------------------------------
SetupStep(c) == StartHost(c) \/ Connect(c) \/ HelloArrives(c) \/ HelloFails(c)

CallStep(c) ==
    \/ Invoke(c) \/ TakeLock(c) \/ SetupStep(c) \/ HelloRejected(c)
    \/ Respond(c) \/ Cancel(c) \/ CancelSend(c)

DaemonStep(c) == JobStarts(c) \/ JobReplies(c) \/ JobCancelled(c)

TeardownStep(t) == CloseWriter(t) \/ ForgetWriter(t)

Next ==
    \/ \E c \in Calls : CallStep(c) \/ DaemonStep(c)
    \/ \E f \in Failures : DaemonFails(f)
    \/ Beat \/ TakeSendLock \/ Flush \/ SendBreaks
    \/ DetectFailure \/ DetectGarbage \/ Close
    \/ \E t \in Tasks : TeardownStep(t)
    \/ HostStopped

\* The event loop runs every task that is ready, the daemon reads and does its
\* work, tools end, timeouts expire and a killed process exits.  Nobody has to
\* call, cancel, close or fail.  Fairness is strong for _lock and the daemon's
\* semaphore, which asyncio hands to their waiters in order of arrival.
Fairness ==
    /\ \A c \in Calls :
         /\ SF_vars(TakeLock(c)) /\ SF_vars(JobStarts(c))
         /\ WF_vars(SetupStep(c)) /\ WF_vars(JobReplies(c)) /\ WF_vars(Respond(c))
    /\ \A t \in Tasks : WF_vars(TeardownStep(t))
    /\ WF_vars(HostStopped) /\ WF_vars(DetectFailure)
    /\ WF_vars(TakeSendLock) /\ WF_vars(Flush \/ SendBreaks)

Spec == Init /\ [][Next]_vars
FairSpec == Spec /\ Fairness

-----------------------------------------------------------------------------
(* Properties *)

\* Every variable has its type, _lock is held by the one call that sets a
\* connection up, and _send_lock, over a drain(), by a task that has a frame to
\* send.
TypeOK ==
    /\ pc \in [Calls -> InInvoke \cup {"idle", "cancelled"}]
    /\ lock \in Calls \cup {Nobody}
    /\ \A c \in Calls : pc[c] \in Setup <=> lock = c
    /\ writer \in 0..MaxDaemons /\ spawned \in 0..MaxDaemons
    /\ conn \in [Calls -> 0..MaxDaemons]
    /\ {shut, watched, closed, hostStarted, abandoned, busyAtClose, full, draining}
          \subseteq BOOLEAN
    /\ line \in Seq(Calls \cup {Watcher}) /\ IsInjective(line)
    /\ \A c \in Calls \cap Range(line) : pc[c] \in Sending
    /\ draining => full /\ line # <<>>
    /\ daemon \in {"none", "up"} \cup Failures
    /\ job \in [Calls -> {"none", "written", "sent", "running", "replied"}]
    /\ td \in [Tasks -> {"none", "tasks", "closing", "stopping"}]
    /\ target \in [Tasks -> 0..MaxDaemons]

\* Refinement: with all the calls that overlap its setups and teardowns there
\* is one daemon at a time, it is never left without somebody who starts it,
\* watches it or takes it down, and its connection and its process are both
\* gone before the next is spawned: whatever failed, the next invoke finds a
\* clean slate or a connection that is looked after.  A setup given up half
\* way, or aclose, is excepted.
Lifecycle ==
    INSTANCE DaemonLifecycle WITH
        epoch <- spawned,
        running <- daemon # "none",
        link <- writer,
        starting <- \E c \in Calls : pc[c] \in {"connect", "hello"} /\ td[c] = "none",
        serving <- watched,
        stopping <- \E t \in Tasks : td[t] # "none",
        lost <- closed \/ abandoned

OneDaemonAtATime == Lifecycle!Spec

\* A teardown never takes down a daemon younger than the one it is about, though
\* it awaits between closing the old connection and stopping the process while
\* other calls may start over: host.start() refuses until the stop is through.
TeardownSparesNewDaemon ==
    ~closed /\ ~abandoned => \A t \in Tasks : td[t] # "none" => target[t] = spawned

\* aclose with no call in `invoke` leaves no process and no connection behind,
\* even after cancelled calls left their setup half done (which is how
\* the gateway shuts down: drivers first, executors last).
QuietCloseStops ==
    closed /\ ~busyAtClose /\ (\A t \in Tasks : td[t] = "none")
        => writer = 0 /\ ~watched /\ ~hostStarted /\ ~Running

\* The daemon hangs with the buffers full: whoever sends waits in drain(), the
\* heartbeat behind it for _send_lock, its deadline unseen, and a teardown in
\* wait_closed.
Congested == full /\ daemon = "wedged"

\* A call whose request is on its way over a connection with a reader and a
\* heartbeat ends, with its answer or an exception, whatever the daemon does,
\* unless the executor is closed or the connection congested for ever.
WatchedCallEnds ==
    \A c \in Calls :
        (pc[c] \in {"send", "await"} /\ watched /\ conn[c] = writer)
            ~> (pc[c] \notin Requesting \cup {"await"} \/ closed \/ []Congested)

\* A call gets through the lock, the start, the connection and the handshake,
\* or fails: it never waits for ever before it sends its request, unless another
\* call has congested the connection for ever.
SetupEnds ==
    \A c \in Calls :
        pc[c] \in Setup \cup {"lock"} ~> (pc[c] \notin Setup \cup {"lock"} \/ []Congested)

\* What the documentation of the executor promises of every call in flight: a
\* daemon's failure is detected by the reader or the heartbeat, and
\* unblocks its caller.
EveryCallEnds == \A c \in Calls : pc[c] = "await" ~> pc[c] # "await"
=============================================================================
