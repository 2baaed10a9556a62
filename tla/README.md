# Thorn: specification, model checking and proofs

Thorn runs LLM agents as a long-lived *gateway*: notifications from forges
(GitHub, GitLab) become items of durable per-session inboxes, and per-session
*drivers* call the agent's prompt loop until every inbox is empty. This
directory holds TLA+ modules that model the parts of it where interleaving,
failure and order decide correctness, the TLC runs that check them, and TLAPS
proofs of what holds for every value of the constants. Paths below are relative
to `src/src/thorn/`; everything in the gateway runs on one asyncio event loop
unless said otherwise.

1. [Inventory](#inventory) 2. [Modules](#modules) 3. [Runs](#runs)
4. [Disagreements found](#disagreements-found) 5. [Fairness](#fairness)
6. [Proofs](#proofs) 7. [What is not modelled](#what-is-not-modelled)
8. [Plan](#plan)

## Inventory

### The path of an event

    forge --poll--> source --await on_event--> gateway --post--> session inbox
                                                  |                    |
                                                  +--submit--> scheduler/driver
                                                                 |   ^
                         provider health monitor <--ask, report--+   | tools close
                                                                 v   | items
                                                            prompt loop (agent)
                                                                 |
                                                     sandboxed tools (toolhost)

| Component | State | Operations | What is hard, and what makes it correct |
|---|---|---|---|
| **Session drivers and schedulers** `runtime/_scheduler.py` | a driver per session (`_wake`, `_stop`, `_stall_count`, its task), a semaphore and the `_closed` flag per agent | `submit`, the drain loop, a round, the progress evictor, `shutdown` with or without a deadline | Every await is a point where an item is posted, a stop requested or the task cancelled. No item is left unwatched; no permit is lost; a stop is seen; an item nobody makes progress on is evicted, but never for the provider's failure. |
| **Provider health monitor** `runtime/_provider_health.py` | `_state`, window of failures, cooldown deadline, probe slot, wake event; shared by all drivers of all agents | `wait_until_healthy`, `report_success`, `report_failure` | Waiters without a timeout, reports of rounds begun under another state, a probe that never reports. A closed breaker keeps nothing of an outage; whoever waits gets out. |
| **Durable queues, inboxes** `runtime/_queue.py`, `_inbox.py`, `_notification.py` | one file per notification in `inbox/`, `inbox/errored/`, and service queues | `post`, `update_status`, `move_to`, `delete`, `park_live`, `requeue_errored`, views by status | Files outlive the process, the index does not; the operator's command is another process. A notification is in one place, is not lost, does not come back. |
| **Two-step dispatch** `runtime/_dispatch.py` | none of its own | status first, then delete / move to the RSVP target / move to `errored/` | A crash between the steps. |
| **Service queues** `runtime/_notification_queue.py`, `_address.py` | a queue per service, handlers per kind, the address book | `drain`: handler, `CONFIRMED`, delete | At-least-once handlers; nothing in the repository calls `drain` or sets `rsvp_to` yet. |
| **In-flight index** `runtime/_in_flight_index.py` | set of external keys, memory only | add, remove, rebuild from disk | Agreement with the disk. |
| **Startup sweep** `runtime/_sweep.py` | none | finish step two of what is half done | Idempotent, and right about whatever a crash can leave. |
| **Operator's inbox commands** `_cli.py` | none | `thorn inbox park`, `requeue` | Read, check, rewrite, move, beside a gateway that may run, with no lock. |
| **GitHub source** `gateway/sources/_github.py` | `_last_modified`; the truth is GitHub's unread bits | drain at start, poll with If-Modified-Since, hand over, mark read | Activity between fetch and PATCH, lists, handoffs and PATCHes that fail, 304s, restarts. Nothing is marked read that was not handed over; nothing unread is hidden without a failure. |
| **GitLab source** `gateway/sources/_gitlab.py` | a seen set, a project-event cursor | poll to-dos, hand over, mark done | As above with local memory instead of a conditional request. |
| **Gateway** `gateway/_gateway.py` | schedulers, inboxes, started sources | start-up (rebuild, sweep, load, broker, sandbox, activate), `_handle_event`, `_dispatch_formatted`, shutdown | The duplicate check is before an await and the post after it. |
| **Focus and inbox tools** `runtime/_inbox_tools.py`, `_working_set.py`, `_todo.py`, `_todo_tools.py` | the session's working set (phase, item in focus, texts, evidence), in memory and in `session.json`; `TODO.md` | `update_focus`, `complete_focused_work`, `park_focused_work`, the to-do tools | Gates over evidence that may be of another item; item on disk and session file saved one after the other. An item is closed as handled only with what its own work earned; a claim whose session was lost can be taken up again. |
| **CLI dispatcher** `runtime/_cli_dispatcher.py` | `framework_focused_item_id` | `establish_fresh_cli_direct_focus`, the dispatcher of `thorn run` | The agent may close, park or leave the item, or focus another, before the dispatcher deletes it. |
| **Toolhost** `toolhost/_executor.py`, `_host.py`, `_server.py`, `_protocol.py` | futures of the calls in flight, writer, reader and heartbeat tasks, `_lock`, `_send_lock`, the transport's buffer, `_host_started`; one daemon process per agent with its jobs and semaphore | lazy start, handshake, `invoke`, cancellation, `_fail_all`, teardown, `aclose` | Every one of these awaits while other sessions of the agent call, and a send may wait in `drain()` for a daemon that does not read. A call that is looked after ends; a teardown stops its own daemon and no other; nothing is left running. |
| **Agent loop, history, housekeeping** `core/_loop.py`, `_housekeeping.py`, `_history.py`, `_agent.py` | the history of a session; round number, retries, repetition and progress trackers of a prompt | prompt, request, tool round, the limits, housekeeping as a sub-loop on the same history | Every request and call is an await that may raise or be cancelled. What the agent was told last is not trimmed away (its request, until it is nudged; see [Disagreements found](#disagreements-found)), what ran is recorded once, a result is returned, nobody is stopped unwarned. |
| **Policies of validation and history** `agents/*`, `core/_validation_*` | counters of one prompt | verdicts on tool calls | Sequential. |
| **Sandbox, brokers, preflight, config, heartbeat, status** `sandbox/`, `gateway/_bundled_broker.py`, ... | processes and files of other programs | start, probe, stop, parse | External behaviour. |
| **Formatter, trigger policy, routing, actors, envelopes** `gateway/_formatter.py` ... | none | an event to a prompt, a key or a drop | Pure. |
| **Runtime, store, paths, chat router, prompt assembly, forge tools** | registries, session files | load, save, render | Whole-file writes by one task. |
| **Session lock** `runtime/_lock.py` | a lock file | taken by `thorn run --resume` and `thorn chat --resume` | See [What is not modelled](#what-is-not-modelled). |

`PROJECT.json` lists every component with its status, and under `hazards` what
is hard to test in this code, line by line, with the properties that cover it.

## Modules

| Module | Models |
|---|---|
| `ProviderHealth` | The monitor: one action per operation, no await inside its lock but the wait itself. `call[c]` is where a caller stands between `wait_until_healthy` and its report. |
| `AgentScheduler` | EXTENDS `ProviderHealth`. Schedulers, drivers, semaphores, inboxes as sets of pending items, shutdown. |
| `FifoSemaphore` | The abstract promise of an agent's semaphore to its rounds: who holds it, who waits, and in which order. `AgentScheduler`'s `PermitsGoInOrder` is its `Spec`, checked and proved. |
| `NotificationDelivery` | The abstract promise of the inboxes: accepted, settled, reopened, confirmed, gone. |
| `InboxLifecycle` | Files, index, transitions, service queues, sweep, operator. Its `Delivered` is `NotificationDelivery!Spec` under the mapping `DeliveryPhase`, checked and proved; `FocusedWork` implements the same promise, which is proved. |
| `GitHubSource` | The source between GitHub's unread bits and the gateway's callback. |
| `DaemonLifecycle` | The abstract promise of an executor about its daemons: one at a time, started, connected, served, taken down. `ToolhostSession`'s `OneDaemonAtATime` is its `Spec`, checked and proved. |
| `ToolhostSession` | One agent's `DaemonToolExecutor`, its `SubprocessDaemonHost` and the daemon's request loop. |
| `FocusedWork` | Working set, focus, to-dos and the status of the items they are about. |
| `PromptLoop` | The prompts of one session on its history, with housekeeping. |
| `MC*` | Values of the constants for the runs. |
| `*_proofs` | Theorems; see [Proofs](#proofs). |

### AgentScheduler and ProviderHealth

An action is what a task does from one await that really suspends it to the
next. The places a driver can be suspended are the values of `pc`: `started`
(the task has not run yet), `yielding` (the `sleep(0)` at the head of the loop),
`idle` (`_wake.wait()`), `gate` (`wait_until_healthy`), `semaphore` (queued for
a permit), `granted` (the permit was handed to it and it has not run yet),
`prompt` (the dispatcher is awaited), `saving`, `recording` (the save of an
outage's metadata).

* `CheckInbox` is `_wake.clear()`, `prompt_pending()`, and then either the idle
  wait or the round up to its first suspension, which may be the gate, the
  semaphore or the dispatcher. `EndRound` is everything from the dispatcher's
  end to the next suspension: strikes, eviction, release of the semaphore, and
  the report if there is no save before it. `SaveDone` reports the success.
* The monitor's lock is never held over an await, so each of its operations is
  one step. The deadline is a counter of ticks; the failure window forgets any
  number of old failures when a new one is counted (`\E kept \in 0 .. failures`).
* `CheckInboxRaises` and `RoundReadRaises` are `prompt_pending()` raising, which
  the drain loop logs before it ends: `DurableQueue.list` reads files that the
  operator's command may move meanwhile.
* `FailureOverflows`: `2 ** attempt` is a Python integer of any size, and its
  product with a float raises `OverflowError` from attempt 1024 on, after the
  probe slot was freed and before anyone is woken. `OverflowAttempt` is the
  attempt at which it happens.
* A waiter that is cancelled while queued leaves the queue at its `Unwind`. asyncio's
  `release` skips a waiter that is already cancelled, where the model hands it the
  permit and lets `Unwind` hand it on; no other task can tell the two apart.
* `Shutdown` takes the snapshot of the drivers, sets their stop flag and wakes
  them; `patient` is `timeout=None`, `grace` a deadline that may expire,
  `immediate` a deadline of zero.
* `probeLost` says that a probe ended without a report (`LeaveUnreported`) and nobody has
  reported since. It is not in the code: the flag `probeInFlight` cannot tell a probe
  that is out from one that is lost, and `WaitersHaveAWaker` has to.
* `crashed` is the set of sessions whose last driver ended with an exception; it
  is not in the code, and serves `PendingIsWatched`.

### InboxLifecycle

A step is one file operation. `DurableQueue._write_atomic` writes a sidecar and
renames it, so a file changes at once; sidecars that a crash leaves are invisible
to every reader (the sweep removes those of inboxes and service queues, not those of
`errored/`). `agentOp` is the transition the event loop is in between two file
operations: the loop does not yield there, but it can die. `operatorOp` is the
operator's command, which reads (twice, merged into one step here), rewrites and moves.

What a reader of the code might not expect, and the model has: a requeue that
dies half way leaves a `pending` file in `errored/`, which no inbox lists and a
second requeue finishes; a park that dies half way leaves an `errored` file in the
inbox, which the next sweep dispatches, RSVP included; an item moved to a service
queue keeps its `handled` or `errored` status, which the sweep counts as
misplaced and leaves; nothing kicks a driver when an operator requeues an
item while the gateway runs.

### GitHubSource

`updated[t]` is the thread's stamp, `now` the last activity anywhere; a conditional
list is answered 304 exactly when nothing happened since `lastModified` (marking
a thread read is not an activity). Only the first page of the list is ever
asked for. An event is `[thread, stamp]`, which is its external key. `batch` is what
a list has left to go through; stamps differ, so `Event`, the oldest, is the order of
`_fetch_new_notifications`. The gateway's callback is `Offer` (the formatter may drop
the event, the index may know it) and, after the awaited checkout, `Deliver`; either may
raise (`HandoffFails`). `PollFails` is a poll whose list was stamped and then lost:
`_last_modified` is stored before `resp.json()`, and before `_make_raw_event` has converted
each thread, and either may raise. (The drain ends with the source where its list
raises, and forgets its stamp, so there is nothing to lose there.) A list that raises
before it has a stamp changes nothing and is not an action.
`accepted`, `unmarked` and `excused` are history: the events the callback returned for,
those of them whose PATCH failed, and the threads that a failure of their own, a lost list
or the page size left unread. An event that does not fit on a page and is fetched again later is the same
event as long as its stamp is; that is why a PATCH that failed once can
lead to a second posting much later, after a 200 brought its thread back (`PostedOnce`).

### ToolhostSession

`pc[c]` is where a caller's `invoke` is suspended: `lock`, `start`
(`host.start()`), `connect` (`_connect_socket`), `hello` (the handshake), `send` (in
`_send`, with its request), `await` (its future) or `cancelling` (in `_send`, with the
`ToolCallCancel` of a cancelled wait); `failed` is `send` after `_fail_all` has failed the
future, which the caller sees when `_send` returns. `td[t]` is where a teardown is: `tasks` (the heartbeat and the reader
are being cancelled), `closing` (`wait_closed`), `stopping` (`host.stop()`); a start
or a connection that fails goes straight to `stopping`. `writer`
is the number of the daemon that `_writer` leads to.

* `Send` is `_send` up to its first suspension. `_send_lock` is free and the buffer below
  its high-water mark: the frame is written and the event loop does not yield, not even
  between the daemon's `Hello` and the request of the caller that waited for it
  (`HelloArrives`). Otherwise the sender suspends, in `drain()` with the lock held or in
  the queue for the lock. `line` is that queue with the holder at its head, `draining`
  says that the head is in `drain()`, and `TakeSendLock` is the next sender's turn. It
  looked its writer up before it queued (`conn`), so its frame may go to one that is gone.
* `full` is the transport's buffer above its high-water mark, where a frame of a caller in
  `Large` puts it. `Flush` is the daemon reading, `SendBreaks` the end of the connection:
  either lets the sender in `drain()` go on. A daemon that hangs does neither, and the
  buffer stays as it is. Frames in the buffer are jobs in the state `written`.
* The heartbeat sends too: `Beat` is a heartbeat that does not get out at once. While it is
  in the line (`Beating`) the watchdog does not look at its deadline, so `DetectFailure` of a hung
  daemon needs `~Beating`. That it may queue for a lock whose holder is only waiting its turn
  below the mark is left out: it gets the lock in the next steps of the event loop.
* `CancelSend` is a cancellation in `_send`. `invoke` takes its entry out of `_in_flight`
  for an `Exception` only, so the entry of a cancelled sender stays; the frame that is in
  the buffer goes out, and the daemon runs a call nobody waits for.
* `FailAll` is `_fail_all` up to the first await of `_teardown`. A reader and a
  heartbeat task that fail in the same instant are one `Watcher`.
* `HostStopped` lets every task that awaits the process's end go on at once: they
  are woken by the same exit, before anybody can have spawned another process.
  The container host stops by name, in two commands, and is not modelled.
* `Cancel` in the middle of a setup releases the lock and leaves everything else
  as it is, since `_start_host_and_connect` handles `Exception` only.
* A daemon that fails is `wedged` (it neither reads nor echoes), `hungup` (its
  connection ended, its process did not) or `dead`. A write fails where the peer
  has gone or the writer was closed and has nothing left to flush. `wait_closed` returns
  when the buffer is flushed or the peer is gone (`ForgetWriter`).
* `target`, `abandoned` and `busyAtClose` are history.

### FocusedWork

An action is one tool call, one step of the dispatcher of `thorn run`, or what the rest
of the gateway does to an item's status (`Post`, `Evict`, `Requeue`; their file
operations are `InboxLifecycle`'s). A tool does not yield, but its two saves are apart:
`Record` has the save of the session fail (the working set stays in memory), or the process
die before it and the session come back from `session.json`. A text in a working set is
abstracted to the item it was given for, since what matters is whether it is
this item's. `MayFocus` are the gates of `update_focus`, in its order; an item that
is named, or the one in focus already, is the `Target`. "inspect" and "act" have the
same gates and are one phase in the run. `requeued` is history.

What a reader might not expect, and the model has: the evictor and `thorn inbox park`
leave the focus on the item they take away; `DirectEnd` deletes the oldest item its inbox
has, which in a resumed run need not be the one the command posted; nothing checks
that the item a to-do is linked to exists.

### PromptLoop

An action is the answer to a request (`TextAnswer`, `CallsAnswer`), a failed attempt
(`RequestFails`), one tool call (`RunCall`), or the end of a round (`EndRound`,
`TerminalRound`), which is everything between the last call and the next await.
`Abort` is an error or a cancellation in the middle. A node of the history is its kind and
the number of its calls; a request and a nudge (`Ask`, `Nudge`) have the number of their prompt too. When the context is too large at the end of a round,
`StartHousekeeping` puts the boundary and the request into the history and begins a
loop of its own on it; `outer` is the record of the loop that waits, `cut` and `count`
where the boundary went and how long the history was. `FinishHousekeeping` is the surgery,
`AbandonHousekeeping` an exception that `perform_housekeeping` does not catch. Whether a
round made progress and whether the context is too large are free choices, within what
`_classify_tool_round_progress` may say (`Progress`). The loop that waits for a housekeeping
resumes with its own round number and its own trackers (`Continue`, `outer`): the sub-loop's
are its own. `SumCalls` counts the calls of nodes as the cardinality of a set of pairs, node
and position, which is what makes it provable about. `held` counts the calls that
ran and were not given up, `abandoned` says that a housekeeping did not get to its
surgery; both are history.

## Runs

| Run | Question | Instance |
|---|---|---|
| `SchedulerSafety` | Are permits, waiters, pending items and types right in every interleaving, and is the semaphore a FIFO one? | 3 sessions (symmetric) of 1 agent with 1 permit, 3 items in all and 2 at most in an inbox (`FewItems`), strikes 1, all outcomes, all ways to shut down, every session may crash, overflow at the first backoff, 2 outages |
| `SchedulerLiveness` | Does every item leave, the gate open, a shutdown end? | 2 sessions, 1 item, strikes 2, all outcomes; probes end cleanly or report; shutdown with a grace period; no overflow, no crash |
| `SchedulerProbeLost` | Does the gate open when a probe's round raises? *(violated)* | 1 outage |
| `SchedulerPatientStop` | Is a stop request always seen? *(violated)* | no outage |
| `InboxRecovery` | Do crashes of either process leave the delivery promise, the index and the directories intact? | 3 notifications, 2 of one key, 1 with an RSVP whose handler may raise; 2 crashes; operator while the gateway is down |
| `InboxOperatorRace` | The same beside a running gateway. *(violated)* | no crash |
| `GitHubPolling` | What is marked read was taken; what is posted twice has a cause; what is hidden failed. | 3 threads on pages of 2, 3 activities, 2 failures of handoffs, PATCHes or lists, 1 restart |
| `GitHubLostRetry` | Is a failed handoff retried? *(violated)* | 1 activity, 1 failure |
| `ToolhostRecovery` | Is there one daemon at a time through everything (`DaemonLifecycle`), is the right one stopped, do watched calls end unless a hung daemon congests them? | 2 callers with any number of calls, one with requests larger than the buffers; 2 daemons, 1 slot in the daemon, all faults |
| `ToolhostRider` | Does every call end? *(violated)* | 2 callers, 2 daemons; handshakes may fail |
| `FocusClosing` | Is what is closed earned, what is recorded its item's own, what was lost repairable? | 1 item of the gateway, 1 of `thorn run`, 1 to-do; all phases, any evidence, any restarts; 1 failed or lost save |
| `PromptRounds` | Do history, result and warning survive limits, errors, cancellations and housekeeping? | 2 prompts of 2 rounds of 2 calls; housekeeping of 2 rounds after any round; 2 sayings (symmetric); 1 retry; protected tail of 1 node and 1 call |

Why the bounds are enough: what the properties of the scheduler talk about needs
two competitors for one permit, or one that waits while another probes; the third is
what gives the queue an order to keep, and more sessions queue up behind. Two items are
what it takes for one to be posted while the other is looked at. Two outages open the breaker and fail a
probe. In the inboxes two notifications of a key are needed to see a
duplicate, two crashes to interrupt the recovery of the first. A page of two with
three threads is the smallest that overflows while it has an order; three activities let a
thread be updated while its older event is handed over and the others overtake it.
With a page of one an event is never posted a second time after a failed PATCH.
Two callers are one that sets up or tears down and one that comes in between;
with two daemons the second one is spawned over the teardown of the first, and a
third would meet what the second did. One slot makes one job wait for another. One caller
with large requests fills the buffers, and the other one, the heartbeat or a
`ToolCallCancel` queue up behind it; with both large the second would only block again.
Two items are what it takes to carry a record from one to the other, and one of each
kind what the dispatcher can mistake; a to-do linked to an item or to nothing blocks its closing or
does not, and more of them do the same. One lost save leaves memory and disk
different, and restarts, which are not bounded, bring either back at any later time.
Two rounds of two calls are a round before and one after a housekeeping, with a
partial round at each; the second prompt finds what the first and its housekeeping left.
A third round takes more time than a run should.

`CHECK_DEADLOCK FALSE` is set where a bounded run may stop: every item posted and
closed, every scheduler shut down, `MaxPrompts` prompts over.

## Disagreements found

* **A lost probe stops the gateway** (`SchedulerProbeLost`). A round that ends in
  anything but success or `ProviderUnavailableError` reports nothing. When it was
  the probe, the slot is never freed, and all later callers wait with no timeout.
  `wait_until_healthy`'s comment says the next caller claims a fresh slot after
  the timeout.
* **A stop that is not seen** (`SchedulerPatientStop`). `_stop` is tested before
  the `sleep(0)`, `_wake` cleared after it; a stop in between leaves an idle
  driver with the flag set, and `shutdown(timeout=None)` waits for it for ever.
* **A deleted notification comes back** (`InboxOperatorRace`). `park_live`
  rewrites a file it read before; if the agent completed the item between, the file is
  created again while its key is gone from the index.
* **A failed handoff is not retried** (`GitHubLostRetry`). `_last_modified` is
  stored before the threads are handed over, so a thread left unread hides behind
  304s until something else happens, where the module says it is left "for a later poll".
  The same order hides a whole page: when the list's body does not parse, or one thread of
  it does not convert, the exception ends the poll after the stamp is stored, and no
  thread of the list is offered until there is other activity (`PollFails`, which the
  properties of `GitHubPolling` except by name). `_github.py:707-709` says "One bad event
  shouldn't poison the whole poll", and 602-605 that correctness does not depend on the stamp.
* **A caller that rides on a handshake** (`ToolhostRider`). `_adopt_streams` sets
  `_writer` before it awaits the daemon's `Hello`, so another `invoke` sends its
  request meanwhile. When the handshake fails, the connection is torn down and nobody
  fails that call's future; it has no timeout. The documentation calls the executor
  safe to share and has a failed handshake raise. (The same happens to a call made
  between `_fail_all`'s flush and `writer.close()`, and to calls in flight at `aclose`.)

Smaller ones, read in the code and not given a run:

* A failure reported by a round that began before the breaker opened frees the slot of
  a probe that is out, and a second caller becomes the probe, where `_provider_health.py`
  says at most one is in flight. The properties of `SchedulerSafety` hold all the same.
* A hung daemon is not always detected. `_executor.py:180-186` says the daemon's death is
  noticed by the reader or "by the heartbeat watchdog failing to receive an echo within
  `heartbeat_dead_s` seconds", and that frames are serialized by a lock. The heartbeat's own
  frame takes that lock (613-614), and a caller whose request does not fit in the buffers
  holds it in `drain()`. With a daemon that does not read, the watchdog never comes back to
  its deadline, the caller and all others behind it wait for ever, and so does a
  teardown or `aclose` in `wait_closed` (`Congested`; `WatchedCallEnds` and `SetupEnds`
  except it, and without the exception `ToolhostRecovery` violates both).
* A caller cancelled in `_send` leaves its entry in `_in_flight`: the clean-up
  (`_executor.py:274`) is for `Exception`. Its request runs, and its response finds a
  future nobody awaits.
* A structured prompt can lose its request. `_history.py:1077-1079` protects the most recent
  `UserPromptNode` "so the agent doesn't lose sight of what it was asked to do". The
  nudge after an answer in words is such a node too (`_loop.py:587`), so from then on
  the nudge is protected and a housekeeping may cut the request away. `OwnPromptSurvives`
  says what is left of the promise; `PromptRounds` violates it without its second
  disjunct, by a nudge, a call and a housekeeping.
* `_working_set_diagnostics` (`_working_set.py:366-372`) reports a working set with both a
  validation and a rationale for none. `update_focus` drops the validation when
  it is given a rationale, but keeps the rationale when it is given a validation, so a second
  closeout of the same item gets there. `FocusedWork` has that state; `WorkingSetSound` does
  not call it unsound, since every gate accepts it.
* `make_cli_prompt_dispatcher` answers the oldest item of its inbox; its docstring
  says exactly one notification is posted, which a resumed session with an old item breaks.
* `TODO.md` with malformed YAML raises `yaml.YAMLError`, where `_todo.py:342` and
  `_agent.py:813` handle `ValueError`: every prompt of the session fails until its
  item is evicted.
* Activity between the list and the PATCH of its thread is marked read with what was
  handed over, where `_make_external_key` (`_github.py:442-445`) says of two versions of a
  thread that the agent sees both items. `ReadOnlyOnHandoff` says how far that goes: what is
  marked unseen is younger than the list.
* `append_turn` provides for rounds that break off with some of their results
  (`_history.py:873-874`); no caller records one (`Abort` in `PromptLoop`).

## Fairness

* *Scheduler.* The event loop runs every ready task: `WF(DriverStep(s))` for each
  session. Clocks advance: `WF(Time)`, `WF(GraceExpires(a))`. A dispatcher ends:
  `WF(DispatcherEnds(s))`; its model calls have timeouts and its tool rounds a
  bound. Nothing is assumed of *how* it ends, of `Deliver`, or of the agent
  closing anything; asyncio's semaphore is FIFO by construction, in the model too.
* *Inbox.* `WF` of what each process does once it has begun; `SF(Start)`, because
  while the gateway is down the operator's command can disable its start again
  and again in the run where the two exclude each other, and does not do so for ever.
* *GitHub.* `WF(SourceStep)`: the source polls for ever and a gateway that ended
  is started again. None for GitHub's or the agent's actions.
* *Toolhost.* `WF` of every task's next step, of the daemon's work on a job and
  of the detection of a daemon that failed, all of which have a timeout or are run by the
  event loop; `SF(TakeLock)` and `SF(JobStarts)`, since asyncio's lock and
  semaphore serve in order of arrival. `_send_lock` needs no such thing: its queue is in the
  model (`line`), and `WF(TakeSendLock)` serves it in order. `WF(Flush \/ SendBreaks)`: a daemon
  that is up reads, and a transport notices the end of its peer; nothing empties the
  buffer of a daemon that hangs. Tools end: nothing in the code bounds them.
  A bad handshake, a malformed frame, failures, cancellations and `aclose` have none.
* *Focus and prompts.* None: nothing obliges an agent to close an item or a provider to
  answer, and what their limits promise is stated as invariants. `ClaimIsRepairable` says
  that no gate stands in the way of a repair, not that an agent makes it.

## Proofs

All proofs are for any number of sessions, agents, permits, items, strikes and
any cooldowns, callers, daemons, notifications, threads, page sizes, limits and retries,
under the named assumptions of the modules (`MonitorAssumption`, `SchedulerAssumption`,
`ToolhostAssumption`, `InboxAssumption`, `NoOpAssumption`, `SourceAssumption`,
`FocusAssumption`, `PromptAssumption`), which TLC evaluates in every run.

* `ProviderHealth_proofs!MonitorCorrect`: the inductive invariant of the monitor's protocol
  `MonitorSpec` is its types, `HealthyIsClean`, and `WaitersHaveAWaker` in two halves: who
  waits without a timeout finds the slot taken, or the backoff at its overflow
  (`WaitersAwaitTheSlot`), and a taken slot is that of a probe that is out, or of one that
  was lost (`SlotIsAProbes`). `WaitersHaveAWaker` alone is not inductive: it says nothing of the
  slot, which is what a new caller looks at, and that a closed breaker has no
  probe out is what keeps `report_success` from leaving waiters behind.
* `AgentScheduler_proofs!SchedulerUsesMonitor`: every behaviour of the scheduler is
  one of `MonitorSpec`, so the two invariants carry over. That is a refinement whose
  mapping is the identity on the monitor's variables.
* `PermitsAreAccountedFor`, `NoPermitIsIdle`: a step of the scheduler is one of six
  steps of the semaphore (`SemaphoreSteps`), and for those the inductive invariant is
  `SemInv`: types, the accounting, no idle permit, and `Queues`, which says that
  whoever is in a queue waits for it and is in it once, and the other way round. Without
  it the head of a queue might be a task that already holds a permit.
* `RoundsTakeTurns` (`PermitsGoInOrder`): the scheduler implements `FifoSemaphore`, where the
  permits of the code, counted, handed on and returned, are the set of tasks that hold them.
  From `SemInv`: the accounting turns a free permit into room among the holders, `NoIdlePermit`
  and `Queues` turn a queue into one behind a full semaphore (`SameCount`, `OnlyWaitersWait`),
  and a task that is cancelled in the queue leaves the others in their order
  (`WithoutKeepsOrder`).
* `AgentDrain_proofs!TypesHold`: the types, with `permits \in 0 .. Concurrency`
  following from the accounting.
* `PendingItemsAreWatched`: by `WatchInv`, which adds `StopsMeanClosing`: only a
  shutdown stops or cancels a driver, and it leaves the scheduler closed.
* `RoundsAreForWork`, `NoRoundIsForNothing`: what `EveryItemLeaves` leaves to fairness. Nobody
  waits for the monitor or a permit, and no round runs, for an empty inbox (`RoundsHaveWork`).
  And a round that ends with its driver alive took out an item it had before it, counted a
  strike, or met an outage, while strikes are forgiven for nothing only where the evictor finds
  the provider degraded (`RoundCounts`, an action property). The second part needs
  `OldestFirst`: what came in while a round ran is younger than what it began with, so the
  oldest item, which the evictor takes, is one of the round's own (`VictimWasThere`).
* `OutagesNeverEvict`: an action property; a step that counts an outage is an
  `EndRound` with that outcome, which leaves the strikes alone or resets them.
* `ToolhostSession_proofs!TeardownsSpareNewDaemons`, `SettledExecutorsAgree`: by
  `SessionInv`, which describes every phase in between: a watched connection is whole
  and nobody sets up or tears down (`WatchedIsWhole`), a call that sets up is alone
  with the writer (`SetupIsAlone`), and while the Watcher is stopping a process,
  callers get as far as `host.start()`, which refuses (`WatcherTeardown`). It holds
  while the executor is open and no setup was cancelled half way; both are for good
  (`DisturbedStays`), which makes the implication inductive.
  No run checks `SettledAgrees` by itself; `ToolhostRecovery` checks the refinement below.
* `DaemonsComeOneAtATime` (`OneDaemonAtATime`): the session implements `DaemonLifecycle` while it
  is open and no setup was given up. A setup that fails is one step of a lock, three flags and
  a task that stops the host, and the lifecycle has one thing to say of it: the daemon is being
  taken down. `SetupStands`, `OneSetup` and `StoppingIsAlone` are what `SessionInv` says of
  the stages, in the terms of the mapping.
* `QuietClosesStop`: needs no such condition; by `HostInv` and the stages of an
  `aclose` that nobody but the Watcher disturbs (`QuietClose`).

* `RoundsAreBounded`: the sessions in a round, counted by the holders of permits, are at
  most `Concurrency` per agent; the accounting of `SemInv`, read as a bound.
* `DriversMatchTheirCalls`: the two modules agree on every driver. It is between the gate
  and its report (`LetThrough`) exactly while the monitor counts it as let through, and at
  the gate exactly while the monitor has it waiting or woken. A step moves its own driver
  from one side to the other and may only wake or hand a permit to the rest (`Bystander`).
* `WaitersAwaitAProbe`: under the assumption that no probe ends without a report
  (`ProbesReport`) a taken slot belongs to a driver that is still on its way (`ProbeInv`), so
  that nobody waits for a report that will not come. `SchedulerProbeLost` is what happens
  without the assumption: the theorem says that it is all that is missing, as
  `WaitersHaveAWaker` says it of the monitor (`probeLost`).
* `StopsReachEveryDriver`, `StoppedDriversLeave`: what a shutdown leaves for fairness to do. A
  closed scheduler has no driver without the stop request and, past the deadline, none that
  is not being cancelled (`StopReachesAll`); it gains no driver, and one that was told to stop
  begins no other turn of its loop (`DriversOnlyLeave`, an action property). So
  `ShutdownReturns` is only about drivers that are leaving: each ends the turn it is in.
* `CallsStayAttended` (an action property of the toolhost, from `SessionInv`): a call that
  sends or awaits, over a connection with a reader and a heartbeat, keeps both until it
  ends. The calls that `ToolhostRider` shows to be stranded never had them. On a
  congested connection the two are there and see nothing, so this is no promise that
  the call ends.
* `TypeOK` of the toolhost rests on `LineTyped`: nobody is in the queue for `_send_lock` twice,
  every call in it is sending, and the lock is held over a `drain()` only by somebody. The
  queue is a sequence, so what joining it, leaving it in the middle and moving up do is
  said by three lemmas (`AppendQueue`, `RemoveQueue`, `TailQueue`). A step of the line
  changes nothing else of the session (`LineMoves`, `LineKeeps`), which is why the other
  invariants do not mention it.

* `InboxLifecycle_proofs`, whatever the operator's command overlaps: `TypeOK`, `RsvpAnswered`
  and `NoKeyIsPhantom`. `AnswersInv` says that only an item whose handler returned is marked
  confirmed, or was asked about and is gone, and it needs to know of an operation that
  confirms that its handler is through (`Answers`); overwriting a file, or having it in two
  directories, does not disturb this. `NoKeyIsPhantom` is the half of what `DurableQueue`
  says of its index that `InboxOperatorRace` does not refute.
* `InboxLifecycle_proofs`, while the command does not run beside a gateway
  (`~OperatorOverlaps`; `InboxOperatorRace` shows the need): `OneHome`, `IndexMatchesDisk`
  and the refinement `FilesDeliver` (`Delivered`). `InboxInv` says of every notification
  where it may be and what it may be there (`Sound`), that no key is in two files
  (`UniqueKeys`: without it deleting one file would drop the key of another from the
  index), that one process is at work (`Alone`), and that what an operation has read is
  still on disk (`AgentPlaced`, `HandlerPlaced`, `OperatorPlaced`). For the refinement
  every file operation changes the phase of at most one notification, by a step
  `NotificationDelivery` allows.
* `SettledIsInHand`, under the same condition: a settled item is in an inbox only while the
  gateway is down, has its sweep before it or is about to dispatch it, or if the target of its
  RSVP is unknown (`SettledInHand`). The dispatch's own steps are the hard part: it is between
  an item's confirmation and its removal that a crash can leave one behind. That
  the sweep comes to an end is what `SettledLeavesInbox` adds.
* `GitHubSource_proofs`: `TypeOK`, `HiddenOnlyByFailure`, `ReadOnlyOnHandoff`, `PostedOnce`.
  `SourceInv` adds that no event is younger than its thread (`Dated`), that while a 304
  would hide them all unread threads are excused or in the batch (`Covered`; a list that is lost
  excuses the threads it was to hand over), what is known of
  the event in hand at each stage (`Current`), and that,
  before the first crash, what was taken is marked read, superseded, or `unmarked` (`Settled`).
  That a PATCH hides nothing the list could have shown (the last part of `ReadOnlyOnHandoff`)
  needs that whatever is in a batch is its thread's last, or older than an activity that came
  after the list (`Fresh`). `UnreadIsInReach` is the core of `ActivityIsTaken`: an
  unread thread is in the batch or on the next list, unless a failure excuses it (`Covered`).
  `QuietMeansRead`: where the threads fit on a page, which is a fact about the cardinality of
  those that are listed before one (`PageIsAll`), and nothing has failed, no list either, nobody is excused
  and a 304 hides nothing, restarts included.
* `FocusedWork_proofs`: its state properties are inductive together (`FocusInv`), the
  lemmas are about what a record keeps; `HandledIsEarned` is proved step by step from it.
  `FocusDelivers` is the refinement of `NotificationDelivery`: open is `pending` or
  `in_progress`, handled is `handled` or already deleted, and every tool, eviction and requeue
  moves one item by a step that promise allows. `NoGateLocksOut` (`ClaimIsRepairable`): an
  `update_focus` that names the item and overrides passes the gates from any state, and what is in
  focus gets to closeout by a rationale, where `WorkingSetSound` has evidence in it.
* `PromptLoop_proofs`: an invariant for each question. `StallInv` ties the
  warning to the streak it belongs to; `ResultInv` says that a captured result ends
  the prompt at its first opportunity; `HistoryInv` says where the newest request or nudge of the
  prompt is while a loop runs and, during a housekeeping, that it is below the boundary
  (`Waiting`). That the cut is above it (`CutIsAbove`) is a fact about the least protected
  index. `OwnPromptIsNeverCut` is what follows: of a nudged prompt it is the nudge that survives.
* `NoCallIsLost` (`NothingIsLost`): by `CountInv` over `HistoryInv`, `CallsInv` and `RepeatInv`.
  What a housekeeping cuts away, keeps and sums up are parts of one history, so the proof is
  about calls of a concatenation (`CallsAddUp`, `CallsSplit`, `CallsAppended`), which are
  bijections between sets of pairs, by the library's theorems on finite cardinalities. A
  sum by recursion over the sequence would have needed an induction the provers cannot do.
* `TypeCorrect` (`TypeOK` of `PromptLoop`), the limits: of calls to run (`CallsInv`), retries
  (`TriesInv`), repetitions (`RepeatInv`), rounds and rounds without progress (`StreakInv`:
  a streak is no longer than the rounds run), of the running loop and of the one that waits.
  The attempt showed that an earlier version of the model let a resumed loop go on with the
  trackers of its housekeeping, which `run_agent_loop` does not.

Only model-checked: liveness (`EveryItemLeaves`, `GateOpens`, `ShutdownReturns`,
`SettledLeavesInbox`, `ActivityIsTaken`, `WatchedCallEnds`, `SetupEnds`), which needs ENABLED.
Each has a safety core that is proved: what a fair step finds, and cannot lose. These are
`NoRoundIsForNothing` with `PendingItemsAreWatched`, `WaitersAwaitAProbe`,
`StopsReachEveryDriver`, `SettledIsInHand`, `UnreadIsInReach`, `CallsStayAttended` (short of a congested connection) and, for a setup,
`DaemonsComeOneAtATime`. Every invariant and every safety property of the passing runs is
proved.

## What is not modelled

Most of the repository's lines are not control that steps can interleave on: the
command line, rendering and folding of texts, parsing of configuration, forge APIs,
container engines, brokers and evaluation harnesses. They are why the modules
stand for a small share of the lines. The reason for each component is in `PROJECT.json`. In particular:

* *GitLab source.* The same loop as GitHub's with a seen set in memory: an id enters it
  after the handoff returned, and a to-do whose mark-as-done fails is not marked
  again by this process; project events start from a baseline. It is the next module to write.
* *Session lock.* `thorn run --resume` (`_cli.py:1997`) and `thorn chat --resume`
  (`_cli.py:2356`) load the session before they take the lock and save it after they
  released it, and the file is unlinked after the unlock. What follows depends on
  `flock` and `unlink` of the operating system more than on this code.
* *Validation and action policies*: sequential counters of one prompt, hundreds of rules on texts.
* *Toolhost*: MCP servers, output chunks, `auto_restart=False`, call ids given out twice, the end
  of the brain's process, which leaves a daemon that serves nobody; the container host.
* *Inboxes*: the format of the files; logging and status counters; fresh arrivals in
  service queues and items another claimant has in progress.
* *GitHub*: what of a payload becomes the text of an event. That it may raise is `PollFails`.
* *Focus*: `update_inbox_item`, which is outside the default tools; the read-only tools; what
  `TODO.md` looks like.
* *Prompts*: compaction and folding, which shorten texts; the rules by which a round
  counts as progress; housekeeping at shutdown; telemetry.

## Plan

1. *(done)* `ProviderHealth`, `AgentScheduler`; `NotificationDelivery`,
   `InboxLifecycle`; `GitHubSource`; `ToolhostSession`; `FocusedWork`; `PromptLoop`; their
   proofs.
2. `GitLabSource`: the seen set and the event cursor.
3. `Gateway`: start-up and handoff over `InboxLifecycle`'s operations and
   `AgentScheduler`'s `Submit`, so that what is posted while the gateway starts is
   picked up; an abstract specification that `FocusedWork` and `InboxLifecycle` share.
4. Proofs: that the validation of one prompt is not older than its last edit, once the policies
   are modelled; the refinement of `NotificationDelivery` by the composition of item 3.
