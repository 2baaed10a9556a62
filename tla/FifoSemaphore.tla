--------------------------- MODULE FifoSemaphore ---------------------------
(***************************************************************************)
(* What the schedulers promise about their rounds, with no word of drivers *)
(* or outages: each semaphore is held by at most Size tasks, who finds one *)
(* taken waits for it in a queue, and who waits longest is the next to     *)
(* hold it.  AgentScheduler implements this.                               *)
(***************************************************************************)
EXTENDS Naturals, Sequences, FiniteSets

CONSTANTS
    Tasks,
    Semaphores,
    SemaphoreOf,    \* the semaphore each task competes for
    Size

VARIABLES
    holders,        \* the tasks that hold the semaphore they compete for
    queue           \* who waits for each of the semaphores, in order of arrival

HoldersOf(a) == {t \in holders : SemaphoreOf[t] = a}

Waits(t) == \E i \in 1 .. Len(queue[SemaphoreOf[t]]) : queue[SemaphoreOf[t]][i] = t

Init ==
    /\ holders = {}
    /\ queue = [a \in Semaphores |-> <<>>]

\* Who comes while there is room is in.
Enter(t) ==
    /\ t \notin holders /\ ~Waits(t)
    /\ Cardinality(HoldersOf(SemaphoreOf[t])) < Size
    /\ queue[SemaphoreOf[t]] = <<>>
    /\ holders' = holders \union {t}
    /\ UNCHANGED queue

\* Who comes when there is none goes to the end of the queue.
Wait(t) ==
    /\ t \notin holders /\ ~Waits(t)
    /\ Cardinality(HoldersOf(SemaphoreOf[t])) = Size
    /\ queue' = [queue EXCEPT ![SemaphoreOf[t]] = Append(@, t)]
    /\ UNCHANGED holders

\* Who leaves makes room for the first of those who wait.
Leave(t) ==
    LET q == queue[SemaphoreOf[t]] IN
    /\ t \in holders
    /\ IF q = <<>>
       THEN /\ holders' = holders \ {t}
            /\ UNCHANGED queue
       ELSE /\ holders' = (holders \ {t}) \union {Head(q)}
            /\ queue' = [queue EXCEPT ![SemaphoreOf[t]] = Tail(q)]

\* q without its k-th entry.
Removing(q, k) == [j \in 1 .. Len(q) - 1 |-> IF j < k THEN q[j] ELSE q[j + 1]]

\* Who waits gives up, and nobody behind loses or gains a place but by that.
GiveUp(t) ==
    \E k \in 1 .. Len(queue[SemaphoreOf[t]]) :
       /\ queue[SemaphoreOf[t]][k] = t
       /\ queue' = [queue EXCEPT ![SemaphoreOf[t]] = Removing(@, k)]
       /\ UNCHANGED holders

Next == \E t \in Tasks : Enter(t) \/ Wait(t) \/ Leave(t) \/ GiveUp(t)

Spec == Init /\ [][Next]_<<holders, queue>>
=============================================================================
