--------------------------- MODULE DaemonLifecycle ---------------------------
(***************************************************************************)
(* What an executor promises about its daemons, with no word of locks,     *)
(* calls or tasks: there is one at a time, somebody is always starting it, *)
(* looking after it or taking it down, and the next is spawned when        *)
(* nothing of it is left.  ToolhostSession implements this.                *)
(***************************************************************************)
EXTENDS Naturals

VARIABLES
    epoch,      \* how many daemons there have been
    running,    \* the last has a process that is not accounted for yet
    link,       \* the daemon the connection leads to, or 0
    starting,   \* it is being connected and greeted
    serving,    \* the connection is looked after, and takes calls
    stopping,   \* connection and process are being taken down
    lost        \* closed, or given up: nothing is promised any more

Init ==
    /\ epoch = 0 /\ link = 0
    /\ ~running /\ ~starting /\ ~serving /\ ~stopping /\ ~lost

\* A daemon is spawned where nothing is left of an earlier one.
Spawn ==
    /\ ~running /\ link = 0 /\ ~stopping
    /\ epoch' = epoch + 1
    /\ running' = TRUE /\ starting' = TRUE
    /\ UNCHANGED <<link, serving, stopping>>

Connect ==
    /\ starting /\ link = 0
    /\ link' = epoch
    /\ UNCHANGED <<epoch, running, starting, serving, stopping>>

Serve ==
    /\ starting /\ link = epoch
    /\ starting' = FALSE /\ serving' = TRUE
    /\ UNCHANGED <<epoch, running, link, stopping>>

\* A start that fails, or a connection that does, is taken down ...
Break ==
    /\ starting \/ serving
    /\ starting' = FALSE /\ serving' = FALSE /\ stopping' = TRUE
    /\ UNCHANGED <<epoch, running, link>>

\* ... first the connection ...
Disconnect ==
    /\ stopping /\ link # 0
    /\ link' = 0
    /\ UNCHANGED <<epoch, running, starting, serving, stopping>>

\* ... and then the process; both at once where it has exited by itself, and
\* with no more ado if it did before it was connected.
Stop ==
    /\ stopping \/ (starting /\ link = 0)
    /\ running' = FALSE /\ link' = 0
    /\ starting' = FALSE /\ stopping' = FALSE
    /\ UNCHANGED <<epoch, serving>>

Next ==
    \/ /\ ~lost /\ UNCHANGED lost
       /\ Spawn \/ Connect \/ Serve \/ Break \/ Disconnect \/ Stop
    \/ lost' = TRUE

Spec == Init /\ [][Next]_<<epoch, running, link, starting, serving, stopping, lost>>
=============================================================================
