--------------------------- MODULE InboxLifecycle ---------------------------
(***************************************************************************)
(* The life of a notification on disk: DurableQueue, SessionInbox, the     *)
(* two-step handling dispatch, the drain of a service queue, the in-flight *)
(* index, the startup sweep, and the operator's `thorn inbox park` and     *)
(* `requeue` (runtime/_queue.py, _inbox.py, _dispatch.py,                  *)
(* _notification_queue.py, _in_flight_index.py, _sweep.py, _cli.py).       *)
(*                                                                         *)
(* A notification is one file: file[d][n] is the status in it, or "absent" *)
(* when directory d has no such file.  A file is replaced, moved or        *)
(* unlinked atomically, by one of two processes: the gateway, whose event  *)
(* loop runs a transition from its first read to its last file operation   *)
(* without yielding, and the operator's command.  Either can die between   *)
(* any two file operations.                                                *)
(***************************************************************************)
EXTENDS Naturals, FiniteSets

CONSTANTS
    Items,              \* notifications, each with the ULID it would get
    Keys, KeyOf,        \* external_key of each
    RsvpItems,          \* those with rsvp_to set to the service queue
    ServiceRegistered,  \* the address book resolves that queue
    OperatorOverlaps,   \* the command is used while the gateway runs
    NoOp,               \* no transition under way
    MaxCrashes          \* bound: crashes of the gateway

ASSUME InboxAssumption ==
    /\ KeyOf \in [Items -> Keys]
    /\ RsvpItems \subseteq Items
    /\ ServiceRegistered \in BOOLEAN
    /\ OperatorOverlaps \in BOOLEAN
    /\ MaxCrashes \in Nat

VARIABLES
    file,       \* the directories' contents
    index,      \* InFlightIndex, in the gateway's memory
    posted,     \* notifications ever posted
    gateway,    \* "down", "starting" or "up"
    unswept,    \* items the startup sweep has yet to look at
    agentOp,    \* transition the gateway's event loop is in
    handling,   \* item whose RSVP handler is awaited
    answered,   \* history: items whose RSVP handler has returned
    operatorOp, \* what the operator's command is doing
    crashes     \* crashes so far, for MaxCrashes

vars == <<file, index, posted, gateway, unswept, agentOp, handling, answered,
          operatorOp, crashes>>
\* What the drain of the service queue keeps.
drain == <<handling, answered>>

Dirs == {"inbox", "errored", "service"}
PromptPending == {"pending", "in_progress"}
Terminal == {"handled", "errored"}
Statuses == PromptPending \union Terminal \union {"confirmed"}
AgentOps == [item : Items, to : Statuses, stage : {"read", "written"}]
OperatorOps ==
    [item : Items, does : {"park", "requeue"}, stage : {"read", "written"}]

ASSUME NoOpAssumption == NoOp \notin Items \union AgentOps \union OperatorOps

TypeOK ==
    /\ file \in [Dirs -> [Items -> Statuses \union {"absent"}]]
    /\ index \subseteq Keys
    /\ posted \subseteq Items
    /\ gateway \in {"down", "starting", "up"}
    /\ unswept \subseteq Items
    /\ agentOp \in AgentOps \union {NoOp}
    /\ handling \in Items \union {NoOp}
    /\ answered \subseteq Items
    /\ operatorOp \in OperatorOps \union {NoOp}
    /\ crashes \in 0 .. MaxCrashes

Has(d, n) == file[d][n] # "absent"
OnDisk(n) == \E d \in Dirs : Has(d, n)
KeysOnDisk == {KeyOf[n] : n \in {m \in Items : OnDisk(m)}}

Init ==
    /\ file = [d \in Dirs |-> [n \in Items |-> "absent"]]
    /\ index = {}
    /\ posted = {}
    /\ gateway = "down"
    /\ unswept = {}
    /\ agentOp = NoOp
    /\ handling = NoOp
    /\ answered = {}
    /\ operatorOp = NoOp
    /\ crashes = 0

-----------------------------------------------------------------------------
\* DurableQueue.  A write replaces or creates the file.
Write(d, n, status) == file' = [file EXCEPT ![d][n] = status]

\* move_to: KeyError, and no change, when there is no such file to move.
MoveTo(from, n, to) ==
    IF Has(from, n)
    THEN file' = [file EXCEPT ![from][n] = "absent", ![to][n] = file[from][n]]
    ELSE UNCHANGED file

\* delete without telling the index.
DeleteSilently(d, n) == Write(d, n, "absent") /\ UNCHANGED index

Delete(d, n) ==
    IF Has(d, n)
    THEN Write(d, n, "absent") /\ index' = index \ {KeyOf[n]}
    ELSE UNCHANGED <<file, index>>

\* A post that tells the index the notification's id, not its external_key.
PostIndexingId(n) ==
    /\ gateway = "up"
    /\ agentOp = NoOp
    /\ n \notin posted
    /\ KeyOf[n] \notin index
    /\ posted' = posted \union {n}
    /\ Write("inbox", n, "pending")
    /\ index' = index \union {n}
    /\ UNCHANGED <<gateway, unswept, agentOp, operatorOp, drain, crashes>>

\* An event of key KeyOf[n] reaches the gateway and is not a duplicate.
Post(n) ==
    /\ gateway = "up"
    /\ agentOp = NoOp
    /\ n \notin posted
    /\ KeyOf[n] \notin index
    /\ posted' = posted \union {n}
    /\ Write("inbox", n, "pending")
    /\ index' = index \union {KeyOf[n]}
    /\ UNCHANGED <<gateway, unswept, agentOp, operatorOp, drain, crashes>>

-----------------------------------------------------------------------------
\* dispatch_step_two that deletes a handled item whether or not somebody
\* asked for an answer.
StepTwoForgettingRsvp(n, status) ==
    IF status = "handled" THEN Delete("inbox", n)
    ELSE MoveTo("inbox", n, "errored") /\ UNCHANGED index

\* dispatch_step_two; an unresolved RSVP raises DispatchError.
StepTwo(n, status) ==
    IF n \in RsvpItems
    THEN /\ IF ServiceRegistered THEN MoveTo("inbox", n, "service")
                                 ELSE UNCHANGED file
         /\ UNCHANGED index
    ELSE IF status = "handled" THEN Delete("inbox", n)
    ELSE MoveTo("inbox", n, "errored") /\ UNCHANGED index

\* apply_handling_transition, by the agent's tools or the progress evictor:
\* the checks, the rewrite of the file, then step two of a terminal status.
BeginTransition(n, to) ==
    /\ gateway = "up"
    /\ agentOp = NoOp
    /\ file["inbox"][n] \in PromptPending
    /\ agentOp' = [item |-> n, to |-> to, stage |-> "read"]
    /\ UNCHANGED <<file, index, posted, gateway, unswept, operatorOp, drain, crashes>>

WriteTransition ==
    /\ agentOp \in AgentOps
    /\ agentOp.stage = "read"
    /\ Write("inbox", agentOp.item, agentOp.to)
    /\ agentOp' = IF agentOp.to \in Terminal
                  THEN [agentOp EXCEPT !.stage = "written"] ELSE NoOp
    /\ UNCHANGED <<index, posted, gateway, unswept, operatorOp, drain, crashes>>

DispatchTransition ==
    /\ agentOp \in AgentOps
    /\ agentOp.stage = "written"
    /\ IF agentOp.to = "confirmed"
       THEN Delete("service", agentOp.item)
       ELSE StepTwo(agentOp.item, agentOp.to)
    /\ agentOp' = NoOp
    /\ UNCHANGED <<posted, gateway, unswept, operatorOp, drain, crashes>>

\* NotificationQueue.drain, one item at a time: the RSVP handler of a terminal
\* item is awaited ...
CallHandler(n) ==
    /\ gateway = "up"
    /\ agentOp = NoOp
    /\ handling = NoOp
    /\ file["service"][n] \in Terminal
    /\ handling' = n
    /\ UNCHANGED <<file, index, posted, gateway, unswept, agentOp, answered,
                   operatorOp, crashes>>

\* ... and if it returns, the queue marks the item confirmed before it deletes
\* it (DispatchTransition).
HandlerReturns ==
    /\ handling \in Items
    /\ agentOp = NoOp
    /\ answered' = answered \union {handling}
    /\ Write("service", handling, "confirmed")
    /\ agentOp' = [item |-> handling, to |-> "confirmed", stage |-> "written"]
    /\ handling' = NoOp
    /\ UNCHANGED <<index, posted, gateway, unswept, operatorOp, crashes>>

\* A drain that confirms the item whatever became of its handler.
HandlerRaisesUnnoticed ==
    /\ handling \in Items
    /\ agentOp = NoOp
    /\ Write("service", handling, "confirmed")
    /\ agentOp' = [item |-> handling, to |-> "confirmed", stage |-> "written"]
    /\ handling' = NoOp
    /\ UNCHANGED <<index, posted, gateway, unswept, answered, operatorOp, crashes>>

\* The handler raises: the item is left for the next drain.
HandlerRaises ==
    /\ handling \in Items
    /\ agentOp = NoOp
    /\ handling' = NoOp
    /\ UNCHANGED <<file, index, posted, gateway, unswept, agentOp, answered,
                   operatorOp, crashes>>

-----------------------------------------------------------------------------
\* The gateway's process dies: memory is lost, files are not.
Crash ==
    /\ gateway # "down"
    /\ crashes < MaxCrashes
    /\ crashes' = crashes + 1
    /\ gateway' = "down"
    /\ agentOp' = NoOp
    /\ unswept' = {}
    /\ index' = {}
    /\ handling' = NoOp
    /\ UNCHANGED <<file, posted, answered, operatorOp>>

\* A rebuild that does not walk errored/.
RebuiltFromLiveOnly ==
    {KeyOf[n] : n \in {m \in Items : Has("inbox", m) \/ Has("service", m)}}

\* rebuild_in_flight_index, which also reads errored/.
Rebuilt == KeysOnDisk

Start ==
    /\ gateway = "down"
    /\ OperatorOverlaps \/ operatorOp = NoOp
    /\ gateway' = "starting"
    /\ index' = Rebuilt
    /\ unswept' = Items
    /\ UNCHANGED <<file, posted, agentOp, operatorOp, drain, crashes>>

\* A sweep that leaves alone what it finds half done in the inboxes.
SweepItemInServices(n) ==
    /\ gateway = "starting"
    /\ n \in unswept
    /\ unswept' = unswept \ {n}
    /\ IF file["service"][n] = "confirmed" THEN Delete("service", n)
       ELSE UNCHANGED <<file, index>>
    /\ UNCHANGED <<posted, gateway, agentOp, operatorOp, drain, crashes>>

\* run_startup_sweep: finishes step two of what is terminal in an inbox or
\* confirmed in a service queue, and leaves the rest where it is.
SweepItem(n) ==
    /\ gateway = "starting"
    /\ n \in unswept
    /\ unswept' = unswept \ {n}
    /\ IF file["inbox"][n] \in Terminal THEN StepTwo(n, file["inbox"][n])
       ELSE IF file["service"][n] = "confirmed" THEN Delete("service", n)
       ELSE UNCHANGED <<file, index>>
    /\ UNCHANGED <<posted, gateway, agentOp, operatorOp, drain, crashes>>

FinishStartup ==
    /\ gateway = "starting"
    /\ unswept = {}
    /\ gateway' = "up"
    /\ UNCHANGED <<file, index, posted, unswept, agentOp, operatorOp, drain, crashes>>

-----------------------------------------------------------------------------
\* The operator's command, a process of its own with no index.
OperatorMay == operatorOp = NoOp /\ (OperatorOverlaps \/ gateway = "down")

\* park_live / requeue_errored: get and check ...
BeginPark(n) ==
    /\ OperatorMay
    /\ file["inbox"][n] \in PromptPending
    /\ operatorOp' = [item |-> n, does |-> "park", stage |-> "read"]
    /\ UNCHANGED <<file, index, posted, gateway, unswept, agentOp, drain, crashes>>

BeginRequeue(n) ==
    /\ OperatorMay
    /\ Has("errored", n)
    /\ operatorOp' = [item |-> n, does |-> "requeue", stage |-> "read"]
    /\ UNCHANGED <<file, index, posted, gateway, unswept, agentOp, drain, crashes>>

\* ... rewrite the file where it is ...
OperatorWrites ==
    /\ operatorOp \in OperatorOps
    /\ operatorOp.stage = "read"
    /\ IF operatorOp.does = "park"
       THEN Write("inbox", operatorOp.item, "errored")
       ELSE Write("errored", operatorOp.item, "pending")
    /\ operatorOp' = [operatorOp EXCEPT !.stage = "written"]
    /\ UNCHANGED <<index, posted, gateway, unswept, agentOp, drain, crashes>>

\* requeue that copies the file instead of moving it.
OperatorCopies ==
    /\ operatorOp \in OperatorOps
    /\ operatorOp.stage = "written"
    /\ IF operatorOp.does = "park"
       THEN Write("errored", operatorOp.item, "errored")
       ELSE Write("inbox", operatorOp.item, "pending")
    /\ operatorOp' = NoOp
    /\ UNCHANGED <<index, posted, gateway, unswept, agentOp, drain, crashes>>

\* ... and move it to the other directory.
OperatorMoves ==
    /\ operatorOp \in OperatorOps
    /\ operatorOp.stage = "written"
    /\ IF operatorOp.does = "park"
       THEN MoveTo("inbox", operatorOp.item, "errored")
       ELSE MoveTo("errored", operatorOp.item, "inbox")
    /\ operatorOp' = NoOp
    /\ UNCHANGED <<index, posted, gateway, unswept, agentOp, drain, crashes>>

OperatorDies ==
    /\ operatorOp # NoOp
    /\ operatorOp' = NoOp
    /\ UNCHANGED <<file, index, posted, gateway, unswept, agentOp, drain, crashes>>

-----------------------------------------------------------------------------
GatewayStep ==
    \/ WriteTransition \/ DispatchTransition
    \/ Start \/ FinishStartup
    \/ \E n \in Items : SweepItem(n)

OperatorStep == OperatorWrites \/ OperatorMoves \/ OperatorDies

Next ==
    \/ GatewayStep \/ OperatorStep \/ Crash \/ HandlerReturns \/ HandlerRaises
    \/ \E n \in Items :
          \/ Post(n) \/ CallHandler(n) \/ BeginPark(n) \/ BeginRequeue(n)
          \/ \E to \in {"in_progress", "handled", "errored"} : BeginTransition(n, to)

Spec == Init /\ [][Next]_vars

\* The gateway is started again when it is down, however often the command is
\* used meanwhile, and neither process stops in the middle of what it does but
\* by dying.
FairSpec ==
    /\ Spec
    /\ SF_vars(Start)
    /\ WF_vars(GatewayStep)
    /\ WF_vars(OperatorStep)

-----------------------------------------------------------------------------
\* A notification is in one directory at a time, whatever dies between the
\* rewrite of its file and the move.
OneHome ==
    \A n \in Items : \A d, e \in Dirs : Has(d, n) /\ Has(e, n) => d = e

\* "at no point can the index claim a key is in flight when no file exists, or
\* claim a key is absent while a file for it still exists" (DurableQueue,
\* lines 97-99): a process that is up dedupes against what is on disk.
IndexMatchesDisk == gateway # "down" => index = KeysOnDisk

\* What is half done when a process dies is finished by the next start: no
\* settled item stays in an inbox, unless its RSVP target is unknown.
SettledLeavesInbox ==
    \A n \in Items :
        file["inbox"][n] \in Terminal /\ (n \in RsvpItems => ServiceRegistered)
            ~> file["inbox"][n] \notin Terminal

\* The promise of NotificationDelivery, read off the files: a terminal status
\* counts as soon as it is written, wherever the file is; what lies in
\* errored/ is errored until the move that takes it back.
DeliveryPhase(n) ==
    IF Has("errored", n) THEN "errored"
    ELSE IF file["inbox"][n] \in PromptPending THEN "open"
    ELSE IF Has("inbox", n) THEN file["inbox"][n]
    ELSE IF Has("service", n) THEN file["service"][n]
    ELSE IF n \in posted THEN "gone" ELSE "unposted"

\* Who asked for an RSVP is told: its notification is confirmed, or leaves the
\* disk, only after the handler of its queue has returned in some life of the
\* gateway.
RsvpAnswered ==
    \A n \in RsvpItems : DeliveryPhase(n) \in {"confirmed", "gone"} => n \in answered

Delivery == INSTANCE NotificationDelivery
    WITH phase <- [n \in Items |-> DeliveryPhase(n)]

\* Accepted notifications stay open until somebody settles them, and go away
\* only when they are handled or confirmed: every step of the files is a step
\* of NotificationDelivery or none.
Delivered == Delivery!Spec
=============================================================================
