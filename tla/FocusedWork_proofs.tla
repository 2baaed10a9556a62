------------------------- MODULE FocusedWork_proofs -------------------------
(***************************************************************************)
(* The safety of focused work for any number of items and to-dos, any      *)
(* phases and texts: every property FocusClosing checks, and the promise   *)
(* of NotificationDelivery as far as the tools keep it.                    *)
(***************************************************************************)
EXTENDS FocusedWork, TLAPS

USE FocusAssumption DEF FocusAssumption

FocusInv == TypeOK /\ OwnRecords /\ WorkingSetSound /\ FocusIsClaimed /\ DirectFocusReleased

Evidence == {"none", "validation", "rationale"}

-----------------------------------------------------------------------------
\* A record for item n is a working set about n, and nothing of another item
\* gets into it (Focused, the carry-over of update_focus).
LEMMA FocusedIsOwn ==
    ASSUME NEW phase \in Phases, NEW n \in Items, NEW given, NEW evidence \in Evidence,
           memory \in WorkingSets, OwnRecords
    PROVE  /\ Focused(phase, n, given, evidence) \in WorkingSets
           /\ Focused(phase, n, given, evidence).phase = phase
           /\ Focused(phase, n, given, evidence).item = n
           /\ Focused(phase, n, given, evidence).blocker = (phase = "blocked")
           /\ {Focused(phase, n, given, evidence).objective,
               Focused(phase, n, given, evidence).action,
               Focused(phase, n, given, evidence).validation,
               Focused(phase, n, given, evidence).rationale} \subseteq {None, n}
<1>1. /\ Kept(n) \in WorkingSets
      /\ {Kept(n).objective, Kept(n).action, Kept(n).validation, Kept(n).rationale}
           \subseteq {None, n}
  <2>1. CASE memory.item = n /\ memory.phase # "intake"
    BY <2>1 DEF Kept, OwnRecords
  <2>2. CASE ~(memory.item = n /\ memory.phase # "intake")
    BY <2>2 DEF Kept, Intake, WorkingSets, Maybe
  <2>. QED  BY <2>1, <2>2
<1>. DEFINE kept == Kept(n)
            o == IF "objective" \in given THEN n ELSE kept.objective
            a == IF "action" \in given THEN n ELSE kept.action
            v == CASE evidence = "validation" -> n
                   [] evidence = "rationale" -> None
                   [] OTHER -> kept.validation
            r == IF evidence = "rationale" THEN n ELSE kept.rationale
<1>2. Focused(phase, n, given, evidence) =
        [phase |-> phase, item |-> n, objective |-> o, action |-> a,
         validation |-> v, rationale |-> r, blocker |-> (phase = "blocked")]
  BY DEF Focused
<1>3. /\ kept.objective \in {None, n} /\ kept.action \in {None, n}
      /\ kept.validation \in {None, n} /\ kept.rationale \in {None, n}
  BY <1>1
<1>. HIDE DEF kept
<1>4. /\ o \in {None, n} /\ a \in {None, n} /\ r \in {None, n}
      /\ v \in {None, n}
  BY <1>3
<1>5. n \in Maybe /\ None \in Maybe /\ (phase = "blocked") \in BOOLEAN
  BY DEF Maybe
<1>. HIDE DEF o, a, v, r
<1>. QED  BY <1>2, <1>4, <1>5 DEF WorkingSets

\* What Record leaves: the new working set, or one of the old ones.
LEMMA Recorded ==
    ASSUME TypeOK, NEW ws \in WorkingSets, Record(ws)
    PROVE  /\ memory' \in {ws, saved} /\ saved' \in {ws, saved}
           /\ memory' \in WorkingSets /\ saved' \in WorkingSets
           /\ framework' = framework \/ framework' = None
           /\ losses' \in 0 .. MaxLosses
BY DEF Record, Lose, TypeOK

\* The target of an update_focus that passes its gates.
LEMMA TargetIsItem ==
    ASSUME TypeOK, NEW phase \in Phases, NEW named \in Maybe, NEW given, NEW evidence,
           MayFocus(phase, named, Target(named), given, evidence)
    PROVE  Target(named) \in Items
<1>1. Target(named) \in Maybe /\ Target(named) # None
  BY DEF TypeOK, WorkingSets, Target, MayFocus
<1>. QED  BY <1>1 DEF Maybe

LEMMA IntakeIsWorkingSet == Intake \in WorkingSets
BY DEF Intake, WorkingSets, Maybe

-----------------------------------------------------------------------------
\* A step of update_focus claims an item and records a working set about it,
\* with evidence if it is in closeout.
UpdatesFocus ==
    \E phase \in Phases \ {"intake"}, n \in Items, given \in Texts, evidence \in Evidence :
       /\ status[n] \in PromptPending
       /\ phase = "closeout" => HasEvidence(Focused(phase, n, given, evidence))
       /\ Claim(n)
       /\ Record(Focused(phase, n, given, evidence))
       /\ UNCHANGED todos

LEMMA FocusSteps ==
    ASSUME TypeOK,
           NEW phase \in Phases \ {"intake"}, NEW named \in Maybe, NEW given \in Texts,
           NEW evidence \in Evidence, UpdateFocus(phase, named, given, evidence)
    PROVE  UpdatesFocus
<1>1. Target(named) \in Items
  BY TargetIsItem DEF UpdateFocus
<1>2. /\ status[Target(named)] \in PromptPending
      /\ phase = "closeout" =>
           HasEvidence(Focused(phase, Target(named), given, evidence))
  BY DEF UpdateFocus, MayFocus
<1>3. /\ Claim(Target(named)) /\ UNCHANGED todos
      /\ Record(Focused(phase, Target(named), given, evidence))
  BY DEF UpdateFocus
<1>. QED  BY <1>1, <1>2, <1>3 DEF UpdatesFocus

\* What an action may do to the working sets, whatever it is: leave them,
\* reset them, load the saved one, or record one for an item it has claimed.
Recordings ==
    {ws \in WorkingSets :
       /\ ws.phase # "intake" /\ ws.item \in Items
       /\ ws.blocker = (ws.phase = "blocked")
       /\ {ws.objective, ws.action, ws.validation, ws.rationale} \subseteq {None, ws.item}
       /\ ws.phase = "closeout" => HasEvidence(ws)
       /\ status'[ws.item] = "in_progress"}

LEMMA WorkingSetsMove ==
    ASSUME TypeOK, OwnRecords, [Next]_vars
    PROVE  /\ memory' \in {memory, saved, Intake} \union Recordings
           /\ saved' \in {memory, saved, Intake} \union Recordings
<1>. USE DEF sessionVars
<1>1. CASE UpdatesFocus
  <2>1. PICK phase \in Phases \ {"intake"}, n \in Items, given \in Texts, evidence \in Evidence :
          /\ phase = "closeout" => HasEvidence(Focused(phase, n, given, evidence))
          /\ Claim(n)
          /\ Record(Focused(phase, n, given, evidence))
    BY <1>1 DEF UpdatesFocus
  <2>2. status'[n] = "in_progress"
    BY <2>1 DEF Claim, TypeOK
  <2>3. Focused(phase, n, given, evidence) \in Recordings
    BY <2>1, <2>2, FocusedIsOwn DEF Recordings, TypeOK
  <2>4. Focused(phase, n, given, evidence) \in WorkingSets
    BY <2>3 DEF Recordings
  <2>. QED  BY <2>1, <2>3, <2>4, Recorded
<1>2. CASE ClearFocus \/ Complete \/ Park
  BY <1>2, IntakeIsWorkingSet, Recorded DEF ClearFocus, Complete, Park, Close
<1>3. ASSUME NEW n \in Items, DirectFocus(n)
      PROVE  memory' \in Recordings /\ saved' = saved
  <2>1. status'[n] = "in_progress"
    BY <1>3 DEF DirectFocus, Claim, TypeOK
  <2>2. memory' = Focused("inspect", n, {"objective"}, "none") /\ saved' = saved
    BY <1>3 DEF DirectFocus
  <2>3. "inspect" \in Phases /\ "none" \in Evidence
    BY DEF Evidence
  <2>. QED  BY <2>1, <2>2, <2>3, FocusedIsOwn DEF Recordings, TypeOK
<1>4. CASE TodoTool \/ SaveSession \/ Restart \/ UNCHANGED vars
  BY <1>4 DEF TodoTool, ResolveTodo, CreateTodo, RelinkTodo, WriteTodo,
              SaveSession, Restart, vars
<1>5. ASSUME NEW n \in Items, DirectEnd(n) \/ Post(n) \/ Evict(n) \/ Requeue(n)
      PROVE  memory' \in {memory, Intake} /\ saved' = saved
  BY <1>5 DEF DirectEnd, Post, Evict, Requeue
<1>. QED
  BY <1>1, <1>2, <1>3, <1>4, <1>5, FocusSteps DEF Next, FocusTool, Evidence

-----------------------------------------------------------------------------
\* Types.
LEMMA TypesStep ==
    ASSUME TypeOK, OwnRecords, [Next]_vars
    PROVE  TypeOK'
<1>. USE DEF sessionVars
<1>1. memory' \in WorkingSets /\ saved' \in WorkingSets
  BY WorkingSetsMove, IntakeIsWorkingSet DEF TypeOK, Recordings
<1>. DEFINE OthersTyped ==
              /\ status' \in [Items -> Statuses] /\ requeued' \subseteq Items
              /\ framework' \in DirectItems \union {None} /\ losses' \in 0 .. MaxLosses
              /\ todos' \in [Todos -> [state : {"none", "open", "resolved"},
                                       link : Links \union {None}]]
<1>2. OthersTyped
  <2>1. CASE UpdatesFocus
    <3>1. PICK phase \in Phases \ {"intake"}, n \in Items, given \in Texts, evidence \in Evidence :
            Claim(n) /\ Record(Focused(phase, n, given, evidence)) /\ UNCHANGED todos
      BY <2>1 DEF UpdatesFocus
    <3>2. Focused(phase, n, given, evidence) \in WorkingSets
      BY FocusedIsOwn DEF TypeOK
    <3>. QED  BY <3>1, <3>2, Recorded DEF Claim, TypeOK, Statuses, PromptPending
  <2>2. CASE ClearFocus
    BY <2>2, IntakeIsWorkingSet, Recorded DEF ClearFocus, TypeOK
  <2>3. CASE Complete \/ Park
    <3>1. \E to \in {"handled", "errored"} : Close(to)
      BY <2>3 DEF Complete, Park
    <3>2. memory.item \in Items
      BY <3>1 DEF Close, TypeOK, WorkingSets, Maybe
    <3>. QED
      BY <3>1, <3>2, IntakeIsWorkingSet, Recorded DEF Close, TypeOK, Statuses
  <2>4. CASE TodoTool
    BY <2>4 DEF TodoTool, ResolveTodo, CreateTodo, RelinkTodo, WriteTodo, TypeOK
  <2>5. CASE SaveSession \/ Restart \/ UNCHANGED vars
    BY <2>5 DEF SaveSession, Restart, vars, TypeOK
  <2>6. ASSUME NEW n \in Items, DirectFocus(n) \/ DirectEnd(n)
        PROVE  OthersTyped
    BY <2>6 DEF DirectFocus, DirectEnd, Claim, TypeOK, Statuses, PromptPending
  <2>7. ASSUME NEW n \in Items, Post(n) \/ Evict(n) \/ Requeue(n)
        PROVE  OthersTyped
    BY <2>7 DEF Post, Evict, Requeue, TypeOK, Statuses, PromptPending
  <2>. QED
    BY <2>1, <2>2, <2>3, <2>4, <2>5, <2>6, <2>7, FocusSteps DEF Next, FocusTool, Evidence
<1>. QED  BY <1>1, <1>2 DEF TypeOK

LEMMA OwnRecordsStep ==
    ASSUME TypeOK, OwnRecords, [Next]_vars
    PROVE  OwnRecords'
<1>1. ASSUME NEW ws \in {memory', saved'}
      PROVE  {ws.objective, ws.action, ws.validation, ws.rationale} \subseteq {None, ws.item}
  <2>1. ws \in {memory, saved, Intake} \union Recordings
    BY WorkingSetsMove
  <2>. QED  BY <2>1 DEF OwnRecords, Intake, Recordings
<1>. QED  BY <1>1 DEF OwnRecords

LEMMA WorkingSetSoundStep ==
    ASSUME TypeOK, OwnRecords, WorkingSetSound, [Next]_vars
    PROVE  WorkingSetSound'
<1>1. ASSUME NEW ws \in {memory', saved'}
      PROVE  /\ ws.phase = "intake" <=> ws.item = None
             /\ ws.phase = "blocked" <=> ws.blocker
             /\ ws.phase = "closeout" => HasEvidence(ws)
  <2>1. ws \in {memory, saved, Intake} \union Recordings
    BY WorkingSetsMove
  <2>2. CASE ws \in Recordings
    BY <2>2 DEF Recordings
  <2>3. CASE ws \in {memory, saved, Intake}
    BY <2>3 DEF WorkingSetSound, Intake
  <2>. QED  BY <2>1, <2>2, <2>3
<1>. QED  BY <1>1 DEF WorkingSetSound, HasEvidence

\* The status of an item nobody recorded in the step: it is not taken back to
\* pending but by requeue, and never back to unposted.
LEMMA ClaimsStay ==
    ASSUME TypeOK, OwnRecords, [Next]_vars, NEW m \in Items, status[m] # "unposted",
           status[m] = "pending" => m \in requeued
    PROVE  /\ status'[m] # "unposted"
           /\ status'[m] = "pending" => m \in requeued'
<1>. USE DEF TypeOK, sessionVars
<1>1. CASE UpdatesFocus
  BY <1>1 DEF UpdatesFocus, Claim
<1>2. CASE ClearFocus \/ TodoTool \/ SaveSession \/ Restart \/ UNCHANGED vars
  BY <1>2 DEF ClearFocus, TodoTool, ResolveTodo, CreateTodo, RelinkTodo, WriteTodo,
              SaveSession, Restart, vars
<1>3. CASE Complete \/ Park
  BY <1>3 DEF Complete, Park, Close
<1>4. ASSUME NEW n \in Items, DirectFocus(n) \/ DirectEnd(n)
      PROVE  /\ status'[m] # "unposted"
             /\ status'[m] = "pending" => m \in requeued'
  BY <1>4 DEF DirectFocus, DirectEnd, Claim
<1>5. ASSUME NEW n \in Items, Post(n) \/ Evict(n) \/ Requeue(n)
      PROVE  /\ status'[m] # "unposted"
             /\ status'[m] = "pending" => m \in requeued'
  BY <1>5 DEF Post, Evict, Requeue
<1>. QED
  BY <1>1, <1>2, <1>3, <1>4, <1>5, FocusSteps DEF Next, FocusTool, Evidence

LEMMA FocusIsClaimedStep ==
    ASSUME TypeOK, OwnRecords, FocusIsClaimed, [Next]_vars
    PROVE  FocusIsClaimed'
<1>1. ASSUME NEW ws \in {memory', saved'}, ws.item # None
      PROVE  /\ status'[ws.item] # "unposted"
             /\ status'[ws.item] = "pending" => ws.item \in requeued'
  <2>1. ws \in {memory, saved, Intake} \union Recordings
    BY WorkingSetsMove
  <2>2. CASE ws \in Recordings
    BY <2>2 DEF Recordings
  <2>3. CASE ws \in {memory, saved}
    <3>1. ws.item \in Items
      BY <1>1, <2>3 DEF TypeOK, WorkingSets, Maybe
    <3>2. /\ status[ws.item] # "unposted"
          /\ status[ws.item] = "pending" => ws.item \in requeued
      BY <1>1, <2>3 DEF FocusIsClaimed
    <3>. QED  BY <3>1, <3>2, ClaimsStay
  <2>4. CASE ws = Intake
    BY <1>1, <2>4 DEF Intake
  <2>. QED  BY <2>1, <2>2, <2>3, <2>4
<1>. QED  BY <1>1 DEF FocusIsClaimed

\* The framework's focus goes with the item it deletes.
LEMMA DirectFocusReleasedStep ==
    ASSUME TypeOK, OwnRecords, DirectFocusReleased, [Next]_vars
    PROVE  DirectFocusReleased'
<1>. USE DEF sessionVars, DirectFocusReleased, TypeOK
<1>1. CASE UpdatesFocus
  <2>1. PICK phase \in Phases \ {"intake"}, n \in Items, given \in Texts, evidence \in Evidence :
          Claim(n) /\ Record(Focused(phase, n, given, evidence))
    BY <1>1 DEF UpdatesFocus
  <2>2. /\ Focused(phase, n, given, evidence) \in WorkingSets
        /\ Focused(phase, n, given, evidence).item = n
    BY FocusedIsOwn
  <2>3. framework' = framework \/ framework' = None
    BY <2>1, <2>2, Recorded
  <2>4. memory' = Focused(phase, n, given, evidence) \/ framework' = None
    BY <2>1 DEF Record
  <2>5. status'[n] = "in_progress"
    BY <2>1 DEF Claim
  <2>. QED  BY <2>2, <2>3, <2>4, <2>5
<1>2. CASE ClearFocus \/ Complete \/ Park
  <2>1. Record(Intake)
    BY <1>2 DEF ClearFocus, Complete, Park, Close
  <2>. QED  BY <2>1 DEF Record, Intake
<1>3. CASE TodoTool \/ SaveSession \/ Restart \/ UNCHANGED vars
  BY <1>3 DEF TodoTool, ResolveTodo, CreateTodo, RelinkTodo, WriteTodo,
              SaveSession, Restart, vars
<1>4. ASSUME NEW n \in Items, DirectFocus(n)
      PROVE  DirectFocusReleased'
  BY <1>4 DEF DirectFocus, Claim
<1>5. ASSUME NEW n \in Items, DirectEnd(n)
      PROVE  DirectFocusReleased'
  BY <1>5 DEF DirectEnd, Intake
<1>6. ASSUME NEW n \in Items, Post(n) \/ Evict(n) \/ Requeue(n)
      PROVE  DirectFocusReleased'
  BY <1>6 DEF Post, Evict, Requeue
<1>. QED
  BY <1>1, <1>2, <1>3, <1>4, <1>5, <1>6, FocusSteps DEF Next, FocusTool, Evidence

-----------------------------------------------------------------------------
LEMMA FocusInit == Init => FocusInv
BY IntakeIsWorkingSet
   DEF Init, FocusInv, TypeOK, OwnRecords, WorkingSetSound, FocusIsClaimed,
       DirectFocusReleased, Intake, HasEvidence, Statuses

LEMMA FocusStep == FocusInv /\ [Next]_vars => FocusInv'
BY TypesStep, OwnRecordsStep, WorkingSetSoundStep, FocusIsClaimedStep,
   DirectFocusReleasedStep DEF FocusInv

\* The inductive invariant of every behaviour (update_focus, the closing tools,
\* the dispatcher of `thorn run`, lost saves and restarts).
LEMMA FocusInvHolds == Spec => []FocusInv
BY FocusInit, FocusStep, PTL DEF Spec

\* Types: an update_focus that passes its gates always has an item, and a
\* framework's focus is one of `thorn run`.
THEOREM TypesHold == Spec => []TypeOK
BY FocusInvHolds, PTL DEF FocusInv

\* No objective, action or evidence of one item gets to another one, by any
\* sequence of tools, failed saves and restarts (carry_existing).
THEOREM RecordsAreOwn == Spec => []OwnRecords
BY FocusInvHolds, PTL DEF FocusInv

\* Phase, focus, blocker and evidence of a working set agree
\* (_working_set_diagnostics).
THEOREM WorkingSetsAreSound == Spec => []WorkingSetSound
BY FocusInvHolds, PTL DEF FocusInv

\* The claim is on disk before the focus is (apply_handling_transition before
\* _save_session_after_focus_change).
THEOREM FocusIsAlwaysClaimed == Spec => []FocusIsClaimed
BY FocusInvHolds, PTL DEF FocusInv

\* `thorn run` leaves no focus of its own on an item it deleted
\* (_reset_framework_focus).
THEOREM DirectFocusIsReleased == Spec => []DirectFocusReleased
BY FocusInvHolds, PTL DEF FocusInv

-----------------------------------------------------------------------------
\* What one step may make of an item that is not handled.
Earned ==
    \A n \in Items :
       status[n] # "handled" /\ status'[n] = "handled" =>
          /\ memory.item = n
          /\ n \in {memory.validation, memory.rationale}
          /\ OpenFor(n) = {}

LEMMA EarnedStep ==
    ASSUME FocusInv, Next
    PROVE  Earned
<1>. USE DEF FocusInv, TypeOK, sessionVars
<1>1. CASE UpdatesFocus
  BY <1>1 DEF UpdatesFocus, Claim, Earned
<1>2. CASE ClearFocus \/ TodoTool \/ SaveSession \/ Restart
  BY <1>2 DEF ClearFocus, TodoTool, ResolveTodo, CreateTodo, RelinkTodo, WriteTodo,
              SaveSession, Restart, Earned
<1>3. CASE Complete
  <2>1. memory.item \in {memory.validation, memory.rationale}
    BY <1>3 DEF Complete, Close, HasEvidence, OwnRecords
  <2>2. OpenFor(memory.item) = {} /\ status' = [status EXCEPT ![memory.item] = "handled"]
    BY <1>3 DEF Complete, Close
  <2>. QED  BY <2>1, <2>2 DEF Earned
<1>4. CASE Park
  BY <1>4 DEF Park, Close, Earned
<1>5. ASSUME NEW n \in Items, DirectFocus(n) \/ DirectEnd(n)
      PROVE  Earned
  BY <1>5 DEF DirectFocus, DirectEnd, Claim, Earned
<1>6. ASSUME NEW n \in Items, Post(n) \/ Evict(n) \/ Requeue(n)
      PROVE  Earned
  BY <1>6 DEF Post, Evict, Requeue, Earned
<1>. QED
  BY <1>1, <1>2, <1>3, <1>4, <1>5, <1>6, FocusSteps DEF Next, FocusTool, Evidence

\* What is handled had its own evidence and no open to-do
\* (_handled_gate_error, _linked_todo_blocking_error).
THEOREM HandledIsAlwaysEarned == Spec => HandledIsEarned
<1>1. FocusInv /\ Next => Earned
  BY EarnedStep
<1>. QED  BY <1>1, FocusInvHolds, PTL DEF Spec, HandledIsEarned, Earned

-----------------------------------------------------------------------------
(* The promise of NotificationDelivery, as the agent's tools keep it.      *)

\* What has become of n: what `thorn run` deletes had its prompt.
DeliveryPhase(n) ==
    CASE status[n] \in PromptPending         -> "open"
      [] status[n] \in {"handled", "deleted"} -> "handled"
      [] OTHER                               -> status[n]

Delivery == INSTANCE NotificationDelivery
    WITH phase <- [n \in Items |-> DeliveryPhase(n)],
         KeyOf <- [n \in Items |-> n], RsvpItems <- {}

Promised == [n \in Items |-> DeliveryPhase(n)]

\* Where the status of one item goes, what is promised goes with it.
LEMMA StatusMoves ==
    ASSUME TypeOK, NEW n \in Items, NEW to \in Statuses,
           status' = [status EXCEPT ![n] = to],
           \/ status[n] = "unposted" /\ to = "pending"
           \/ status[n] \in PromptPending /\ to # "unposted"
           \/ status[n] = "errored" /\ to = "pending"
    PROVE  [Delivery!Next]_Promised
<1>. USE DEF PromptPending
<1>. DEFINE is == DeliveryPhase(n)'
<1>1. \A m \in Items : status'[m] = IF m = n THEN to ELSE status[m]
  BY DEF TypeOK
<1>2. Promised' = [Promised EXCEPT ![n] = is] /\ Promised[n] = DeliveryPhase(n)
  <2>1. \A m \in Items : m # n => DeliveryPhase(m)' = DeliveryPhase(m)
    BY <1>1 DEF DeliveryPhase
  <2>. QED  BY <2>1 DEF Promised
<1>. HIDE DEF is
<1>3. \A m \in Items : Promised[m] = DeliveryPhase(m)
  BY DEF Promised
<1>4. CASE status[n] = "unposted"
  <2>1. DeliveryPhase(n) = "unposted" /\ is = "open"
    BY <1>1, <1>4 DEF DeliveryPhase, is
  <2>2. \A m \in Items : Delivery!InFlight(m) => m # n
    BY <1>2, <2>1 DEF Delivery!InFlight, Promised
  <2>3. Delivery!Accept(n)
    BY <1>2, <2>1, <2>2 DEF Delivery!Accept, Delivery!Becomes, Promised
  <2>. QED  BY <2>3 DEF Delivery!Next
<1>5. CASE status[n] \in PromptPending
  <2>1. DeliveryPhase(n) = "open" /\ is \in {"open", "handled", "errored"}
    BY <1>1, <1>5 DEF DeliveryPhase, Statuses, is
  <2>2. CASE is = "open"
    BY <1>2, <2>1, <2>2 DEF Promised
  <2>3. CASE is # "open"
    <3>1. Delivery!Settle(n)
      BY <1>2, <2>1, <2>3 DEF Delivery!Settle, Delivery!Becomes, Promised
    <3>. QED  BY <3>1 DEF Delivery!Next
  <2>. QED  BY <2>2, <2>3
<1>6. CASE status[n] = "errored"
  <2>1. DeliveryPhase(n) = "errored" /\ is = "open"
    BY <1>1, <1>6 DEF DeliveryPhase, is
  <2>2. Delivery!Reopen(n)
    BY <1>2, <2>1 DEF Delivery!Reopen, Delivery!Becomes, Promised
  <2>. QED  BY <2>2 DEF Delivery!Next
<1>. QED  BY <1>4, <1>5, <1>6

LEMMA FocusDeliversStep ==
    ASSUME TypeOK, [Next]_vars
    PROVE  [Delivery!Next]_Promised
<1>. USE DEF Statuses, PromptPending, sessionVars
<1>0. CASE UNCHANGED status
  BY <1>0 DEF Promised, DeliveryPhase
<1>1. CASE UpdatesFocus
  BY <1>1, StatusMoves DEF UpdatesFocus, Claim
<1>2. CASE Complete \/ Park
  <2>1. PICK to \in {"handled", "errored"} : Close(to)
    BY <1>2 DEF Complete, Park
  <2>2. PICK n \in Items : n = memory.item
    BY <2>1 DEF Close, TypeOK, WorkingSets, Maybe
  <2>. QED  BY <2>1, <2>2, StatusMoves DEF Close
<1>3. ASSUME NEW n \in Items,
             DirectFocus(n) \/ DirectEnd(n) \/ Post(n) \/ Evict(n) \/ Requeue(n)
      PROVE  [Delivery!Next]_Promised
  <2>1. CASE DirectEnd(n) /\ status[n] \notin PromptPending
    BY <1>0, <2>1 DEF DirectEnd
  <2>2. CASE DirectEnd(n) /\ status[n] \in PromptPending
    BY <2>2, StatusMoves DEF DirectEnd
  <2>3. CASE DirectFocus(n)
    BY <2>3, StatusMoves DEF DirectFocus, Claim
  <2>4. CASE Post(n)
    BY <2>4, StatusMoves DEF Post
  <2>5. CASE Evict(n)
    BY <2>5, StatusMoves DEF Evict
  <2>6. CASE Requeue(n)
    BY <2>6, StatusMoves DEF Requeue
  <2>. QED  BY <1>3, <2>1, <2>2, <2>3, <2>4, <2>5, <2>6
<1>4. CASE ClearFocus \/ TodoTool \/ SaveSession \/ Restart \/ UNCHANGED vars
  <2>1. UNCHANGED status
    BY <1>4 DEF ClearFocus, TodoTool, ResolveTodo, CreateTodo, RelinkTodo,
                WriteTodo, SaveSession, Restart, vars
  <2>. QED  BY <1>0, <2>1
<1>. QED
  BY <1>1, <1>2, <1>3, <1>4, FocusSteps DEF Next, FocusTool, Evidence

\* The tools, the dispatcher of `thorn run` and the operator's commands settle
\* what is open and nothing else, once, and only a requeue opens it again: with
\* saves that fail and restarts they implement NotificationDelivery.
THEOREM FocusDelivers == Spec => Delivery!Spec
<1>1. Init => Promised = [n \in Items |-> "unposted"]
  BY DEF Init, Promised, DeliveryPhase, PromptPending
<1>2. Init => Delivery!Init
  BY <1>1 DEF Delivery!Init, Promised
<1>3. FocusInv /\ [Next]_vars => [Delivery!Next]_[n \in Items |-> DeliveryPhase(n)]
  BY FocusDeliversStep DEF FocusInv, Promised
<1>. QED  BY <1>2, <1>3, FocusInvHolds, PTL DEF Spec, Delivery!Spec

-----------------------------------------------------------------------------
\* Every item that is still open can be taken in hand and, once it is in
\* focus, brought to closeout: the gates ask for nothing that a lost save, a
\* restart or an earlier claim can have put out of the agent's reach.
THEOREM NoGateLocksOut == Spec => []ClaimIsRepairable
<1>1. TypeOK /\ WorkingSetSound => ClaimIsRepairable
  <2>. SUFFICES ASSUME TypeOK, WorkingSetSound,
                       NEW n \in Items, status[n] \in PromptPending
                PROVE  /\ MayFocus("inspect", n, n, {"objective", "override"}, "none")
                       /\ memory.item = n =>
                             /\ MayFocus("closeout", None, n, {"objective"}, "rationale")
                             /\ memory.phase = "closeout" => HasEvidence(memory)
    BY DEF ClaimIsRepairable
  <2>1. n # None
    BY FocusAssumption
  <2>2. MayFocus("inspect", n, n, {"objective", "override"}, "none")
    BY <2>1 DEF MayFocus
  <2>3. ASSUME memory.item = n
        PROVE  /\ MayFocus("closeout", None, n, {"objective"}, "rationale")
               /\ memory.phase = "closeout" => HasEvidence(memory)
    <3>1. memory.phase # "intake"
      BY <2>1, <2>3 DEF WorkingSetSound
    <3>2. /\ Focused("closeout", n, {"objective"}, "rationale").objective = n
          /\ Focused("closeout", n, {"objective"}, "rationale").rationale = n
      BY DEF Focused
    <3>. QED
      BY <2>1, <2>3, <3>1, <3>2 DEF MayFocus, HasEvidence, WorkingSetSound
  <2>. QED  BY <2>2, <2>3
<1>2. FocusInv => TypeOK /\ WorkingSetSound
  BY DEF FocusInv
<1>. QED  BY <1>1, <1>2, FocusInvHolds, PTL
=============================================================================
