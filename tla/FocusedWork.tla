---------------------------- MODULE FocusedWork ----------------------------
(***************************************************************************)
(* How an agent takes an item of its inbox in hand and closes it: the      *)
(* working set of its session, the gates of update_focus,                  *)
(* complete_focused_work and park_focused_work, the session's to-dos, and  *)
(* the direct request of `thorn run` (runtime/_inbox_tools.py,             *)
(* _working_set.py, _todo.py, _todo_tools.py, _cli_dispatcher.py).         *)
(*                                                                         *)
(* The working set lives in memory and in session.json; the status of an   *)
(* item in its own file.  A tool changes the status first and then records *)
(* the working set, without yielding: the save may fail, and the process   *)
(* may die in between.  A text in a working set is abstracted to the item  *)
(* it was given for; TODO.md, which people edit by hand, may fail to parse *)
(* at any call, which then changes nothing.                                *)
(***************************************************************************)
EXTENDS Naturals

CONSTANTS
    Items,       \* notifications to this session
    DirectItems, \* those posted by `thorn run`
    Todos,       \* to-dos the session may create
    Links,       \* inbox items a to-do may be linked to, or None
    Phases,      \* HandlingPhase; "inspect" and "act" have the same gates
    Texts,       \* texts update_focus may be given together
    None,        \* no item
    MaxLosses    \* bound: saves that fail or are lost with the process

ASSUME FocusAssumption ==
    /\ None \notin Items
    /\ DirectItems \subseteq Items
    /\ Links \subseteq Items \union {None}
    /\ {"intake", "inspect"} \subseteq Phases
    /\ Texts \subseteq SUBSET {"objective", "action", "override"}
    /\ MaxLosses \in Nat

VARIABLES
    status,    \* of each item, wherever its file is
    memory,    \* session.working_set
    saved,     \* the working set in session.json
    todos,     \* TODO.md: state and link of each to-do
    framework, \* framework_focused_item_id of the running `thorn run`
    requeued,  \* history: items back from errored/ and not claimed since
    losses     \* saves lost so far, for MaxLosses

vars == <<status, memory, saved, todos, framework, requeued, losses>>
sessionVars == <<memory, saved, framework, losses>>

PromptPending == {"pending", "in_progress"}
Statuses == PromptPending \union {"unposted", "handled", "errored", "deleted"}
Maybe == Items \union {None}
WorkingSets ==
    [phase : Phases, item : Maybe, objective : Maybe, action : Maybe,
     validation : Maybe, rationale : Maybe, blocker : BOOLEAN]

TypeOK ==
    /\ status \in [Items -> Statuses]
    /\ memory \in WorkingSets
    /\ saved \in WorkingSets
    /\ todos \in [Todos -> [state : {"none", "open", "resolved"}, link : Links \union {None}]]
    /\ framework \in DirectItems \union {None}
    /\ requeued \subseteq Items
    /\ losses \in 0 .. MaxLosses

\* WorkingSet()
Intake ==
    [phase |-> "intake", item |-> None, objective |-> None, action |-> None,
     validation |-> None, rationale |-> None, blocker |-> FALSE]

Init ==
    /\ status = [n \in Items |-> "unposted"]
    /\ memory = Intake
    /\ saved = Intake
    /\ todos = [t \in Todos |-> [state |-> "none", link |-> None]]
    /\ framework = None
    /\ requeued = {}
    /\ losses = 0

Lose == losses < MaxLosses /\ losses' = losses + 1

\* _save_session_after_focus_change(ws): the working set is kept in memory
\* when the save fails; or the process dies before the save, and the session
\* is loaded again.
Record(ws) ==
    \/ /\ memory' = ws /\ saved' = ws
       /\ UNCHANGED <<framework, losses>>
    \/ /\ Lose
       /\ memory' = ws
       /\ UNCHANGED <<saved, framework>>
    \/ /\ Lose
       /\ memory' = saved /\ framework' = None
       /\ UNCHANGED saved

-----------------------------------------------------------------------------
\* What update_focus keeps of the working set when it moves to item n.
KeptAlways(n) == memory

Kept(n) == IF memory.item = n /\ memory.phase # "intake" THEN memory ELSE Intake

\* What it records, given texts and evidence about n.  A rationale for not
\* validating replaces a validation; a validation leaves a rationale in place.
Focused(phase, n, given, evidence) ==
    [phase |-> phase,
     item |-> n,
     objective |-> IF "objective" \in given THEN n ELSE Kept(n).objective,
     action |-> IF "action" \in given THEN n ELSE Kept(n).action,
     validation |-> CASE evidence = "validation" -> n
                      [] evidence = "rationale" -> None
                      [] OTHER -> Kept(n).validation,
     rationale |-> IF evidence = "rationale" THEN n ELSE Kept(n).rationale,
     blocker |-> phase = "blocked"]

HasEvidence(ws) == ws.validation # None \/ ws.rationale # None

\* Gates that take only what nobody claimed yet ...
MayFocusPendingOnly(phase, named, n, given, evidence) ==
    /\ n # None
    /\ status[n] = "pending"
    /\ "objective" \in given
    /\ phase = "closeout" => HasEvidence(Focused(phase, n, given, evidence))

\* ... or that let an item into closeout without evidence.
MayFocusWithoutEvidence(phase, named, n, given, evidence) ==
    /\ n # None
    /\ status[n] \in PromptPending
    /\ "objective" \in given
    /\ evidence # "none" => phase = "closeout"

\* The gates of update_focus: item n, named or in focus already, is moved to
\* the phase.
MayFocus(phase, named, n, given, evidence) ==
    /\ named = None => memory.phase # "intake"
    /\ n # None
    /\ memory.item \notin {None, n} /\ memory.phase # "intake" => "override" \in given
    /\ status[n] \in PromptPending
    /\ Focused(phase, n, given, evidence).objective # None \/ "override" \in given
    /\ phase = "validate" =>
          Focused(phase, n, given, evidence).action # None \/ "override" \in given
    /\ evidence # "none" => phase = "closeout"
    /\ phase = "closeout" => HasEvidence(Focused(phase, n, given, evidence))

Target(named) == IF named # None THEN named ELSE memory.item

\* apply_handling_transition to IN_PROGRESS.
Claim(n) ==
    /\ status' = [status EXCEPT ![n] = "in_progress"]
    /\ requeued' = requeued \ {n}

\* An update_focus that saves the session before it claims the item, and may
\* die in between.
UpdateFocusSavingFirst(phase, named, given, evidence) ==
    /\ MayFocus(phase, named, Target(named), given, evidence)
    /\ Record(Focused(phase, Target(named), given, evidence))
    /\ Claim(Target(named)) \/ UNCHANGED <<status, requeued>>
    /\ UNCHANGED todos

\* update_focus to a phase other than intake: the checks, the claim of the
\* item on disk, then the working set.
UpdateFocus(phase, named, given, evidence) ==
    /\ MayFocus(phase, named, Target(named), given, evidence)
    /\ Claim(Target(named))
    /\ Record(Focused(phase, Target(named), given, evidence))
    /\ UNCHANGED todos

\* update_focus("intake")
ClearFocus == Record(Intake) /\ UNCHANGED <<status, todos, requeued>>

-----------------------------------------------------------------------------
OpenFor(n) == {t \in Todos : todos[t].state = "open" /\ todos[t].link = n}

\* _transition_terminal_inbox_item of the item in focus, then
\* _reset_focused_work_after_terminal_inbox_update.
Close(to) ==
    /\ memory.item # None
    /\ status[memory.item] \in PromptPending
    /\ status' = [status EXCEPT ![memory.item] = to]
    /\ Record(Intake)
    /\ UNCHANGED <<todos, requeued>>

\* complete_focused_work that asks no to-do.
CompleteWithoutTodos ==
    /\ memory.phase = "closeout"
    /\ HasEvidence(memory)
    /\ Close("handled")

\* complete_focused_work with a complete rationale.
Complete ==
    /\ memory.phase = "closeout"
    /\ HasEvidence(memory)
    /\ OpenFor(memory.item) = {}
    /\ Close("handled")

\* park_focused_work with notes, from any phase.
Park == Close("errored")

\* create_session_todo, update_session_todo and complete_session_todo or
\* abandon_session_todo: nothing asks whether the linked item exists.
WriteTodo(t, state, link) ==
    /\ todos' = [todos EXCEPT ![t] = [state |-> state, link |-> link]]
    /\ UNCHANGED <<status, sessionVars, requeued>>

CreateTodo(t, link) == todos[t].state = "none" /\ WriteTodo(t, "open", link)

RelinkTodo(t, link) == todos[t].state # "none" /\ WriteTodo(t, todos[t].state, link)

ResolveTodo(t) == todos[t].state # "none" /\ WriteTodo(t, "resolved", todos[t].link)

-----------------------------------------------------------------------------
\* A framework that takes over whatever is alone in the inbox.
DirectFocusOnAnything(n) ==
    /\ memory.phase = "intake" /\ memory.item = None
    /\ status[n] = "pending"
    /\ \A m \in Items \ {n} : status[m] \notin PromptPending
    /\ Claim(n)
    /\ memory' = Focused("inspect", n, {"objective"}, "none")
    /\ framework' = n
    /\ UNCHANGED <<saved, todos, losses>>

\* establish_fresh_cli_direct_focus: the only pending item of a session at
\* intake is claimed and focused before the first prompt.
DirectFocus(n) ==
    /\ n \in DirectItems
    /\ memory.phase = "intake" /\ memory.item = None
    /\ status[n] = "pending"
    /\ \A m \in Items \ {n} : status[m] \notin PromptPending
    /\ Claim(n)
    /\ memory' = Focused("inspect", n, {"objective"}, "none")
    /\ framework' = n
    /\ UNCHANGED <<saved, todos, losses>>

\* A dispatcher that deletes the item and leaves the focus.
DirectEndKeepingFocus(n) ==
    /\ status[n] \in PromptPending
    /\ status' = [status EXCEPT ![n] = "deleted"]
    /\ UNCHANGED <<sessionVars, todos, requeued>>

\* The dispatcher of `thorn run` at the end of a prompt about item n, the
\* oldest it found, whoever posted it: returned or raised, the item is deleted
\* if it is still there, and the focus the framework set is taken back.
DirectEnd(n) ==
    /\ status[n] # "unposted"
    /\ status' = IF status[n] \in PromptPending
                 THEN [status EXCEPT ![n] = "deleted"] ELSE status
    /\ memory' = IF framework # None /\ memory.item = framework
                 THEN Intake ELSE memory
    /\ UNCHANGED <<saved, todos, framework, requeued, losses>>

-----------------------------------------------------------------------------
\* DurableQueue.post, by the gateway or `thorn run`.
Post(n) ==
    /\ status[n] = "unposted"
    /\ status' = [status EXCEPT ![n] = "pending"]
    /\ UNCHANGED <<sessionVars, todos, requeued>>

\* The progress evictor between rounds, or `thorn inbox park`: the focus stays.
Evict(n) ==
    /\ status[n] \in PromptPending
    /\ status' = [status EXCEPT ![n] = "errored"]
    /\ UNCHANGED <<sessionVars, todos, requeued>>

\* `thorn inbox requeue`
Requeue(n) ==
    /\ status[n] = "errored"
    /\ status' = [status EXCEPT ![n] = "pending"]
    /\ requeued' = requeued \union {n}
    /\ UNCHANGED <<sessionVars, todos>>

\* The driver, or `thorn run`, saves the session.
SaveSession ==
    /\ saved' = memory
    /\ UNCHANGED <<status, memory, todos, framework, requeued, losses>>

\* The process dies between two tools, and the session is loaded again.
Restart ==
    /\ memory # saved \/ framework # None
    /\ memory' = saved
    /\ framework' = None
    /\ UNCHANGED <<status, saved, todos, requeued, losses>>

FocusTool ==
    \/ ClearFocus
    \/ \E phase \in Phases \ {"intake"}, named \in Maybe, given \in Texts,
          evidence \in {"none", "validation", "rationale"} :
          UpdateFocus(phase, named, given, evidence)

TodoTool ==
    \E t \in Todos :
       \/ ResolveTodo(t)
       \/ \E link \in Links : CreateTodo(t, link) \/ RelinkTodo(t, link)

Next ==
    \/ FocusTool \/ Complete \/ Park \/ TodoTool
    \/ SaveSession \/ Restart
    \/ \E n \in Items :
          DirectFocus(n) \/ DirectEnd(n) \/ Post(n) \/ Evict(n) \/ Requeue(n)

Spec == Init /\ [][Next]_vars

-----------------------------------------------------------------------------
\* Whatever is recorded was recorded about the item in focus: no objective,
\* action or evidence of one item is ever carried over to another, through
\* switches of focus, failed saves and restarts.
OwnRecords ==
    \A ws \in {memory, saved} :
       {ws.objective, ws.action, ws.validation, ws.rationale} \subseteq {None, ws.item}

\* None of the inconsistencies _working_set_diagnostics looks for in phase,
\* focus and blocker arises, and closeout has its evidence.
WorkingSetSound ==
    \A ws \in {memory, saved} :
       /\ ws.phase = "intake" <=> ws.item = None
       /\ ws.phase = "blocked" <=> ws.blocker
       /\ ws.phase = "closeout" => HasEvidence(ws)

\* The claim is on disk before the focus is: an item in focus, in memory or in
\* session.json, is pending only if an operator put it back.
FocusIsClaimed ==
    \A ws \in {memory, saved} :
       ws.item # None =>
          /\ status[ws.item] # "unposted"
          /\ status[ws.item] = "pending" => ws.item \in requeued

\* An item is handled only with evidence of its own and with every to-do that
\* is linked to it resolved.
HandledIsEarned ==
    [][\A n \in Items :
          status[n] # "handled" /\ status'[n] = "handled" =>
             /\ memory.item = n
             /\ n \in {memory.validation, memory.rationale}
             /\ OpenFor(n) = {}]_vars

\* A claim whose working set was lost can be repaired, and no gate locks the
\* agent out: "Re-running the same operation for an already-in_progress item
\* is allowed and repairs missing working-set focus" (update_focus).  What is
\* in focus, whatever was lost of it, goes to closeout by a rationale, and in
\* closeout its to-dos are all that complete_focused_work can ask for.  (The
\* claim and the save that follow the gates are possible at any time.)
ClaimIsRepairable ==
    \A n \in Items :
       status[n] \in PromptPending =>
          /\ MayFocus("inspect", n, n, {"objective", "override"}, "none")
          /\ memory.item = n =>
                /\ MayFocus("closeout", None, n, {"objective"}, "rationale")
                /\ memory.phase = "closeout" => HasEvidence(memory)

\* The dispatcher of `thorn run` takes back the focus the framework set with
\* the item it deletes, whatever the agent did in between: "This keeps a later
\* explicit resume internally consistent" (make_cli_prompt_dispatcher).
DirectFocusReleased ==
    framework # None /\ memory.item = framework => status[framework] # "deleted"
=============================================================================
