----------------------------- MODULE PromptLoop -----------------------------
(***************************************************************************)
(* The prompts of one session: run_agent_loop asks the provider, runs the  *)
(* tool calls of its answer one by one and records the round as a turn of  *)
(* the history, round after round, until an answer, a result, an error or  *)
(* one of its limits ends the prompt; when the context stays too large it  *)
(* runs itself as a housekeeping sub-loop on the same history, and trims   *)
(* it (core/_loop.py, _housekeeping.py, _history.py).                      *)
(*                                                                         *)
(* A node of the history is its kind, the number of its tool calls and,    *)
(* for a request, the prompt it belongs to.  What the model says is one of *)
(* Sayings; whether a round made progress and whether the context is too   *)
(* large are free.  Compaction only shortens texts and is left out.        *)
(***************************************************************************)
EXTENDS Integers, Sequences, FiniteSets, SequencesExt, FiniteSetsExt

CONSTANTS
    Sayings,        \* texts and arguments an answer may have
    MaxPrompts,     \* bound: prompts of the session
    MaxCalls,       \* bound: tool calls of one answer
    MaxRounds,      \* max_tool_rounds
    HkRounds,       \* MAX_HOUSEKEEPING_TOOL_ROUNDS
    MaxRepeated,    \* max_repeated_rounds
    MaxNoProgress,  \* max_tool_rounds_without_progress; 0 disables it
    TailNodes,      \* DEFAULT_PROTECTED_TAIL_NODES
    TailCalls,      \* DEFAULT_PROTECTED_TAIL_TOOL_CALLS
    Retries,        \* retries of one request, by kind of failure
    Deferring,      \* the validation policy applies_progress_effect
    Nothing         \* no fingerprint, no answer, no end

ASSUME PromptAssumption ==
    /\ MaxPrompts \in Nat /\ MaxCalls \in Nat
    /\ MaxRounds \in Nat /\ HkRounds \in Nat
    /\ MaxRepeated \in Nat \ {0, 1}
    /\ MaxNoProgress \in Nat
    /\ TailNodes \in Nat \ {0} /\ TailCalls \in Nat
    /\ Deferring \in BOOLEAN
    /\ Retries \in [{"rate", "transient", "hard"} -> Nat]

VARIABLES
    pc,         \* of the running loop
    prompts,    \* prompts so far
    structured, \* the prompt wants a result of a type
    history,    \* HistoryTree.nodes
    round,      \* of the running loop
    tries,      \* retries of the current request
    said,       \* the answer whose calls are run
    todo,       \* how many of its calls have not run
    results,    \* of those that have
    captured,   \* return_result was given a valid value
    repeat,     \* _ConsecutiveRepetitionTracker
    stall,      \* _NoProgressTracker, and whether the warning was sent along
    outer,      \* the loop that waits for its housekeeping, if one does
    ended,      \* how the loop or the last prompt ended
    held,       \* history: calls that ran and were not given up
    abandoned   \* history: a housekeeping did not get to its surgery

vars == <<pc, prompts, structured, history, round, tries, said, todo, results,
          captured, repeat, stall, outer, ended, held, abandoned>>
roundVars == <<said, todo, results>>
promptVars == <<prompts, structured>>
trackers == <<repeat, stall>>

\* UserPromptNode, TurnNode, ArchiveMarkerNode and HousekeepingNode
UserPrompts == {"ask", "nudge", "boundary", "hkask"}
Kinds == UserPrompts \union {"turn", "archive", "hk"}
Node(kind, calls) == [kind |-> kind, calls |-> calls, prompt |-> 0]
Ask(p) == [kind |-> "ask", calls |-> 0, prompt |-> p]
Nudge(p) == [kind |-> "nudge", calls |-> 0, prompt |-> p]
Nodes == [kind : Kinds, calls : Nat, prompt : 0 .. MaxPrompts]

\* What the sub-loop of a housekeeping ends with and the trim goes on, and
\* what ends the prompt that waits for it too.
Ends == {"returned", "limit", "repetition", "no_progress", "skill"}
Raises == {"unavailable", "failure", "exception", "cancelled"}

NoRepeat == [of |-> Nothing, count |-> 0]
NoStall == [count |-> 0, warned |-> FALSE, shown |-> FALSE]
NoTries == [k \in DOMAIN Retries |-> 0]

TypeOK ==
    /\ pc \in {"idle", "request", "calls", "ended"}
    /\ prompts \in 0 .. MaxPrompts
    /\ structured \in BOOLEAN
    /\ history \in Seq(Nodes)
    /\ round \in 0 .. IF outer = <<>> THEN MaxRounds ELSE HkRounds
    /\ \A k \in DOMAIN Retries : tries[k] \in 0 .. Retries[k]
    /\ said \in Sayings \union {Nothing}
    /\ todo \in 0 .. MaxCalls
    /\ results \in Seq({"ok", "error"}) /\ Len(results) + todo <= MaxCalls
    /\ captured \in BOOLEAN
    /\ repeat.count \in 0 .. MaxRepeated - 1
    /\ stall.count \in 0 .. MaxRounds
    /\ ended \in Ends \union Raises \union {Nothing}
    /\ held \in Nat
    /\ abandoned \in BOOLEAN

Init ==
    /\ pc = "idle" /\ prompts = 0 /\ structured = FALSE
    /\ history = <<>> /\ round = 0 /\ tries = NoTries
    /\ said = Nothing /\ todo = 0 /\ results = <<>> /\ captured = FALSE
    /\ repeat = NoRepeat /\ stall = NoStall /\ outer = <<>>
    /\ ended = Nothing /\ held = 0 /\ abandoned = FALSE

-----------------------------------------------------------------------------
\* A prompt starts; the first one of a session may bring a briefing, a turn
\* of calls the framework made.
Prompt(typed, briefing) ==
    /\ pc = "idle"
    /\ prompts < MaxPrompts
    /\ briefing = 1 => history = <<>>
    /\ prompts' = prompts + 1
    /\ structured' = typed
    /\ history' = history \o <<Ask(prompts')>>
                          \o [i \in 1 .. briefing |-> Node("turn", 1)]
    /\ held' = held + briefing
    /\ pc' = "request"
    /\ UNCHANGED <<round, tries, roundVars, captured, trackers, outer, ended,
                   abandoned>>

\* The running loop ends.
End(reason) == pc' = "ended" /\ ended' = reason

\* for round_num in range(max_tool_rounds)
Limit == IF outer = <<>> THEN MaxRounds ELSE HkRounds

LimitReached ==
    /\ pc = "request" /\ round = Limit
    /\ End("limit")
    /\ UNCHANGED <<promptVars, history, round, tries, roundVars, captured,
                   trackers, outer, held, abandoned>>

\* _request_completion: an attempt fails with a rate limit, a transient error
\* or another provider error, each with a budget of retries of its own.
RequestFails(kind) ==
    /\ pc = "request" /\ round < Limit
    /\ IF tries[kind] < Retries[kind]
       THEN /\ tries' = [tries EXCEPT ![kind] = @ + 1]
            /\ UNCHANGED <<pc, ended>>
       ELSE /\ tries' = NoTries
            /\ End(IF kind = "hard" THEN "failure" ELSE "unavailable")
    /\ UNCHANGED <<promptVars, history, round, roundVars, captured, trackers,
                   outer, held, abandoned>>

-----------------------------------------------------------------------------
\* _ConsecutiveRepetitionTracker.observe
Observed(tracker, fingerprint) ==
    IF fingerprint = tracker.of THEN [tracker EXCEPT !.count = @ + 1]
    ELSE [of |-> fingerprint, count |-> 1]

\* A _raise_if_repeated that lets one more repetition pass.
RepeatsLate(tracker, fingerprint) ==
    LET now == Observed(tracker, fingerprint) IN
    IF now.count > MaxRepeated
    THEN End("repetition") /\ repeat' = tracker
    ELSE repeat' = now /\ pc' = "request" /\ UNCHANGED ended

\* _raise_if_repeated, or the next round.
Repeats(tracker, fingerprint) ==
    LET now == Observed(tracker, fingerprint) IN
    IF now.count >= MaxRepeated
    THEN End("repetition") /\ repeat' = tracker
    ELSE repeat' = now /\ pc' = "request" /\ UNCHANGED ended

\* The warning of this streak is part of what the provider was sent.
Shown == [stall EXCEPT !.shown = IF outer = <<>> THEN stall.warned ELSE @]

\* An answer without tool calls is the prompt's; one that wants a result is
\* asked again.
TextAnswer(saying) ==
    /\ pc = "request" /\ round < Limit
    /\ tries' = NoTries
    /\ stall' = Shown
    /\ IF structured /\ outer = <<>>
       THEN /\ history' = history \o <<Node("turn", 0), Nudge(prompts)>>
            /\ Repeats(repeat, <<"text", saying>>)
            /\ round' = round + 1
       ELSE /\ history' = Append(history, Node("turn", 0))
            /\ End("returned")
            /\ UNCHANGED <<repeat, round>>
    /\ UNCHANGED <<promptVars, roundVars, captured, outer, held, abandoned>>

CallsAnswer(saying, n) ==
    /\ pc = "request" /\ round < Limit
    /\ tries' = NoTries
    /\ stall' = Shown
    /\ pc' = "calls"
    /\ said' = saying /\ todo' = n /\ results' = <<>>
    /\ UNCHANGED <<promptVars, history, round, captured, repeat, outer, ended,
                   held, abandoned>>

\* _execute_tool_calls, one call: a result, an error for an unknown tool, for
\* arguments that are not JSON or for an exception of the tool, or
\* return_result with a valid value.
RunCall(result, captures) ==
    /\ pc = "calls" /\ todo > 0
    /\ captures => structured /\ outer = <<>> /\ result = "ok"
    /\ todo' = todo - 1
    /\ results' = Append(results, result)
    /\ captured' = (captured \/ captures)
    /\ held' = held + 1
    /\ UNCHANGED <<pc, promptVars, history, round, tries, said, trackers, outer,
                   ended, abandoned>>

\* raise_error, a SkillError of a tool, or arguments that are no object end
\* the prompt in the middle of a round; so does its cancellation, at any
\* await.  The results of the round are not recorded.
Abort(reason) ==
    /\ \/ pc = "calls" /\ todo > 0 /\ reason \in {"skill", "exception"}
       \/ pc \in {"calls", "request"} /\ reason = "cancelled"
    /\ held' = held - Len(results)
    /\ said' = Nothing /\ todo' = 0 /\ results' = <<>>
    /\ tries' = NoTries
    /\ End(reason)
    /\ UNCHANGED <<promptVars, history, round, captured, trackers, outer, abandoned>>

-----------------------------------------------------------------------------
\* The calls in some nodes, each by its node and its place in it, and how many.
CallsOf(nodes) == UNION {{i} \X (1 .. nodes[i].calls) : i \in DOMAIN nodes}
SumCalls(nodes) == Cardinality(CallsOf(nodes))
Turns(nodes) == SelectSeq(nodes, LAMBDA node : node.kind = "turn")

\* HistoryTree._protected_indices of the last nodes and calls only ...
ProtectedTail(nodes) ==
    {i \in DOMAIN nodes :
        \/ i > Len(nodes) - TailNodes
        \/ /\ nodes[i].kind = "turn" /\ nodes[i].calls > 0
           /\ SumCalls(Turns(SubSeq(nodes, i + 1, Len(nodes)))) < TailCalls}

\* ... and of the most recent UserPromptNode too.
Protected(nodes) ==
    ProtectedTail(nodes) \union
    {i \in DOMAIN nodes :
        /\ nodes[i].kind \in UserPrompts
        /\ \A j \in i + 1 .. Len(nodes) : nodes[j].kind \notin UserPrompts}

\* select_cut_point: how many nodes go.
CutPoint(nodes) == Min(Protected(nodes)) - 1

\* perform_housekeeping: the boundary goes in after the nodes that will go,
\* and the sub-loop's request at the end.
StartHousekeeping(nodes, fingerprint) ==
    LET cut == CutPoint(nodes) IN
    /\ history' = SubSeq(nodes, 1, cut) \o <<Node("boundary", 0)>>
                  \o SubSeq(nodes, cut + 1, Len(nodes)) \o <<Node("hkask", 0)>>
    /\ outer' = <<[round |-> round, repeat |-> repeat, of |-> fingerprint,
                   cut |-> cut, count |-> Len(nodes)]>>
    /\ pc' = "request" /\ round' = 0 /\ repeat' = NoRepeat
    /\ UNCHANGED ended

\* The next round, unless the last ones had nothing but the same errors.
NextRound(nowRound, tracker, fingerprint) ==
    /\ round' = nowRound + 1
    /\ IF fingerprint = Nothing
       THEN repeat' = NoRepeat /\ pc' = "request" /\ UNCHANGED ended
       ELSE Repeats(tracker, fingerprint)

\* The end of a round of tool calls: a valid result is returned.
Continue(nowRound, tracker, fingerprint) ==
    IF captured
    THEN End("returned") /\ round' = nowRound /\ repeat' = tracker
    ELSE NextRound(nowRound, tracker, fingerprint)

\* _no_progress_warning_threshold, as it might be rounded ...
WarningThresholdLate == (MaxNoProgress + 3) \div 2

\* ... and as it is.
WarningThreshold == (MaxNoProgress + 1) \div 2

\* _NoProgressTracker.observe and _warn_if_no_progress
Stalled(progress) ==
    IF progress THEN NoStall
    ELSE LET now == stall.count + 1 IN
         [stall EXCEPT
            !.count = now,
            !.warned = @ \/ /\ MaxNoProgress > 1
                            /\ now >= WarningThreshold
                            /\ now < MaxNoProgress]

Succeeded == \E i \in DOMAIN results : results[i] = "ok"

Fingerprint == IF Succeeded THEN Nothing ELSE <<"calls", said, Len(results)>>

\* What _classify_tool_round_progress may say of the round: a result is
\* progress, and nothing but errors is none, unless a validation's outcome
\* was uncertain.
Progress ==
    {p \in BOOLEAN : /\ captured => p
                     /\ ~Succeeded /\ ~Deferring => ~p}

\* The calls of a round have run: the turn is recorded; without progress for
\* too long the prompt ends; with too large a context, where compaction did
\* not help, housekeeping comes before anything else.
EndRound(progress, large) ==
    LET nodes == Append(history, Node("turn", Len(results)))
        stuck == MaxNoProgress # 0 /\ stall'.count >= MaxNoProgress
    IN
    /\ pc = "calls" /\ todo = 0
    /\ IF outer = <<>> THEN progress \in Progress ELSE ~progress /\ ~large
    /\ stall' = IF outer = <<>> THEN Stalled(progress) ELSE stall
    /\ said' = Nothing /\ results' = <<>>
    /\ IF outer = <<>> /\ ~progress /\ stuck
       THEN /\ history' = nodes
            /\ End("no_progress")
            /\ UNCHANGED <<round, repeat, outer>>
       ELSE IF large /\ CutPoint(nodes) > 0
       THEN StartHousekeeping(nodes, Fingerprint)
       ELSE /\ history' = nodes
            /\ IF outer = <<>>
               THEN Continue(round, repeat, Fingerprint)
               ELSE NextRound(round, repeat, Fingerprint)
            /\ UNCHANGED outer
    /\ UNCHANGED <<promptVars, tries, todo, captured, held, abandoned>>

\* _FreshDirectCompletionPolicy: the item is closed and its prompt with it.
TerminalRound ==
    /\ pc = "calls" /\ todo = 0
    /\ ~structured /\ outer = <<>> /\ results = <<"ok">>
    /\ history' = Append(history, Node("turn", 1))
    /\ said' = Nothing /\ results' = <<>>
    /\ End("returned")
    /\ UNCHANGED <<promptVars, round, tries, todo, captured, trackers, outer,
                   held, abandoned>>

-----------------------------------------------------------------------------
\* A surgery that forgets that the boundary moved the tail ...
KeptUnshifted == SubSeq(history, outer[1].cut + 1, outer[1].count)

\* ... and the one of perform_housekeeping: what it keeps, and what its node
\* holds.
Kept == SubSeq(history, outer[1].cut + 2, outer[1].count + 1)

AnswerOnly == <<Node("boundary", 0), Last(history)>>

Additions ==
    <<Node("boundary", 0)>> \o SubSeq(history, outer[1].count + 2, Len(history))

\* The sub-loop ended in its own time: what stood above the boundary is
\* replaced by an archive marker, and the waiting round goes on.
FinishHousekeeping ==
    /\ pc = "ended" /\ outer # <<>>
    /\ ended \in Ends
    /\ history' = <<Node("archive", 0)>> \o Kept \o <<Node("hk", SumCalls(Additions))>>
    /\ held' = held - SumCalls(SubSeq(history, 1, outer[1].cut))
    /\ Continue(outer[1].round, outer[1].repeat, outer[1].of)
    /\ outer' = <<>>
    /\ UNCHANGED <<promptVars, tries, roundVars, captured, stall, abandoned>>

\* It raised something else: the prompt ends with it, and the history stays
\* as it is, boundary and request included.
AbandonHousekeeping ==
    /\ pc = "ended" /\ outer # <<>>
    /\ ended \in Raises
    /\ round' = outer[1].round /\ repeat' = outer[1].repeat
    /\ outer' = <<>>
    /\ abandoned' = TRUE
    /\ UNCHANGED <<pc, promptVars, history, tries, roundVars, captured, stall,
                   ended, held>>

\* session.prompt returns or raises.
PromptOver ==
    /\ pc = "ended" /\ outer = <<>>
    /\ pc' = "idle" /\ ended' = Nothing
    /\ structured' = FALSE /\ captured' = FALSE
    /\ round' = 0 /\ repeat' = NoRepeat /\ stall' = NoStall
    /\ UNCHANGED <<prompts, history, tries, roundVars, outer, held, abandoned>>

Next ==
    \/ \E typed \in BOOLEAN, briefing \in {0, 1} : Prompt(typed, briefing)
    \/ LimitReached
    \/ \E kind \in DOMAIN Retries : RequestFails(kind)
    \/ \E saying \in Sayings :
          \/ TextAnswer(saying)
          \/ \E n \in 1 .. MaxCalls : CallsAnswer(saying, n)
    \/ \E result \in {"ok", "error"}, captures \in BOOLEAN : RunCall(result, captures)
    \/ \E reason \in {"skill", "exception", "cancelled"} : Abort(reason)
    \/ \E progress, large \in BOOLEAN : EndRound(progress, large)
    \/ TerminalRound
    \/ FinishHousekeeping \/ AbandonHousekeeping \/ PromptOver

Spec == Init /\ [][Next]_vars

-----------------------------------------------------------------------------
Over == pc = "ended" /\ outer = <<>>

\* What the agent was told last is in the history, whatever is trimmed, folded
\* or left behind by a housekeeping: the request of the running prompt or, if
\* that wants a result and was asked again, a nudge of its own.  So a prompt
\* that was never nudged keeps its request; one that was may lose it, since
\* only the most recent UserPromptNode is protected.
OwnPromptSurvives ==
    pc # "idle" =>
       \E i \in DOMAIN history :
          \/ history[i] = Ask(prompts)
          \/ structured /\ history[i] = Nudge(prompts)

\* Every call that ran is in the history exactly once, in a turn of its own
\* or in a housekeeping, unless its round was aborted or it stood above the
\* boundary the agent was shown.
NothingIsLost == held = SumCalls(history) + Len(results)

\* Between prompts and rounds nothing of a housekeeping is left in the open,
\* and an archive marker is the first node, unless one was abandoned.
HousekeepingTidies ==
    outer = <<>> /\ ~abandoned =>
       \A i \in DOMAIN history :
          /\ history[i].kind \notin {"boundary", "hkask"}
          /\ history[i].kind = "archive" => i = 1

\* A prompt is not ended for want of progress before the provider was sent
\* the warning of the same streak and answered.
WarnedInTime ==
    Over /\ ended = "no_progress" /\ MaxNoProgress > 1 => stall.shown

\* A valid result is returned, also from the last round allowed, and from one
\* that housekeeping comes after, unless its round or the housekeeping
\* raises; and a prompt that wants a result returns nothing else.
ResultIsReturned ==
    Over => /\ captured => ended \in Raises \union {"returned", "skill"}
            /\ structured /\ ended = "returned" => captured
=============================================================================
