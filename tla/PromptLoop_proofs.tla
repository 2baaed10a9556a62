-------------------------- MODULE PromptLoop_proofs --------------------------
(***************************************************************************)
(* The prompts of one session for any limits, tails and retries: the       *)
(* warning before an end for want of progress, the result of a structured  *)
(* prompt, what the trims of housekeeping leave of the history, the limits *)
(* and the calls that ran.                                                 *)
(***************************************************************************)
EXTENDS PromptLoop, TLAPS, WellFoundedInduction, FiniteSetTheorems, SequenceTheorems

USE PromptAssumption DEF PromptAssumption

-----------------------------------------------------------------------------
\* Wherever the provider is asked with a streak at the threshold the warning
\* is in the history, so that whoever answers was sent it; the first count
\* at which the prompt would end comes one round later at least.
StallInv ==
    /\ stall \in [count : Nat, warned : BOOLEAN, shown : BOOLEAN]
    /\ MaxNoProgress > 1 /\ stall.count >= WarningThreshold => stall.warned
    /\ pc = "calls" /\ outer = <<>> /\ stall.warned => stall.shown
    /\ pc = "ended" /\ ended = "no_progress" /\ MaxNoProgress > 1 => stall.shown

\* The rounds between the warning and the end.
LEMMA ThresholdIsBelow ==
    MaxNoProgress > 1 => /\ WarningThreshold \in 1 .. MaxNoProgress - 1
                         /\ WarningThreshold \in Nat
BY DEF WarningThreshold

LEMMA StallInit == Init => StallInv
BY ThresholdIsBelow DEF Init, StallInv, NoStall, WarningThreshold

\* One round more of a streak, and the first round of none.
LEMMA StalledStreak ==
    ASSUME StallInv, pc = "calls", outer = <<>>, NEW progress \in BOOLEAN
    PROVE  /\ Stalled(progress) \in [count : Nat, warned : BOOLEAN, shown : BOOLEAN]
           /\ MaxNoProgress > 1 /\ Stalled(progress).count >= WarningThreshold =>
                /\ Stalled(progress).warned
                /\ Stalled(progress).count >= MaxNoProgress => Stalled(progress).shown
<1>1. CASE progress
  BY <1>1, ThresholdIsBelow DEF Stalled, NoStall
<1>2. CASE ~progress
  <2>. DEFINE now == stall.count + 1
              due == MaxNoProgress > 1 /\ now >= WarningThreshold /\ now < MaxNoProgress
  <2>1. Stalled(progress) = [stall EXCEPT !.count = now, !.warned = @ \/ due]
    BY <1>2, Zenon DEF Stalled
  <2>2. stall \in [count : Nat, warned : BOOLEAN, shown : BOOLEAN]
    BY DEF StallInv
  <2>. HIDE DEF due, now
  <2>3. /\ Stalled(progress).count = now
        /\ Stalled(progress).warned = (stall.warned \/ due)
        /\ Stalled(progress).shown = stall.shown
        /\ Stalled(progress) \in [count : {now}, warned : BOOLEAN, shown : BOOLEAN]
    BY <2>1, <2>2, Zenon
  <2>4. now \in Nat /\ now = stall.count + 1
    BY <2>2 DEF now
  <2>5. MaxNoProgress > 1 /\ now >= WarningThreshold =>
           (stall.warned \/ due) /\ (now >= MaxNoProgress => stall.warned)
    BY <2>2, <2>4, ThresholdIsBelow DEF StallInv, due
  <2>. QED  BY <2>3, <2>4, <2>5 DEF StallInv
<1>. QED  BY <1>1, <1>2

LEMMA EndRoundStall ==
    ASSUME StallInv, NEW progress \in BOOLEAN, NEW large \in BOOLEAN, EndRound(progress, large)
    PROVE  StallInv'
<1>1. CASE outer # <<>>
  <2>1. stall' = stall /\ pc = "calls" /\ outer' = outer
    BY <1>1 DEF EndRound
  <2>2. pc' # "calls" /\ (pc' = "ended" => ended' # "no_progress")
    BY <1>1 DEF EndRound, NextRound, Repeats, End
  <2>. QED  BY <2>1, <2>2, <1>1 DEF StallInv, WarningThreshold
<1>2. CASE outer = <<>>
  <2>1. stall' = Stalled(progress) /\ pc = "calls"
    BY <1>2 DEF EndRound
  <2>2. pc' # "calls"
    BY <1>2 DEF EndRound, StartHousekeeping, Continue, NextRound, Repeats, End
  <2>3. pc' = "ended" /\ ended' = "no_progress" => stall'.count >= MaxNoProgress
    BY <1>2 DEF EndRound, StartHousekeeping, Continue, NextRound, Repeats, End
  <2>. QED
    BY <2>1, <2>2, <2>3, <1>2, StalledStreak, ThresholdIsBelow DEF StallInv, WarningThreshold
<1>. QED  BY <1>1, <1>2

LEMMA StallStep ==
    ASSUME StallInv, [Next]_vars
    PROVE  StallInv'
<1>. USE DEF StallInv, WarningThreshold, roundVars, promptVars, trackers
<1>1. ASSUME NEW typed \in BOOLEAN, NEW briefing \in {0, 1}, Prompt(typed, briefing)
      PROVE  StallInv'
  BY <1>1 DEF Prompt
<1>2. CASE LimitReached
  BY <1>2 DEF LimitReached, End
<1>3. ASSUME NEW kind \in DOMAIN Retries, RequestFails(kind)
      PROVE  StallInv'
  BY <1>3 DEF RequestFails, End
<1>4. ASSUME NEW saying \in Sayings, TextAnswer(saying)
      PROVE  StallInv'
  <2>1. stall' = Shown /\ pc' \in {"request", "ended"} /\ (pc' = "ended" => ended' # "no_progress")
    BY <1>4 DEF TextAnswer, Repeats, End
  <2>. QED  BY <2>1 DEF Shown
<1>5. ASSUME NEW saying \in Sayings, NEW n \in 1 .. MaxCalls, CallsAnswer(saying, n)
      PROVE  StallInv'
  BY <1>5 DEF CallsAnswer, Shown
<1>6. ASSUME NEW result, NEW captures, RunCall(result, captures)
      PROVE  StallInv'
  BY <1>6 DEF RunCall
<1>7. ASSUME NEW reason \in {"skill", "exception", "cancelled"}, Abort(reason)
      PROVE  StallInv'
  BY <1>7 DEF Abort, End
<1>8. CASE TerminalRound
  BY <1>8 DEF TerminalRound, End
<1>9. CASE FinishHousekeeping
  BY <1>9 DEF FinishHousekeeping, Continue, NextRound, Repeats, End
<1>10. CASE AbandonHousekeeping
  BY <1>10 DEF AbandonHousekeeping, Raises
<1>11. CASE PromptOver
  BY <1>11, ThresholdIsBelow DEF PromptOver, NoStall
<1>12. CASE UNCHANGED vars
  BY <1>12 DEF vars
<1>. QED
  BY <1>1, <1>2, <1>3, <1>4, <1>5, <1>6, <1>7, <1>8, <1>9, <1>10, <1>11, <1>12,
     EndRoundStall DEF Next

\* No prompt ends for want of progress before the provider was sent the
\* warning of the same streak and answered, whatever the limit
\* (_warn_if_no_progress, _raise_if_no_progress).
THEOREM WarningComesFirst == Spec => []WarnedInTime
<1>1. StallInv => WarnedInTime
  BY DEF StallInv, WarnedInTime, Over
<1>. QED  BY <1>1, StallInit, StallStep, PTL DEF Spec

-----------------------------------------------------------------------------
\* A valid result is on its way: its round is not over, or a housekeeping
\* keeps it waiting, or its prompt is over and has returned it.
ResultInv ==
    /\ captured \in BOOLEAN /\ structured \in BOOLEAN
    /\ pc = "idle" => ~captured /\ ~structured
    /\ captured => structured
    /\ captured /\ outer = <<>> => pc \in {"calls", "ended"}
    /\ ResultIsReturned

LEMMA ResultEndRound ==
    ASSUME ResultInv, NEW progress \in BOOLEAN, NEW large \in BOOLEAN, EndRound(progress, large)
    PROVE  ResultInv'
<1>1. /\ captured' = captured /\ structured' = structured
      /\ pc = "calls" /\ pc' \in {"request", "ended"}
  BY DEF EndRound, StartHousekeeping, Continue, NextRound, Repeats, End, promptVars
<1>2. CASE outer' # <<>>
  BY <1>1, <1>2 DEF ResultInv, ResultIsReturned, Over
<1>3. CASE outer' = <<>>
  <2>1. outer = <<>>
    BY <1>3 DEF EndRound
  <2>2. CASE ~captured
    <3>1. ended' # "returned" \/ pc' = "request"
      BY <2>1, <2>2 DEF EndRound, StartHousekeeping, Continue, NextRound, Repeats, End
    <3>. QED  BY <1>1, <2>2, <3>1 DEF ResultInv, ResultIsReturned, Over
  <2>3. CASE captured
    <3>1. progress
      BY <2>1, <2>3 DEF EndRound, Progress
    <3>2. pc' = "ended" /\ ended' = "returned"
      <4>1. ~(outer' = <<[round |-> round, repeat |-> repeat, of |-> Fingerprint,
                          cut |-> CutPoint(Append(history, Node("turn", Len(results)))),
                          count |-> Len(Append(history, Node("turn", Len(results))))]>>)
        BY <1>3
      <4>. QED  BY <2>1, <2>3, <3>1, <4>1 DEF EndRound, StartHousekeeping, Continue, End
    <3>. QED  BY <1>1, <2>3, <3>2 DEF ResultInv, ResultIsReturned, Over
  <2>. QED  BY <2>2, <2>3 DEF ResultInv
<1>. QED  BY <1>2, <1>3

LEMMA ResultStep ==
    ASSUME ResultInv, [Next]_vars
    PROVE  ResultInv'
<1>. USE DEF ResultInv, ResultIsReturned, Over, roundVars, promptVars, trackers, End
<1>1. ASSUME NEW typed \in BOOLEAN, NEW briefing \in {0, 1}, Prompt(typed, briefing)
      PROVE  ResultInv'
  BY <1>1 DEF Prompt
<1>2. CASE LimitReached
  BY <1>2 DEF LimitReached
<1>3. ASSUME NEW kind \in DOMAIN Retries, RequestFails(kind)
      PROVE  ResultInv'
  BY <1>3 DEF RequestFails
<1>4. ASSUME NEW saying \in Sayings, TextAnswer(saying)
      PROVE  ResultInv'
  BY <1>4 DEF TextAnswer, Repeats
<1>5. ASSUME NEW saying \in Sayings, NEW n \in 1 .. MaxCalls, CallsAnswer(saying, n)
      PROVE  ResultInv'
  BY <1>5 DEF CallsAnswer
<1>6. ASSUME NEW result, NEW captures \in BOOLEAN, RunCall(result, captures)
      PROVE  ResultInv'
  BY <1>6 DEF RunCall
<1>7. ASSUME NEW reason \in {"skill", "exception", "cancelled"}, Abort(reason)
      PROVE  ResultInv'
  BY <1>7 DEF Abort, Raises
<1>8. CASE TerminalRound
  BY <1>8 DEF TerminalRound
<1>9. CASE FinishHousekeeping
  BY <1>9 DEF FinishHousekeeping, Continue, NextRound, Repeats
<1>10. CASE AbandonHousekeeping
  BY <1>10 DEF AbandonHousekeeping, Raises
<1>11. CASE PromptOver
  BY <1>11 DEF PromptOver
<1>12. CASE UNCHANGED vars
  BY <1>12 DEF vars
<1>. QED
  BY <1>1, <1>2, <1>3, <1>4, <1>5, <1>6, <1>7, <1>8, <1>9, <1>10, <1>11, <1>12,
     ResultEndRound DEF Next

LEMMA ResultInit == Init => ResultInv
BY DEF Init, ResultInv, ResultIsReturned, Over

\* A prompt that wants a result returns one that was given and no other, and
\* no limit passes over it, with or without a housekeeping after its round
\* (run_agent_loop, perform_housekeeping).
THEOREM ResultsAreReturned == Spec => []ResultIsReturned
<1>1. ResultInv => ResultIsReturned
  BY DEF ResultInv
<1>. QED  BY <1>1, ResultInit, ResultStep, PTL DEF Spec

-----------------------------------------------------------------------------
\* The sequences housekeeping makes of the history.
LEMMA AppendNode ==
    ASSUME NEW S, NEW h \in Seq(S), NEW e
    PROVE  /\ Append(h, e) \in Seq(S \union {e})
           /\ Len(Append(h, e)) = Len(h) + 1
           /\ \A i \in 1 .. Len(h) : Append(h, e)[i] = h[i]
           /\ Append(h, e)[Len(h) + 1] = e
<1>1. h \in Seq(S \union {e})
  OBVIOUS
<1>. QED  BY <1>1

\* The cut is made above the newest user prompt, wherever the tail begins.
LEMMA CutIsAbove ==
    ASSUME NEW S, NEW nodes \in Seq(S), NEW i \in 1 .. Len(nodes),
           nodes[i].kind \in UserPrompts,
           \A j \in i + 1 .. Len(nodes) : nodes[j].kind \notin UserPrompts
    PROVE  CutPoint(nodes) \in 0 .. i - 1
<1>1. i \in Protected(nodes) /\ Protected(nodes) \subseteq 1 .. Len(nodes)
  BY DEF Protected, ProtectedTail
<1>2. PICK x \in Protected(nodes) :
        \A y \in Protected(nodes) : ~(<<y, x>> \in OpToRel(<, Nat))
  <2>1. Protected(nodes) \subseteq Nat /\ Protected(nodes) # {}
    BY <1>1
  <2>. HIDE DEF Protected
  <2>. QED  BY <2>1, WFMin, NatLessThanWellFounded
<1>3. \A y \in Protected(nodes) : x <= y
  <2>1. Protected(nodes) \subseteq Nat
    BY <1>1
  <2>. HIDE DEF Protected
  <2>2. \A y \in Protected(nodes) : ~(y < x)
    BY <1>2, <2>1, Zenon DEF OpToRel
  <2>. QED  BY <2>1, <2>2
<1>4. /\ Min(Protected(nodes)) \in Protected(nodes)
      /\ \A y \in Protected(nodes) : Min(Protected(nodes)) <= y
  BY <1>3 DEF Min
<1>. QED  BY <1>1, <1>4 DEF CutPoint

-----------------------------------------------------------------------------
\* What the running prompt is about, at place i, with no later user prompt
\* up to n.
IsOwnPrompt(node) ==
    \/ node = Ask(prompts)
    \/ structured /\ node = Nudge(prompts)
Newest(h, i, n) == IsOwnPrompt(h[i]) /\ \A j \in i + 1 .. n : h[j].kind \notin UserPrompts

\* Nothing of a housekeeping up to n, but for what is at place b.
Tidy(h, n, b) ==
    \A i \in 1 .. n : i # b => /\ h[i].kind \notin {"boundary", "hkask"}
                               /\ h[i].kind = "archive" => i = 1

\* While the sub-loop runs, the part above its request is as it was but for
\* the boundary, and the request is below the boundary; at other times the
\* request is the newest user prompt, until the prompt ends.
Waiting(o) ==
    /\ o.cut \in Nat /\ o.count \in Nat
    /\ o.cut < o.count /\ o.count + 1 <= Len(history)
    /\ \E i \in o.cut + 2 .. o.count + 1 : Newest(history, i, o.count + 1)
    /\ ~abandoned => Tidy(history, o.count + 1, o.cut + 1)

HistoryInv ==
    /\ \E S : history \in Seq(S)
    /\ pc \in {"idle", "request", "calls", "ended"}
    /\ outer # <<>> => pc # "idle" /\ Waiting(outer[1])
    /\ outer = <<>> =>
         /\ pc \in {"request", "calls"} =>
              \E i \in 1 .. Len(history) : Newest(history, i, Len(history))
         /\ pc = "ended" => \E i \in 1 .. Len(history) : IsOwnPrompt(history[i])
         /\ ~abandoned => Tidy(history, Len(history), 0)

Fixed == UNCHANGED <<prompts, structured, outer, abandoned>>

\* A step that leaves the history.
LEMMA QuietStep ==
    ASSUME HistoryInv, Fixed, history' = history,
           pc # pc' => pc \in {"request", "calls"} /\ pc' \in {"request", "calls", "ended"}
    PROVE  HistoryInv'
BY DEF HistoryInv, Fixed, Waiting, Newest, IsOwnPrompt, Tidy

\* A step that adds a turn to it.
LEMMA TurnStep ==
    ASSUME HistoryInv, Fixed, NEW n, history' = Append(history, Node("turn", n)),
           pc \in {"request", "calls"}, pc' \in {"request", "ended"}
    PROVE  HistoryInv'
<1>1. PICK S : history \in Seq(S)
  BY DEF HistoryInv
<1>2. /\ history' \in Seq(S \union {Node("turn", n)})
      /\ Len(history') = Len(history) + 1 /\ Len(history) \in Nat
      /\ \A i \in 1 .. Len(history) : history'[i] = history[i]
      /\ history'[Len(history) + 1].kind = "turn"
  BY <1>1, AppendNode DEF Node
<1>3. CASE outer = <<>>
  <2>1. PICK i \in 1 .. Len(history) : Newest(history, i, Len(history))
    BY <1>3 DEF HistoryInv
  <2>2. Newest(history, i, Len(history))'
    <3>1. IsOwnPrompt(history[i])'
      BY <1>2, <2>1 DEF Newest, IsOwnPrompt, Fixed
    <3>. QED  BY ONLY <3>1, <1>2, <2>1 DEF Newest, UserPrompts
  <2>3. ~abandoned' => Tidy(history, Len(history), 0)'
    BY <1>2, <1>3 DEF HistoryInv, Tidy, Fixed
  <2>4. IsOwnPrompt(history[i])' /\ i \in (1 .. Len(history))'
    BY <1>2, <2>2 DEF Newest
  <2>. QED  BY <1>2, <1>3, <2>2, <2>3, <2>4 DEF HistoryInv, Fixed
<1>4. CASE outer # <<>>
  <2>1. PICK o : o = outer[1] /\ Waiting(o)
    BY <1>4 DEF HistoryInv
  <2>2. PICK i \in o.cut + 2 .. o.count + 1 : Newest(history, i, o.count + 1)
    BY <2>1 DEF Waiting
  <2>3. \A j \in 1 .. o.count + 1 : history'[j] = history[j]
    BY <1>2, <2>1 DEF Waiting
  <2>4. Newest(history, i, o.count + 1)'
    <3>1. /\ IsOwnPrompt(history[i])
          /\ \A j \in i + 1 .. o.count + 1 : history[j].kind \notin UserPrompts
      BY ONLY <2>2 DEF Newest
    <3>2. o.cut \in Nat /\ o.count \in Nat
      BY ONLY <2>1 DEF Waiting
    <3>3. i \in 1 .. o.count + 1 /\ \A j \in i + 1 .. o.count + 1 : j \in 1 .. o.count + 1
      BY ONLY <2>2, <3>2
    <3>4. history'[i] = history[i]
      BY ONLY <2>3, <3>3
    <3>5. IsOwnPrompt(history[i])'
      BY <3>1, <3>4 DEF IsOwnPrompt, Fixed
    <3>6. \A j \in i + 1 .. o.count + 1 : history'[j].kind \notin UserPrompts
      BY ONLY <2>3, <3>1, <3>3
    <3>. QED  BY ONLY <3>5, <3>6 DEF Newest
  <2>5. ~abandoned => Tidy(history', o.count + 1, o.cut + 1)
    BY <2>1, <2>3 DEF Waiting, Tidy
  <2>6. Waiting(o)'
    <3>1. /\ o.cut \in Nat /\ o.count \in Nat
          /\ o.cut < o.count /\ o.count + 1 <= Len(history)
      BY ONLY <2>1 DEF Waiting
    <3>2. o.count + 1 <= Len(history') /\ abandoned' = abandoned
      BY <1>2, <3>1 DEF Fixed
    <3>3. Tidy(history', o.count + 1, o.cut + 1) => Tidy(history, o.count + 1, o.cut + 1)'
      BY ONLY DEF Tidy
    <3>. QED  BY ONLY <2>2, <2>4, <2>5, <3>1, <3>2, <3>3 DEF Waiting
  <2>7. outer'[1] = o
    BY <2>1 DEF Fixed
  <2>. QED  BY <1>2, <1>4, <2>6, <2>7 DEF HistoryInv, Fixed
<1>. QED  BY <1>3, <1>4

\* A nudge is the newest user prompt of one that wants a result.
LEMMA NudgeStep ==
    ASSUME HistoryInv, Fixed, structured, outer = <<>>,
           pc = "request", pc' \in {"request", "ended"},
           history' = history \o <<Node("turn", 0), Nudge(prompts)>>
    PROVE  HistoryInv'
<1>1. PICK S : history \in Seq(S)
  BY DEF HistoryInv
<1>2. PICK n, m : n = Node("turn", 0) /\ m = Nudge(prompts)
  OBVIOUS
<1>3. /\ history' \in Seq(S \union {n, m})
      /\ Len(history') = Len(history) + 2 /\ Len(history) \in Nat
      /\ \A i \in 1 .. Len(history) : history'[i] = history[i]
      /\ history'[Len(history) + 1] = n /\ history'[Len(history) + 2] = m
  <2>1. history' = history \o <<n, m>>
    BY <1>2
  <2>2. history \in Seq(S \union {n, m}) /\ <<n, m>> \in Seq(S \union {n, m})
    BY <1>1
  <2>. QED  BY ONLY <2>1, <2>2
<1>4. Newest(history, Len(history), Len(history))'
  BY <1>2, <1>3 DEF Newest, IsOwnPrompt, Fixed, Node
<1>5. ~abandoned' => Tidy(history, Len(history), 0)'
  BY <1>2, <1>3 DEF HistoryInv, Tidy, Fixed, Node, Nudge
<1>6. \E i \in (1 .. Len(history))' : Newest(history, i, Len(history))' /\ IsOwnPrompt(history[i])'
  <2>1. Len(history') \in 1 .. Len(history') /\ IsOwnPrompt(history[Len(history)])'
    BY <1>3, <1>4 DEF Newest
  <2>. QED  BY <2>1, <1>4
<1>. QED  BY <1>3, <1>5, <1>6 DEF HistoryInv, Fixed

\* A prompt starts at the end of the history, with or without a briefing.
LEMMA PromptStep ==
    ASSUME HistoryInv, NEW typed \in BOOLEAN, NEW briefing \in {0, 1}, Prompt(typed, briefing)
    PROVE  HistoryInv'
<1>1. PICK S : history \in Seq(S)
  BY DEF HistoryInv
<1>2. PICK a, n : a = Ask(prompts') /\ n = Node("turn", 1)
  OBVIOUS
<1>3. outer = <<>> /\ outer' = <<>> /\ pc' = "request" /\ abandoned' = abandoned
  BY DEF HistoryInv, Prompt
<1>4. /\ history' \in Seq(S \union {a, n})
      /\ Len(history) \in Nat /\ Len(history') \in {Len(history) + 1, Len(history) + 2}
      /\ \A i \in 1 .. Len(history) : history'[i] = history[i]
      /\ history'[Len(history) + 1] = a
      /\ Len(history') = Len(history) + 2 => history'[Len(history) + 2] = n
  <2>1. history' = history \o <<a>> \o [i \in 1 .. briefing |-> n]
    BY <1>2 DEF Prompt
  <2>2. history \in Seq(S \union {a, n}) /\ a \in S \union {a, n} /\ n \in S \union {a, n}
    BY <1>1
  <2>. QED  BY ONLY <2>1, <2>2, briefing \in {0, 1}
<1>5. PICK i : i = Len(history) + 1
  OBVIOUS
<1>6. a.kind = "ask" /\ n.kind = "turn"
  BY ONLY <1>2 DEF Ask, Node
<1>7. i \in (1 .. Len(history))' /\ Newest(history, i, Len(history))'
  <2>1. IsOwnPrompt(a)'
    BY ONLY <1>2 DEF IsOwnPrompt, Ask
  <2>. QED  BY ONLY <2>1, <1>4, <1>5, <1>6 DEF Newest, UserPrompts, IsOwnPrompt
<1>8. ~abandoned' => Tidy(history, Len(history), 0)'
  <2>1. ~abandoned => Tidy(history, Len(history), 0)
    BY <1>3 DEF HistoryInv
  <2>. QED  BY ONLY <2>1, <1>3, <1>4, <1>6 DEF Tidy
<1>. QED  BY <1>3, <1>4, <1>7, <1>8 DEF HistoryInv

\* The boundary and the request of a sub-loop go in, the prompt's request
\* stays below the boundary.
LEMMA StartStep ==
    ASSUME HistoryInv, outer = <<>>, pc = "calls",
           UNCHANGED <<prompts, structured, abandoned>>,
           NEW n, NEW fingerprint,
           CutPoint(Append(history, Node("turn", n))) > 0,
           StartHousekeeping(Append(history, Node("turn", n)), fingerprint)
    PROVE  HistoryInv'
<1>1. PICK S : history \in Seq(S)
  BY DEF HistoryInv
<1>2. PICK t, b, e, T : /\ t = Node("turn", n) /\ b = Node("boundary", 0) /\ e = Node("hkask", 0)
                        /\ T = S \union {t, b, e}
  OBVIOUS
<1>3. PICK nodes : nodes = Append(history, t)
  OBVIOUS
<1>4. /\ nodes \in Seq(T)
      /\ Len(nodes) = Len(history) + 1 /\ Len(history) \in Nat
      /\ \A i \in 1 .. Len(history) : nodes[i] = history[i]
      /\ nodes[Len(history) + 1] = t
  <2>1. history \in Seq(T) /\ t \in T
    BY <1>1, <1>2
  <2>. QED  BY ONLY <2>1, <1>3
<1>5. PICK i \in 1 .. Len(history) : Newest(history, i, Len(history))
  BY DEF HistoryInv
<1>6. /\ nodes[i].kind \in UserPrompts
      /\ \A j \in i + 1 .. Len(nodes) : nodes[j].kind \notin UserPrompts
      /\ IsOwnPrompt(nodes[i])
      /\ i \in 1 .. Len(nodes)
      /\ t.kind = "turn"
  <2>1. t.kind = "turn"
    BY ONLY <1>2 DEF Node
  <2>2. history[i].kind \in {"ask", "nudge"}
    BY ONLY <1>5 DEF Newest, IsOwnPrompt, Ask, Nudge
  <2>. QED  BY ONLY <2>1, <2>2, <1>4, <1>5 DEF Newest, UserPrompts
<1>7. PICK cut : cut = CutPoint(nodes)
  OBVIOUS
<1>8. cut \in 1 .. i - 1
  <2>1. cut \in 0 .. i - 1
    BY <1>4, <1>6, <1>7, CutIsAbove
  <2>2. cut > 0
    BY <1>2, <1>3, <1>7
  <2>. QED  BY <2>1, <2>2, <1>5
<1>9. PICK rest : rest = Len(nodes) - cut
  OBVIOUS
<1>10. cut \in Nat /\ rest \in Nat /\ Len(nodes) = cut + rest /\ b \in T /\ e \in T
  BY <1>2, <1>4, <1>5, <1>8, <1>9
<1>11. history' = SubSeq(nodes, 1, cut) \o <<b>> \o SubSeq(nodes, cut + 1, Len(nodes)) \o <<e>>
  BY <1>2, <1>3, <1>7 DEF StartHousekeeping
<1>12. /\ history' \in Seq(T)
       /\ Len(history') = cut + rest + 2
       /\ \A j \in 1 .. cut : history'[j] = nodes[j]
       /\ history'[cut + 1] = b
       /\ \A j \in 1 .. rest : history'[cut + 1 + j] = nodes[cut + j]
  <2>1. PICK p : p = SubSeq(nodes, 1, cut) \o <<b>> \o SubSeq(nodes, cut + 1, cut + rest)
    OBVIOUS
  <2>2. nodes \in Seq(T) /\ Len(nodes) = cut + rest
    BY ONLY <1>4, <1>10
  <2>3. cut \in Nat /\ rest \in Nat /\ b \in T
    BY ONLY <1>10
  <2>4. /\ p \in Seq(T) /\ Len(p) = cut + rest + 1
        /\ \A j \in 1 .. cut : p[j] = nodes[j]
        /\ p[cut + 1] = b
        /\ \A j \in 1 .. rest : p[cut + 1 + j] = nodes[cut + j]
    BY ONLY <2>1, <2>2, <2>3
  <2>5. history' = p \o <<e>>
    BY ONLY <2>1, <1>10, <1>11
  <2>6. cut + rest + 1 \in Nat /\ e \in T
    BY ONLY <1>10
  <2>7. /\ history' \in Seq(T) /\ Len(history') = cut + rest + 1 + 1
        /\ \A j \in 1 .. cut + rest + 1 : history'[j] = p[j]
    BY ONLY <2>4, <2>5, <2>6
  <2>8. /\ Len(history') = cut + rest + 2
        /\ \A j \in 1 .. cut : history'[j] = nodes[j]
    BY ONLY <2>3, <2>4, <2>7
  <2>9. history'[cut + 1] = b
    BY ONLY <2>3, <2>4, <2>7
  <2>10. \A j \in 1 .. rest : history'[cut + 1 + j] = nodes[cut + j]
    <3>1. ASSUME NEW j \in 1 .. rest
          PROVE  cut + 1 + j \in 1 .. cut + rest + 1
      BY ONLY <3>1, <2>3
    <3>. QED  BY ONLY <3>1, <2>4, <2>7
  <2>. QED  BY ONLY <2>7, <2>8, <2>9, <2>10
<1>13. \A j \in cut + 2 .. Len(nodes) + 1 : history'[j] = nodes[j - 1]
  <2>1. ASSUME NEW j \in cut + 2 .. Len(nodes) + 1
        PROVE  history'[j] = nodes[j - 1]
    <3>1. j - cut - 1 \in 1 .. rest /\ cut + 1 + (j - cut - 1) = j /\ cut + (j - cut - 1) = j - 1
      BY <2>1, <1>10
    <3>. QED  BY <3>1, <1>12
  <2>. QED  BY <2>1
<1>14. PICK o : o = [round |-> round, repeat |-> repeat, of |-> fingerprint,
                     cut |-> cut, count |-> Len(nodes)]
  OBVIOUS
<1>15. outer' = <<o>> /\ outer'[1] = o /\ outer' # <<>> /\ pc' = "request"
  BY <1>2, <1>3, <1>7, <1>14 DEF StartHousekeeping
<1>16. /\ o.cut = cut /\ o.count = Len(nodes)
       /\ o.cut \in Nat /\ o.count \in Nat
       /\ o.cut < o.count /\ o.count + 1 <= Len(history')
  <2>1. o.cut = cut /\ o.count = Len(nodes)
    BY ONLY <1>14
  <2>. QED  BY ONLY <2>1, <1>4, <1>5, <1>8, <1>10, <1>12
<1>17. PICK k : k = i + 1
  OBVIOUS
<1>18. k \in o.cut + 2 .. o.count + 1 /\ Newest(history, k, o.count + 1)'
  <2>1. k \in cut + 2 .. Len(nodes) + 1 /\ k - 1 = i
    BY <1>4, <1>5, <1>8, <1>17
  <2>2. history'[k] = nodes[i]
    BY <2>1, <1>13
  <2>3. \A j \in k + 1 .. Len(nodes) + 1 : history'[j].kind \notin UserPrompts
    <3>1. ASSUME NEW j \in k + 1 .. Len(nodes) + 1
          PROVE  history'[j].kind \notin UserPrompts
      <4>1. j \in cut + 2 .. Len(nodes) + 1 /\ j - 1 \in i + 1 .. Len(nodes)
        BY <1>4, <1>5, <1>8, <1>17
      <4>. QED  BY <4>1, <1>6, <1>13
    <3>. QED  BY <3>1
  <2>. QED  BY <1>6, <1>16, <2>1, <2>2, <2>3 DEF Newest, IsOwnPrompt
<1>19. ~abandoned => Tidy(history', o.count + 1, o.cut + 1)
  <2>1. ASSUME ~abandoned, NEW j \in 1 .. Len(nodes) + 1, j # cut + 1
        PROVE  /\ history'[j].kind \notin {"boundary", "hkask"}
               /\ history'[j].kind = "archive" => j = 1
    <3>1. \A l \in 1 .. Len(nodes) : /\ nodes[l].kind \notin {"boundary", "hkask"}
                                     /\ nodes[l].kind = "archive" => l = 1
      <4>1. Tidy(history, Len(history), 0)
        BY <2>1 DEF HistoryInv
      <4>. QED  BY ONLY <4>1, <1>4, <1>6 DEF Tidy
    <3>2. CASE j \in 1 .. cut
      BY <3>1, <3>2, <1>10, <1>12
    <3>3. CASE j \in cut + 2 .. Len(nodes) + 1
      <4>1. j - 1 \in 1 .. Len(nodes) /\ j - 1 # 1
        BY <3>3, <1>4, <1>8
      <4>. QED  BY <4>1, <3>1, <3>3, <1>13
    <3>. QED  BY <3>2, <3>3, <2>1, <1>10
  <2>. QED  BY <2>1, <1>16 DEF Tidy
<1>20. Waiting(o)'
  BY <1>16, <1>18, <1>19 DEF Waiting, Tidy
<1>. QED  BY <1>12, <1>15, <1>20 DEF HistoryInv

\* The surgery: an archive marker, what was kept, the housekeeping.
LEMMA FinishStep ==
    ASSUME HistoryInv, FinishHousekeeping
    PROVE  HistoryInv'
<1>1. PICK S : history \in Seq(S)
  BY DEF HistoryInv
<1>2. PICK o : o = outer[1] /\ Waiting(o)
  BY DEF FinishHousekeeping, HistoryInv
<1>3. PICK cut, rest : cut = o.cut /\ rest = o.count - o.cut
  OBVIOUS
<1>4. /\ cut \in Nat /\ rest \in Nat /\ cut + rest + 1 <= Len(history)
      /\ o.count = cut + rest
  <2>1. /\ o.cut \in Nat /\ o.count \in Nat
        /\ o.cut < o.count /\ o.count + 1 <= Len(history)
    BY ONLY <1>2 DEF Waiting
  <2>. QED  BY ONLY <2>1, <1>1, <1>3
<1>5. PICK a, k, T : /\ a = Node("archive", 0) /\ k = Node("hk", SumCalls(Additions))
                     /\ T = S \union {a, k}
  OBVIOUS
<1>6. a.kind = "archive" /\ k.kind = "hk"
  BY ONLY <1>5 DEF Node
<1>7. history' = <<a>> \o SubSeq(history, cut + 2, cut + rest + 1) \o <<k>>
  <2>1. Kept = SubSeq(history, cut + 2, cut + rest + 1)
    BY ONLY <1>2, <1>3, <1>4 DEF Kept
  <2>2. history' = <<a>> \o Kept \o <<k>>
    BY <1>5 DEF FinishHousekeeping
  <2>. QED  BY ONLY <2>1, <2>2
<1>8. /\ history' \in Seq(T) /\ Len(history') = rest + 2
      /\ history'[1] = a /\ history'[rest + 2] = k
      /\ \A i \in 1 .. rest : history'[1 + i] = history[cut + 1 + i]
  <2>1. history \in Seq(T) /\ a \in T /\ k \in T
    BY ONLY <1>1, <1>5
  <2>. QED  BY ONLY <2>1, <1>4, <1>7
<1>9. PICK i \in cut + 2 .. cut + rest + 1 : Newest(history, i, cut + rest + 1)
  BY ONLY <1>2, <1>3, <1>4 DEF Waiting
<1>10. UNCHANGED <<prompts, structured, abandoned>> /\ outer' = <<>> /\ pc' \in {"request", "ended"}
  BY DEF FinishHousekeeping, promptVars, Continue, NextRound, Repeats, End
<1>11. PICK j : j = i - cut
  OBVIOUS
<1>12. j \in 2 .. rest + 1 /\ history'[j] = history[i]
  <2>1. j \in 2 .. rest + 1 /\ j - 1 \in 1 .. rest /\ 1 + (j - 1) = j /\ cut + 1 + (j - 1) = i
    BY ONLY <1>4, <1>9, <1>11
  <2>. QED  BY ONLY <2>1, <1>8
<1>13. Newest(history, j, Len(history))'
  <2>1. IsOwnPrompt(history[j])'
    BY ONLY <1>9, <1>10, <1>12 DEF Newest, IsOwnPrompt
  <2>2. ASSUME NEW l \in j + 1 .. Len(history')
        PROVE  history'[l].kind \notin UserPrompts
    <3>1. CASE l = rest + 2
      BY ONLY <3>1, <1>6, <1>8 DEF UserPrompts
    <3>2. CASE l # rest + 2
      <4>1. /\ l - 1 \in 1 .. rest /\ 1 + (l - 1) = l
            /\ cut + 1 + (l - 1) = cut + l /\ cut + l \in i + 1 .. cut + rest + 1
        BY ONLY <3>2, <2>2, <1>4, <1>8, <1>9, <1>11, <1>12
      <4>. QED  BY ONLY <4>1, <1>8, <1>9 DEF Newest
    <3>. QED  BY ONLY <3>1, <3>2
  <2>. QED  BY ONLY <2>1, <2>2 DEF Newest
<1>14. ASSUME ~abandoned PROVE Tidy(history, Len(history), 0)'
  <2>1. Tidy(history, cut + rest + 1, cut + 1)
    BY ONLY <1>2, <1>3, <1>4, <1>14 DEF Waiting
  <2>2. ASSUME NEW l \in 1 .. Len(history')
        PROVE  /\ history'[l].kind \notin {"boundary", "hkask"}
               /\ history'[l].kind = "archive" => l = 1
    <3>1. CASE l = 1
      BY ONLY <3>1, <1>6, <1>8
    <3>2. CASE l = rest + 2
      BY ONLY <3>2, <1>6, <1>8
    <3>3. CASE l # 1 /\ l # rest + 2
      <4>1. /\ l - 1 \in 1 .. rest /\ 1 + (l - 1) = l
            /\ cut + 1 + (l - 1) \in 1 .. cut + rest + 1
            /\ cut + 1 + (l - 1) # cut + 1 /\ cut + 1 + (l - 1) # 1
        BY ONLY <3>3, <2>2, <1>4, <1>8
      <4>. QED  BY ONLY <4>1, <2>1, <1>8 DEF Tidy
    <3>. QED  BY ONLY <3>1, <3>2, <3>3
  <2>. QED  BY ONLY <2>2 DEF Tidy
<1>15. j \in (1 .. Len(history))' /\ IsOwnPrompt(history[j])'
  BY ONLY <1>4, <1>8, <1>12, <1>13 DEF Newest
<1>. QED  BY <1>8, <1>10, <1>13, <1>14, <1>15 DEF HistoryInv

LEMMA HistoryEndRound ==
    ASSUME HistoryInv, NEW progress \in BOOLEAN, NEW large \in BOOLEAN, EndRound(progress, large)
    PROVE  HistoryInv'
<1>1. PICK n : n = Len(results)
  OBVIOUS
<1>2. PICK nodes : nodes = Append(history, Node("turn", n))
  OBVIOUS
<1>3. pc = "calls" /\ UNCHANGED <<prompts, structured, abandoned>>
  BY DEF EndRound, promptVars
<1>4. CASE /\ outer = <<>>
           /\ CutPoint(nodes) > 0
           /\ StartHousekeeping(nodes, Fingerprint)
  BY <1>2, <1>3, <1>4, StartStep
<1>5. CASE history' = nodes /\ outer' = outer /\ pc' \in {"request", "ended"}
  BY <1>2, <1>3, <1>5, TurnStep DEF Fixed
<1>. QED
  BY <1>1, <1>2, <1>4, <1>5 DEF EndRound, Continue, NextRound, Repeats, End

LEMMA HistoryStep ==
    ASSUME HistoryInv, [Next]_vars
    PROVE  HistoryInv'
<1>. USE DEF roundVars, promptVars, trackers, End, Fixed
<1>1. ASSUME NEW typed \in BOOLEAN, NEW briefing \in {0, 1}, Prompt(typed, briefing)
      PROVE  HistoryInv'
  BY <1>1, PromptStep
<1>2. CASE LimitReached
  BY <1>2, QuietStep DEF LimitReached
<1>3. ASSUME NEW kind \in DOMAIN Retries, RequestFails(kind)
      PROVE  HistoryInv'
  BY <1>3, QuietStep DEF RequestFails
<1>4. ASSUME NEW saying \in Sayings, TextAnswer(saying)
      PROVE  HistoryInv'
  <2>1. CASE structured /\ outer = <<>>
    BY <1>4, <2>1, NudgeStep DEF TextAnswer, Repeats
  <2>2. CASE ~(structured /\ outer = <<>>)
    BY <1>4, <2>2, TurnStep DEF TextAnswer
  <2>. QED  BY <2>1, <2>2
<1>5. ASSUME NEW saying \in Sayings, NEW n \in 1 .. MaxCalls, CallsAnswer(saying, n)
      PROVE  HistoryInv'
  BY <1>5, QuietStep DEF CallsAnswer
<1>6. ASSUME NEW result, NEW captures, RunCall(result, captures)
      PROVE  HistoryInv'
  BY <1>6, QuietStep DEF RunCall
<1>7. ASSUME NEW reason \in {"skill", "exception", "cancelled"}, Abort(reason)
      PROVE  HistoryInv'
  BY <1>7, QuietStep DEF Abort
<1>8. CASE TerminalRound
  BY <1>8, TurnStep DEF TerminalRound
<1>9. CASE AbandonHousekeeping
  <2>1. PICK i \in 1 .. Len(history) : IsOwnPrompt(history[i])
    <3>1. PICK o : o = outer[1] /\ Waiting(o)
      BY <1>9 DEF AbandonHousekeeping, HistoryInv
    <3>2. PICK i \in o.cut + 2 .. o.count + 1 : IsOwnPrompt(history[i])
      BY ONLY <3>1 DEF Waiting, Newest
    <3>3. i \in 1 .. Len(history)
      BY ONLY <3>1, <3>2 DEF Waiting
    <3>. QED  BY <3>2, <3>3
  <2>2. IsOwnPrompt(history[i])' /\ i \in (1 .. Len(history))'
    BY <1>9, <2>1 DEF AbandonHousekeeping, IsOwnPrompt
  <2>3. \E S : history' \in Seq(S)
    BY <1>9 DEF AbandonHousekeeping, HistoryInv
  <2>. QED  BY <1>9, <2>2, <2>3 DEF AbandonHousekeeping, HistoryInv
<1>10. CASE PromptOver
  BY <1>10 DEF PromptOver, HistoryInv, Tidy
<1>11. CASE UNCHANGED vars
  BY <1>11, QuietStep DEF vars
<1>. QED
  BY <1>1, <1>2, <1>3, <1>4, <1>5, <1>6, <1>7, <1>8, <1>9, <1>10, <1>11,
     FinishStep, HistoryEndRound DEF Next

LEMMA HistoryInit == Init => HistoryInv
BY DEF Init, HistoryInv, Tidy

\* The request of the running prompt or, where it was nudged, a nudge of its own
\* is in the history whatever a housekeeping cut off, at any size of the tails:
\* a prompt that was not nudged keeps its request
\* (HistoryTree._protected_indices, perform_housekeeping).
THEOREM OwnPromptIsNeverCut == Spec => []OwnPromptSurvives
<1>1. ASSUME HistoryInv PROVE OwnPromptSurvives
  <2>1. CASE outer = <<>> /\ pc # "idle"
    <3>1. PICK i \in 1 .. Len(history) : IsOwnPrompt(history[i])
      BY <1>1, <2>1 DEF HistoryInv, Newest
    <3>. QED  BY <1>1, <3>1 DEF OwnPromptSurvives, IsOwnPrompt, HistoryInv
  <2>2. CASE outer # <<>>
    <3>1. PICK o : o = outer[1] /\ Waiting(o)
      BY <1>1, <2>2 DEF HistoryInv
    <3>2. PICK i \in o.cut + 2 .. o.count + 1 : IsOwnPrompt(history[i])
      BY ONLY <3>1 DEF Waiting, Newest
    <3>3. i \in 1 .. Len(history)
      BY ONLY <3>1, <3>2 DEF Waiting
    <3>. QED  BY <1>1, <3>2, <3>3 DEF OwnPromptSurvives, IsOwnPrompt, HistoryInv
  <2>. QED  BY <2>1, <2>2 DEF OwnPromptSurvives
<1>. QED  BY <1>1, HistoryInit, HistoryStep, PTL DEF Spec

\* A finished housekeeping leaves neither its boundary nor its request, and
\* its marker is the first node, however often it ran (perform_housekeeping).
THEOREM HousekeepingIsTidy == Spec => []HousekeepingTidies
<1>1. HistoryInv => HousekeepingTidies
  BY DEF HistoryInv, HousekeepingTidies, Tidy
<1>. QED  BY <1>1, HistoryInit, HistoryStep, PTL DEF Spec
-----------------------------------------------------------------------------
\* The limits of a prompt, as its rounds go by.  What runs and what ran:
CallsInv ==
    /\ pc \in {"idle", "request", "calls", "ended"}
    /\ prompts \in 0 .. MaxPrompts /\ structured \in BOOLEAN
    /\ said \in Sayings \union {Nothing}
    /\ todo \in 0 .. MaxCalls
    /\ results \in Seq({"ok", "error"}) /\ Len(results) + todo <= MaxCalls
    /\ captured \in BOOLEAN /\ abandoned \in BOOLEAN
    /\ ended \in Ends \union Raises \union {Nothing}
    /\ pc # "calls" => results = <<>>
    /\ pc = "idle" => outer = <<>>

\* the retries of a request;
TriesInv ==
    /\ tries \in [DOMAIN Retries -> Nat]
    /\ \A k \in DOMAIN Retries : tries[k] <= Retries[k]

\* the repetitions, of the loop that runs and of the one that waits;
Counts(tracker) ==
    \E of, count : /\ tracker = [of |-> of, count |-> count]
                   /\ count \in 0 .. MaxRepeated - 1
RepeatInv == Counts(repeat) /\ (outer # <<>> => Counts(outer[1].repeat))

\* and the rounds: a streak is no longer than the rounds there were, and the
\* loop that waits for its housekeeping has a round to go on from.
StreakInv ==
    /\ round \in 0 .. Limit
    /\ stall.count \in 0 .. MaxRounds
    /\ pc = "calls" => round < Limit
    /\ outer = <<>> /\ pc # "ended" => stall.count <= round
    /\ outer # <<>> => /\ outer[1].round \in 0 .. MaxRounds - 1
                       /\ stall.count <= outer[1].round + 1

LEMMA NoneCounts == Counts(NoRepeat)
<1>1. NoRepeat = [of |-> Nothing, count |-> 0] /\ 0 \in 0 .. MaxRepeated - 1
  BY DEF NoRepeat
<1>. QED  BY <1>1, Zenon DEF Counts

LEMMA RoundInit == Init => CallsInv /\ TriesInv /\ RepeatInv /\ StreakInv
<1>. SUFFICES ASSUME Init PROVE CallsInv /\ TriesInv /\ RepeatInv /\ StreakInv
  OBVIOUS
<1>1. CallsInv
  <2>1. /\ results = <<>> /\ Len(results) = 0 /\ results \in Seq({"ok", "error"})
        /\ todo = 0 /\ prompts = 0
    BY DEF Init
  <2>2. Len(results) + todo <= MaxCalls /\ todo \in 0 .. MaxCalls /\ prompts \in 0 .. MaxPrompts
    BY <2>1
  <2>. QED  BY <2>1, <2>2, Zenon DEF Init, CallsInv
<1>2. TriesInv
  BY DEF Init, TriesInv, NoTries
<1>3. RepeatInv
  BY NoneCounts, Zenon DEF Init, RepeatInv
<1>4. StreakInv
  BY DEF Init, StreakInv, Limit, NoStall
<1>. QED  BY <1>1, <1>2, <1>3, <1>4

\* One more of the same, or the first of another, or the last straw.
LEMMA RepeatsStep ==
    ASSUME NEW tracker, Counts(tracker), NEW fingerprint, Repeats(tracker, fingerprint)
    PROVE  /\ Counts(repeat)' /\ pc' \in {"request", "ended"}
           /\ ended' \in {ended, "repetition"}
<1>1. PICK of, count : tracker = [of |-> of, count |-> count] /\ count \in 0 .. MaxRepeated - 1
  BY DEF Counts
<1>2. PICK now : now = Observed(tracker, fingerprint)
  OBVIOUS
<1>3. \E n \in 1 .. count + 1 : now = [of |-> fingerprint, count |-> n] /\ now.count = n
  <2>1. tracker.of = of /\ count + 1 \in 1 .. count + 1 /\ 1 \in 1 .. count + 1
    BY <1>1
  <2>2. CASE fingerprint = of
    <3>1. now = [tracker EXCEPT !.count = @ + 1]
      BY <1>2, <2>1, <2>2, Zenon DEF Observed
    <3>2. now = [of |-> fingerprint, count |-> count + 1] /\ now.count = count + 1
      BY ONLY <1>1, <2>2, <3>1
    <3>. QED  BY <2>1, <3>2
  <2>3. CASE fingerprint # of
    <3>1. now = [of |-> fingerprint, count |-> 1]
      BY <1>2, <2>1, <2>3, Zenon DEF Observed
    <3>2. now.count = 1
      BY ONLY <3>1
    <3>. QED  BY <2>1, <3>1, <3>2
  <2>. QED  BY <2>2, <2>3
<1>4. CASE now.count >= MaxRepeated
  BY <1>2, <1>4 DEF Repeats, Counts, End
<1>5. CASE ~(now.count >= MaxRepeated)
  <2>1. repeat' = now /\ pc' = "request" /\ ended' = ended
    BY <1>2, <1>5 DEF Repeats
  <2>2. PICK n \in 1 .. count + 1 : now = [of |-> fingerprint, count |-> n] /\ now.count = n
    BY <1>3
  <2>3. n \in 0 .. MaxRepeated - 1
    BY <1>1, <1>5, <2>2
  <2>. QED  BY <2>1, <2>2, <2>3 DEF Counts
<1>. QED  BY <1>4, <1>5

LEMMA NextRoundStep ==
    ASSUME NEW nowRound, NEW tracker, Counts(tracker), NEW fingerprint,
           NextRound(nowRound, tracker, fingerprint)
    PROVE  /\ Counts(repeat)' /\ pc' \in {"request", "ended"}
           /\ ended' \in {ended, "repetition"}
           /\ round' = nowRound + 1
<1>1. CASE fingerprint = Nothing
  BY <1>1, NoneCounts, Zenon DEF NextRound
<1>2. CASE fingerprint # Nothing
  <2>1. Repeats(tracker, fingerprint) /\ round' = nowRound + 1
    BY <1>2 DEF NextRound
  <2>. QED  BY <2>1, RepeatsStep
<1>. QED  BY <1>1, <1>2

LEMMA ContinueStep ==
    ASSUME NEW nowRound, NEW tracker, Counts(tracker), NEW fingerprint,
           Continue(nowRound, tracker, fingerprint)
    PROVE  /\ Counts(repeat)' /\ pc' \in {"request", "ended"}
           /\ ended' \in {ended, "repetition", "returned"}
           /\ round' \in {nowRound, nowRound + 1}
           /\ pc' = "request" => round' = nowRound + 1
<1>1. CASE captured
  <2>1. repeat' = tracker /\ pc' = "ended" /\ ended' = "returned" /\ round' = nowRound
    BY <1>1 DEF Continue, End
  <2>. QED  BY <2>1
<1>2. CASE ~captured
  <2>1. NextRound(nowRound, tracker, fingerprint)
    BY <1>2 DEF Continue
  <2>. QED  BY <2>1, NextRoundStep
<1>. QED  BY <1>1, <1>2

\* How a round of calls ends.
LEMMA EndRoundCases ==
    ASSUME RepeatInv, NEW progress \in BOOLEAN, NEW large \in BOOLEAN, EndRound(progress, large)
    PROVE  /\ pc = "calls" /\ pc' \in {"request", "ended"}
           /\ ended' \in {ended, "repetition", "returned", "no_progress"}
           /\ Counts(repeat)'
           /\ \/ /\ outer = <<>> /\ outer' # <<>> /\ pc' = "request"
                 /\ round' = 0 /\ outer'[1].round = round /\ outer'[1].repeat = repeat
              \/ /\ UNCHANGED outer
                 /\ round' \in {round, round + 1}
                 /\ pc' = "request" => round' = round + 1
<1>1. Counts(repeat) /\ pc = "calls"
  BY DEF RepeatInv, EndRound
<1>2. CASE \E nodes : outer = <<>> /\ StartHousekeeping(nodes, Fingerprint)
  <2>1. PICK o : /\ outer' = <<o>> /\ o.round = round /\ o.repeat = repeat
    BY <1>2 DEF StartHousekeeping
  <2>2. outer' # <<>> /\ outer'[1] = o
    BY ONLY <2>1
  <2>3. pc' = "request" /\ round' = 0 /\ repeat' = NoRepeat /\ ended' = ended
    BY <1>2 DEF StartHousekeeping
  <2>. QED  BY <1>1, <1>2, <2>1, <2>2, <2>3, NoneCounts
<1>3. CASE End("no_progress") /\ UNCHANGED <<round, repeat, outer>>
  BY <1>1, <1>3 DEF End
<1>4. CASE Continue(round, repeat, Fingerprint) /\ UNCHANGED outer
  BY <1>1, <1>4, ContinueStep
<1>5. CASE NextRound(round, repeat, Fingerprint) /\ UNCHANGED outer
  BY <1>1, <1>5, NextRoundStep
<1>. QED  BY <1>2, <1>3, <1>4, <1>5 DEF EndRound

LEMMA CallsStep ==
    ASSUME CallsInv, RepeatInv, [Next]_vars
    PROVE  CallsInv'
<1>. USE DEF CallsInv, roundVars, promptVars, trackers, End, Ends, Raises
<1>1. ASSUME NEW typed \in BOOLEAN, NEW briefing \in {0, 1}, Prompt(typed, briefing)
      PROVE  CallsInv'
  BY <1>1 DEF Prompt
<1>2. CASE LimitReached
  BY <1>2 DEF LimitReached
<1>3. ASSUME NEW kind \in DOMAIN Retries, RequestFails(kind)
      PROVE  CallsInv'
  BY <1>3 DEF RequestFails
<1>4. ASSUME NEW saying \in Sayings, TextAnswer(saying)
      PROVE  CallsInv'
  BY <1>4 DEF TextAnswer, Repeats
<1>5. ASSUME NEW saying \in Sayings, NEW n \in 1 .. MaxCalls, CallsAnswer(saying, n)
      PROVE  CallsInv'
  BY <1>5 DEF CallsAnswer
<1>6. ASSUME NEW result \in {"ok", "error"}, NEW captures \in BOOLEAN, RunCall(result, captures)
      PROVE  CallsInv'
  BY <1>6 DEF RunCall
<1>7. ASSUME NEW reason \in {"skill", "exception", "cancelled"}, Abort(reason)
      PROVE  CallsInv'
  BY <1>7 DEF Abort
<1>8. ASSUME NEW progress \in BOOLEAN, NEW large \in BOOLEAN, EndRound(progress, large)
      PROVE  CallsInv'
  <2>1. /\ said' = Nothing /\ results' = <<>> /\ todo' = todo
        /\ UNCHANGED <<prompts, structured, captured, abandoned>>
    BY <1>8 DEF EndRound
  <2>2. /\ pc' \in {"request", "ended"}
        /\ ended' \in {ended, "repetition", "returned", "no_progress"}
    BY <1>8, EndRoundCases
  <2>. QED  BY ONLY <2>1, <2>2, CallsInv, PromptAssumption DEF CallsInv, Ends, PromptAssumption
<1>9. CASE TerminalRound
  BY <1>9 DEF TerminalRound
<1>10. CASE FinishHousekeeping
  <2>1. /\ UNCHANGED <<prompts, structured, roundVars, captured, abandoned>>
        /\ Continue(outer[1].round, outer[1].repeat, outer[1].of) /\ Counts(outer[1].repeat)
        /\ pc = "ended"
    BY <1>10 DEF FinishHousekeeping, RepeatInv
  <2>2. /\ pc' \in {"request", "ended"} /\ ended' \in {ended, "repetition", "returned"}
    BY ONLY <2>1, ContinueStep
  <2>. QED  BY <2>1, <2>2
<1>11. CASE AbandonHousekeeping
  BY <1>11 DEF AbandonHousekeeping
<1>12. CASE PromptOver
  BY <1>12 DEF PromptOver
<1>13. CASE UNCHANGED vars
  BY <1>13 DEF vars
<1>. QED
  BY <1>1, <1>2, <1>3, <1>4, <1>5, <1>6, <1>7, <1>8, <1>9, <1>10, <1>11, <1>12, <1>13 DEF Next

LEMMA TriesStep ==
    ASSUME TriesInv, [Next]_vars
    PROVE  TriesInv'
<1>1. CASE UNCHANGED tries
  BY <1>1 DEF TriesInv
<1>2. CASE tries' = NoTries
  BY <1>2 DEF TriesInv, NoTries
<1>3. CASE \E kind \in DOMAIN Retries :
              tries[kind] < Retries[kind] /\ tries' = [tries EXCEPT ![kind] = @ + 1]
  BY <1>3 DEF TriesInv
<1>4. \/ UNCHANGED tries
      \/ tries' = NoTries
      \/ \E kind \in DOMAIN Retries :
            tries[kind] < Retries[kind] /\ tries' = [tries EXCEPT ![kind] = @ + 1]
  BY Zenon DEF Next, vars, Prompt, LimitReached, RequestFails, TextAnswer, CallsAnswer, RunCall,
     Abort, EndRound, TerminalRound, FinishHousekeeping, AbandonHousekeeping, PromptOver
<1>. QED  BY <1>1, <1>2, <1>3, <1>4

LEMMA RepeatStep ==
    ASSUME RepeatInv, [Next]_vars
    PROVE  RepeatInv'
<1>1. CASE UNCHANGED <<repeat, outer>>
  BY <1>1 DEF RepeatInv, Counts
<1>2. ASSUME NEW saying \in Sayings, TextAnswer(saying)
      PROVE  RepeatInv'
  <2>1. CASE structured /\ outer = <<>>
    <3>1. Repeats(repeat, <<"text", saying>>) /\ UNCHANGED outer
      BY <1>2, <2>1 DEF TextAnswer
    <3>. QED  BY <2>1, <3>1, RepeatsStep DEF RepeatInv
  <2>2. CASE ~(structured /\ outer = <<>>)
    BY <1>1, <1>2, <2>2 DEF TextAnswer
  <2>. QED  BY <2>1, <2>2
<1>3. ASSUME NEW progress \in BOOLEAN, NEW large \in BOOLEAN, EndRound(progress, large)
      PROVE  RepeatInv'
  <2>1. Counts(repeat)'
    BY <1>3, EndRoundCases
  <2>2. CASE UNCHANGED outer
    BY <2>1, <2>2 DEF RepeatInv, Counts
  <2>3. CASE outer'[1].repeat = repeat
    BY <2>1, <2>3 DEF RepeatInv, Counts
  <2>. QED  BY <1>3, <2>2, <2>3, EndRoundCases
<1>4. CASE FinishHousekeeping
  <2>1. /\ Continue(outer[1].round, outer[1].repeat, outer[1].of) /\ Counts(outer[1].repeat)
        /\ outer' = <<>>
    BY <1>4 DEF FinishHousekeeping, RepeatInv
  <2>. QED  BY <2>1, ContinueStep DEF RepeatInv
<1>5. CASE AbandonHousekeeping
  BY <1>5 DEF AbandonHousekeeping, RepeatInv
<1>6. CASE PromptOver
  BY <1>6, NoneCounts DEF PromptOver, RepeatInv
<1>. QED
  BY <1>1, <1>2, <1>3, <1>4, <1>5, <1>6 DEF Next, vars, trackers, Prompt, LimitReached,
     RequestFails, CallsAnswer, RunCall, Abort, TerminalRound

LEMMA StreakStep ==
    ASSUME StallInv, CallsInv, RepeatInv, StreakInv, [Next]_vars
    PROVE  StreakInv'
<1>. USE DEF trackers
<1>1. CASE UNCHANGED <<pc, round, stall, outer>>
  BY <1>1 DEF StreakInv, Limit
<1>2. CASE UNCHANGED <<round, outer>> /\ stall'.count = stall.count /\ pc' = "ended"
  BY <1>2 DEF StreakInv, Limit
<1>3. CASE UNCHANGED <<round, outer>> /\ stall'.count = stall.count /\ pc = "request" /\ round < Limit
  BY <1>3 DEF StreakInv, Limit
<1>4. ASSUME NEW typed \in BOOLEAN, NEW briefing \in {0, 1}, Prompt(typed, briefing)
      PROVE  StreakInv'
  BY <1>4 DEF Prompt, StreakInv, Limit
<1>5. ASSUME NEW saying \in Sayings, TextAnswer(saying)
      PROVE  StreakInv'
  <2>1. stall'.count = stall.count /\ pc = "request" /\ round < Limit /\ UNCHANGED outer
    BY <1>5 DEF TextAnswer, Shown, StallInv
  <2>2. CASE structured /\ outer = <<>>
    <3>1. pc' \in {"request", "ended"} /\ round' = round + 1
      BY <1>5, <2>2 DEF TextAnswer, Repeats, End
    <3>. QED  BY <2>1, <2>2, <3>1 DEF StreakInv, Limit
  <2>3. CASE ~(structured /\ outer = <<>>)
    <3>1. pc' = "ended" /\ UNCHANGED round
      BY <1>5, <2>3 DEF TextAnswer, End
    <3>. QED  BY <1>2, <2>1, <3>1
  <2>. QED  BY <2>2, <2>3
<1>6. ASSUME NEW saying \in Sayings, NEW n \in 1 .. MaxCalls, CallsAnswer(saying, n)
      PROVE  StreakInv'
  BY <1>3, <1>6 DEF CallsAnswer, Shown, StallInv
<1>7. ASSUME NEW progress \in BOOLEAN, NEW large \in BOOLEAN, EndRound(progress, large)
      PROVE  StreakInv'
  <2>1. round < Limit /\ round \in Nat /\ pc' \in {"request", "ended"}
    BY <1>7, EndRoundCases DEF StreakInv, Limit
  <2>2. CASE outer = <<>>
    <3>1. round \in 0 .. MaxRounds - 1 /\ stall.count \in 0 .. round
      BY <1>7, <2>1, <2>2 DEF EndRound, StreakInv, Limit
    <3>2. stall'.count \in 0 .. round + 1
      <4>1. stall' = Stalled(progress) /\ stall \in [count : Nat, warned : BOOLEAN, shown : BOOLEAN]
        BY <1>7, <2>2 DEF EndRound, StallInv
      <4>2. Stalled(progress).count \in {0, stall.count + 1}
        BY <4>1 DEF Stalled, NoStall
      <4>. QED  BY ONLY <4>1, <4>2, <3>1
    <3>3. CASE outer' # <<>> /\ round' = 0 /\ outer'[1].round = round /\ pc' = "request"
      BY <3>1, <3>2, <3>3 DEF StreakInv, Limit
    <3>4. CASE UNCHANGED outer /\ round' \in {round, round + 1} /\ (pc' = "request" => round' = round + 1)
      BY <2>1, <2>2, <3>1, <3>2, <3>4 DEF StreakInv, Limit
    <3>. QED  BY <1>7, <3>3, <3>4, EndRoundCases
  <2>3. CASE outer # <<>>
    <3>1. UNCHANGED <<outer, stall>>
      BY <1>7, <2>3 DEF EndRound
    <3>2. round' \in {round, round + 1}
      BY <1>7, <2>3, EndRoundCases
    <3>. QED  BY <2>1, <2>3, <3>1, <3>2 DEF StreakInv, Limit
  <2>. QED  BY <2>2, <2>3
<1>8. CASE FinishHousekeeping
  <2>1. /\ outer # <<>> /\ outer' = <<>> /\ stall' = stall
        /\ Continue(outer[1].round, outer[1].repeat, outer[1].of) /\ Counts(outer[1].repeat)
    BY <1>8 DEF FinishHousekeeping, RepeatInv
  <2>2. /\ pc' \in {"request", "ended"}
        /\ round' \in {outer[1].round, outer[1].round + 1}
        /\ pc' = "request" => round' = outer[1].round + 1
    BY <2>1, ContinueStep
  <2>. QED  BY <2>1, <2>2 DEF StreakInv, Limit
<1>9. CASE AbandonHousekeeping
  BY <1>9 DEF AbandonHousekeeping, StreakInv, Limit
<1>10. CASE PromptOver
  BY <1>10 DEF PromptOver, StreakInv, Limit, NoStall
<1>11. CASE LimitReached
  BY <1>2, <1>11 DEF LimitReached, End
<1>12. ASSUME NEW kind \in DOMAIN Retries, RequestFails(kind)
       PROVE  StreakInv'
  <2>1. UNCHANGED <<round, stall, outer>> /\ (pc' = "ended" \/ UNCHANGED pc)
    BY <1>12 DEF RequestFails, End
  <2>. QED  BY <1>1, <1>2, <2>1
<1>13. ASSUME NEW result, NEW captures, RunCall(result, captures)
       PROVE  StreakInv'
  BY <1>1, <1>13 DEF RunCall
<1>14. ASSUME NEW reason, Abort(reason)
       PROVE  StreakInv'
  BY <1>2, <1>14 DEF Abort, End
<1>15. CASE TerminalRound
  BY <1>2, <1>15 DEF TerminalRound, End
<1>16. CASE UNCHANGED vars
  BY <1>1, <1>16 DEF vars
<1>. QED
  BY <1>4, <1>5, <1>6, <1>7, <1>8, <1>9, <1>10, <1>11, <1>12, <1>13, <1>14, <1>15, <1>16 DEF Next

-----------------------------------------------------------------------------
\* The calls a piece of history holds.
LEMMA NodesHaveCalls ==
    ASSUME NEW nodes \in Seq(Nodes)
    PROVE  /\ DOMAIN nodes = 1 .. Len(nodes) /\ Len(nodes) \in Nat
           /\ \A i \in 1 .. Len(nodes) : nodes[i] \in Nodes /\ nodes[i].calls \in Nat
<1>1. \A node \in Nodes : node.calls \in Nat
  BY DEF Nodes
<1>2. \A i \in 1 .. Len(nodes) : nodes[i] \in Nodes
  OBVIOUS
<1>. QED  BY <1>1, <1>2

\* The calls of the nodes are finitely many, as each node has a number of them.
LEMMA CallsAreFinite ==
    ASSUME NEW nodes \in Seq(Nodes)
    PROVE  /\ IsFiniteSet(CallsOf(nodes)) /\ SumCalls(nodes) \in Nat
           /\ \A c \in CallsOf(nodes) :
                /\ c = <<c[1], c[2]>>
                /\ c[1] \in 1 .. Len(nodes) /\ c[2] \in 1 .. nodes[c[1]].calls
           /\ \A i \in 1 .. Len(nodes), k \in Nat \ {0} :
                <<i, k>> \in CallsOf(nodes) <=> k <= nodes[i].calls
<1>1. /\ DOMAIN nodes = 1 .. Len(nodes) /\ Len(nodes) \in Nat
      /\ \A i \in 1 .. Len(nodes) : nodes[i].calls \in Nat
  BY NodesHaveCalls
<1>2. PICK row : row = [i \in 1 .. Len(nodes) |-> {i} \X (1 .. nodes[i].calls)]
  OBVIOUS
<1>3. PICK rows : rows = {{i} \X (1 .. nodes[i].calls) : i \in DOMAIN nodes}
  OBVIOUS
<1>4. row \in Surjection(1 .. Len(nodes), rows)
  BY <1>1, <1>2, <1>3 DEF Surjection
<1>5. IsFiniteSet(rows)
  <2>1. IsFiniteSet(1 .. Len(nodes))
    BY <1>1, FS_Interval
  <2>. QED  BY <1>4, <2>1, FS_Surjection
<1>6. \A R \in rows : IsFiniteSet(R)
  <2>1. ASSUME NEW i \in 1 .. Len(nodes)
        PROVE  IsFiniteSet({i} \X (1 .. nodes[i].calls))
    <3>1. nodes[i].calls \in Int /\ 1 \in Int
      BY <1>1
    <3>2. IsFiniteSet(1 .. nodes[i].calls)
      BY ONLY <3>1, FS_Interval
    <3>3. IsFiniteSet({i})
      BY FS_Singleton
    <3>. QED  BY ONLY <3>2, <3>3, FS_Product
  <2>. QED  BY <1>1, <1>3, <2>1
<1>7. IsFiniteSet(CallsOf(nodes))
  BY <1>3, <1>5, <1>6, FS_UNION DEF CallsOf
<1>8. SumCalls(nodes) \in Nat
  BY <1>7, FS_CardinalityType DEF SumCalls
<1>9. ASSUME NEW c \in CallsOf(nodes)
      PROVE  /\ c = <<c[1], c[2]>>
             /\ c[1] \in 1 .. Len(nodes) /\ c[2] \in 1 .. nodes[c[1]].calls
  <2>1. PICK i \in 1 .. Len(nodes) : c \in {i} \X (1 .. nodes[i].calls)
    BY <1>1 DEF CallsOf
  <2>. QED  BY <2>1
<1>10. ASSUME NEW i \in 1 .. Len(nodes), NEW k \in Nat \ {0}
       PROVE  <<i, k>> \in CallsOf(nodes) <=> k <= nodes[i].calls
  <2>1. <<i, k>> \in CallsOf(nodes) <=> \E j \in 1 .. Len(nodes) : <<i, k>> \in {j} \X (1 .. nodes[j].calls)
    BY <1>1 DEF CallsOf
  <2>2. \A j \in 1 .. Len(nodes) :
           <<i, k>> \in {j} \X (1 .. nodes[j].calls)
              <=> i = j /\ k \in 1 .. nodes[j].calls
    OBVIOUS
  <2>. QED  BY <1>1, <2>1, <2>2
<1>. QED  BY <1>7, <1>8, <1>9, <1>10

\* No calls in no nodes, those of the node in one.
LEMMA CallsOfFew ==
    /\ SumCalls(<<>>) = 0
    /\ \A node \in Nodes : SumCalls(<<node>>) = node.calls
<1>1. SumCalls(<<>>) = 0
  <2>1. CallsOf(<<>>) = {}
    BY DEF CallsOf
  <2>. QED  BY <2>1, FS_EmptySet DEF SumCalls
<1>2. ASSUME NEW node \in Nodes PROVE SumCalls(<<node>>) = node.calls
  <2>1. node.calls \in Nat
    BY DEF Nodes
  <2>2. CallsOf(<<node>>) = {1} \X (1 .. node.calls)
    <3>1. DOMAIN <<node>> = {1} /\ <<node>>[1] = node
      OBVIOUS
    <3>2. {{i} \X (1 .. <<node>>[i].calls) : i \in DOMAIN <<node>>} = {{1} \X (1 .. node.calls)}
      BY ONLY <3>1
    <3>. QED  BY ONLY <3>2 DEF CallsOf
  <2>3. IsFiniteSet(1 .. node.calls) /\ Cardinality(1 .. node.calls) = node.calls
    <3>1. PICK n \in Nat : n = node.calls
      BY ONLY <2>1
    <3>2. /\ IsFiniteSet(1 .. n)
          /\ Cardinality(1 .. n) = IF 1 > n THEN 0 ELSE n - 1 + 1
      <4>1. n \in Int /\ 1 \in Int
        OBVIOUS
      <4>. QED  BY ONLY <4>1, FS_Interval
    <3>. QED  BY ONLY <3>1, <3>2
  <2>4. IsFiniteSet({1}) /\ Cardinality({1}) = 1
    BY FS_Singleton
  <2>5. Cardinality({1} \X (1 .. node.calls)) = Cardinality({1}) * Cardinality(1 .. node.calls)
    BY ONLY <2>3, <2>4, FS_Product, Zenon
  <2>6. Cardinality({1}) * Cardinality(1 .. node.calls) = node.calls
    BY ONLY <2>1, <2>3, <2>4
  <2>. QED  BY ONLY <2>2, <2>5, <2>6 DEF SumCalls
<1>. QED  BY <1>1, <1>2

\* The calls of nodes one after the other are the calls of the ones and of
\* the others, which only stand further down.
LEMMA CallsAddUp ==
    ASSUME NEW s \in Seq(Nodes), NEW t \in Seq(Nodes)
    PROVE  /\ s \o t \in Seq(Nodes)
           /\ SumCalls(s \o t) = SumCalls(s) + SumCalls(t)
<1>1. PICK u : u = s \o t
  OBVIOUS
<1>2. /\ u \in Seq(Nodes) /\ Len(u) = Len(s) + Len(t)
      /\ Len(s) \in Nat /\ Len(t) \in Nat
      /\ \A i \in 1 .. Len(s) : u[i] = s[i]
      /\ \A i \in 1 .. Len(t) : u[Len(s) + i] = t[i]
  BY <1>1
<1>3. PICK n : n = Len(s)
  OBVIOUS
<1>4. PICK moved : moved = {<<n + c[1], c[2]>> : c \in CallsOf(t)}
  OBVIOUS
<1>5. PICK shift : shift = [c \in CallsOf(t) |-> <<n + c[1], c[2]>>]
  OBVIOUS
<1>6. shift \in Bijection(CallsOf(t), moved)
  <2>1. shift \in [CallsOf(t) -> moved] /\ \A m \in moved : \E c \in CallsOf(t) : shift[c] = m
    BY ONLY <1>4, <1>5
  <2>2. ASSUME NEW c \in CallsOf(t), NEW d \in CallsOf(t), shift[c] = shift[d]
        PROVE  c = d
    <3>1. n + c[1] = n + d[1] /\ c[2] = d[2]
      BY ONLY <2>2, <1>5
    <3>2. /\ c = <<c[1], c[2]>> /\ d = <<d[1], d[2]>>
          /\ c[1] \in 1 .. Len(t) /\ d[1] \in 1 .. Len(t)
      BY CallsAreFinite
    <3>3. c[1] = d[1]
      BY ONLY <3>1, <3>2, <1>2, <1>3
    <3>. QED  BY ONLY <3>1, <3>2, <3>3
  <2>3. shift \in Injection(CallsOf(t), moved)
    <3>1. \A c, d \in CallsOf(t) : shift[c] = shift[d] => c = d
      BY ONLY <2>2
    <3>. QED  BY ONLY <2>1, <3>1 DEF Injection, IsInjective
  <2>4. shift \in Surjection(CallsOf(t), moved)
    BY ONLY <2>1 DEF Surjection
  <2>. QED  BY ONLY <2>3, <2>4 DEF Bijection
<1>7. IsFiniteSet(moved) /\ Cardinality(moved) = SumCalls(t)
  <2>1. IsFiniteSet(CallsOf(t))
    BY CallsAreFinite
  <2>2. ExistsBijection(CallsOf(t), moved)
    BY <1>6 DEF ExistsBijection
  <2>. QED  BY ONLY <2>1, <2>2, FS_Bijection DEF SumCalls
<1>8. CallsOf(u) = CallsOf(s) \union moved
  <2>1. ASSUME NEW c \in CallsOf(u) PROVE c \in CallsOf(s) \union moved
    <3>1. /\ c = <<c[1], c[2]>>
          /\ c[1] \in 1 .. Len(u) /\ c[2] \in 1 .. u[c[1]].calls
      BY <1>2, CallsAreFinite
    <3>2. PICK i, k : i = c[1] /\ k = c[2]
      OBVIOUS
    <3>3. CASE i <= n
      <4>1. i \in 1 .. Len(s) /\ u[i] = s[i] /\ s[i].calls \in Nat
        <5>1. i \in 1 .. Len(s)
          BY ONLY <1>2, <1>3, <3>1, <3>2, <3>3
        <5>. QED  BY <5>1, <1>2, NodesHaveCalls
      <4>2. k \in Nat \ {0} /\ k <= s[i].calls
        BY ONLY <3>1, <3>2, <4>1
      <4>3. <<i, k>> \in CallsOf(s)
        BY ONLY <4>1, <4>2, s \in Seq(Nodes), CallsAreFinite
      <4>. QED  BY ONLY <3>1, <3>2, <4>3
    <3>4. CASE ~(i <= n)
      <4>1. PICK j : j = i - n
        OBVIOUS
      <4>2. j \in 1 .. Len(t) /\ i = n + j /\ u[i] = t[j] /\ t[j].calls \in Nat
        <5>1. j \in 1 .. Len(t) /\ i = Len(s) + j /\ i = n + j
          BY ONLY <1>2, <1>3, <3>1, <3>2, <3>4, <4>1
        <5>2. u[Len(s) + j] = t[j]
          BY ONLY <5>1, <1>2
        <5>3. t[j].calls \in Nat
          BY <5>1, NodesHaveCalls
        <5>. QED  BY ONLY <5>1, <5>2, <5>3
      <4>3. k \in Nat \ {0} /\ k <= t[j].calls
        BY ONLY <3>1, <3>2, <4>2
      <4>4. <<j, k>> \in CallsOf(t)
        BY ONLY <4>2, <4>3, t \in Seq(Nodes), CallsAreFinite
      <4>5. <<n + <<j, k>>[1], <<j, k>>[2]>> = c
        BY ONLY <3>1, <3>2, <4>2
      <4>. QED  BY ONLY <4>4, <4>5, <1>4
    <3>. QED  BY <3>3, <3>4
  <2>2. ASSUME NEW c \in CallsOf(s) PROVE c \in CallsOf(u)
    <3>1. c = <<c[1], c[2]>> /\ c[1] \in 1 .. Len(s) /\ c[2] \in 1 .. s[c[1]].calls
      BY CallsAreFinite
    <3>2. /\ c[1] \in 1 .. Len(u) /\ u[c[1]] = s[c[1]] /\ s[c[1]].calls \in Nat
          /\ c[2] \in Nat \ {0} /\ c[2] <= u[c[1]].calls
      <4>1. s[c[1]].calls \in Nat
        BY <3>1, NodesHaveCalls
      <4>. QED  BY ONLY <4>1, <1>2, <3>1
    <3>3. <<c[1], c[2]>> \in CallsOf(u)
      BY ONLY <3>2, <1>2, CallsAreFinite
    <3>. QED  BY ONLY <3>1, <3>3
  <2>3. ASSUME NEW c \in CallsOf(t) PROVE <<n + c[1], c[2]>> \in CallsOf(u)
    <3>1. c[1] \in 1 .. Len(t) /\ c[2] \in 1 .. t[c[1]].calls
      BY CallsAreFinite
    <3>2. PICK i : i = n + c[1]
      OBVIOUS
    <3>3. i \in 1 .. Len(u) /\ u[i] = t[c[1]]
      <4>1. i = Len(s) + c[1] /\ i \in 1 .. Len(s) + Len(t)
        BY ONLY <1>2, <1>3, <3>1, <3>2
      <4>. QED  BY ONLY <4>1, <1>2, <3>1
    <3>4. t[c[1]].calls \in Nat
      BY <3>1, NodesHaveCalls
    <3>5. c[2] \in Nat \ {0} /\ c[2] <= u[i].calls
      BY ONLY <3>1, <3>3, <3>4
    <3>6. <<i, c[2]>> \in CallsOf(u)
      BY ONLY <3>3, <3>5, <1>2, CallsAreFinite
    <3>. QED  BY ONLY <3>2, <3>6
  <2>. QED  BY ONLY <2>1, <2>2, <2>3, <1>4
<1>9. CallsOf(s) \intersect moved = {}
  <2>1. ASSUME NEW c \in CallsOf(s), NEW d \in CallsOf(t), c = <<n + d[1], d[2]>>
        PROVE  FALSE
    <3>1. c[1] \in 1 .. Len(s) /\ d[1] \in 1 .. Len(t)
      BY CallsAreFinite
    <3>2. c[1] = n + d[1]
      BY ONLY <2>1
    <3>. QED  BY ONLY <3>1, <3>2, <1>2, <1>3
  <2>. QED  BY ONLY <2>1, <1>4
<1>10. Cardinality(CallsOf(u)) = SumCalls(s) + SumCalls(t) - Cardinality({})
  <2>1. IsFiniteSet(CallsOf(s)) /\ Cardinality(CallsOf(s)) = SumCalls(s)
    BY CallsAreFinite DEF SumCalls
  <2>. QED  BY ONLY <2>1, <1>7, <1>8, <1>9, FS_Union
<1>11. SumCalls(s) \in Nat /\ SumCalls(t) \in Nat
  BY CallsAreFinite
<1>. QED  BY <1>1, <1>2, <1>10, <1>11, FS_EmptySet DEF SumCalls

\* The nodes the loop makes, and what they hold.
LEMMA NodesMade ==
    /\ \A kind \in Kinds, n \in Nat : Node(kind, n) \in Nodes /\ Node(kind, n).calls = n
    /\ \A p \in 0 .. MaxPrompts :
          Ask(p) \in Nodes /\ Ask(p).calls = 0 /\ Nudge(p) \in Nodes /\ Nudge(p).calls = 0
BY DEF Node, Ask, Nudge, Nodes, Kinds, UserPrompts

LEMMA CallsAppended ==
    ASSUME NEW nodes \in Seq(Nodes), NEW node \in Nodes
    PROVE  /\ Append(nodes, node) \in Seq(Nodes)
           /\ SumCalls(Append(nodes, node)) = SumCalls(nodes) + node.calls
<1>1. Append(nodes, node) = nodes \o <<node>> /\ <<node>> \in Seq(Nodes)
  OBVIOUS
<1>. QED  BY <1>1, CallsAddUp, CallsOfFew

\* A piece of history taken apart.
LEMMA CallsSplit ==
    ASSUME NEW nodes \in Seq(Nodes), NEW cut \in 0 .. Len(nodes)
    PROVE  /\ SubSeq(nodes, 1, cut) \in Seq(Nodes)
           /\ SubSeq(nodes, cut + 1, Len(nodes)) \in Seq(Nodes)
           /\ SumCalls(nodes) = SumCalls(SubSeq(nodes, 1, cut))
                                + SumCalls(SubSeq(nodes, cut + 1, Len(nodes)))
<1>1. PICK s, t : s = SubSeq(nodes, 1, cut) /\ t = SubSeq(nodes, cut + 1, Len(nodes))
  OBVIOUS
<1>2. s \in Seq(Nodes) /\ t \in Seq(Nodes)
  BY ONLY <1>1, nodes \in Seq(Nodes), cut \in 0 .. Len(nodes)
<1>3. nodes = s \o t
  <2>1. Len(nodes) \in Nat /\ 1 \in 1 .. Len(nodes) + 1 /\ cut \in 1 - 1 .. Len(nodes)
        /\ Len(nodes) \in cut .. Len(nodes)
    OBVIOUS
  <2>2. s \o t = SubSeq(nodes, 1, Len(nodes))
    BY ONLY <1>1, <2>1, nodes \in Seq(Nodes), ConcatAdjacentSubSeq
  <2>. QED  BY ONLY <2>2, nodes \in Seq(Nodes), SubSeqFull
<1>4. SumCalls(s \o t) = SumCalls(s) + SumCalls(t)
  BY <1>2, CallsAddUp
<1>. QED  BY ONLY <1>1, <1>2, <1>3, <1>4

-----------------------------------------------------------------------------
\* Every call that ran is accounted for, and while a housekeeping runs its
\* boundary, which holds none, stands where it was put.
CountInv ==
    /\ history \in Seq(Nodes)
    /\ NothingIsLost
    /\ outer # <<>> => history[outer[1].cut + 1] = Node("boundary", 0)

LEMMA CountInit == Init => CountInv
<1>1. ASSUME Init PROVE SumCalls(history) = 0 /\ held = 0 /\ Len(results) = 0
  BY <1>1, CallsOfFew DEF Init
<1>2. Init => history = <<>> /\ outer = <<>> /\ <<>> \in Seq(Nodes)
  BY DEF Init
<1>. QED  BY <1>1, <1>2 DEF CountInv, NothingIsLost

\* A step that leaves the history, with the round's results gone or not.
LEMMA CountQuietStep ==
    ASSUME CountInv, UNCHANGED <<history, outer>>, held' - Len(results') = held - Len(results),
           held' \in Int, Len(results') \in Nat, Len(results) \in Nat
    PROVE  CountInv'
<1>1. SumCalls(history) \in Nat
  BY CallsAreFinite DEF CountInv
<1>. QED  BY <1>1 DEF CountInv, NothingIsLost

\* A step that records a turn.
LEMMA CountTurnStep ==
    ASSUME HistoryInv, CountInv, NEW n \in Nat, history' = Append(history, Node("turn", n)),
           UNCHANGED <<outer, held>>, Len(results) = Len(results') + n, Len(results') \in Nat
    PROVE  CountInv'
<1>1. Node("turn", n) \in Nodes /\ Node("turn", n).calls = n
  BY NodesMade DEF Kinds
<1>2. history' \in Seq(Nodes) /\ SumCalls(history') = SumCalls(history) + n
  BY <1>1, CallsAppended DEF CountInv
<1>3. NothingIsLost'
  <2>1. SumCalls(history) \in Nat
    BY CallsAreFinite DEF CountInv
  <2>. QED  BY <1>2, <2>1 DEF CountInv, NothingIsLost
<1>4. ASSUME outer # <<>> PROVE history'[outer[1].cut + 1] = history[outer[1].cut + 1]
  <2>1. outer[1].cut + 1 \in 1 .. Len(history) /\ history \in Seq(Nodes)
    <3>1. PICK o : o = outer[1] /\ Waiting(o)
      BY <1>4 DEF HistoryInv
    <3>2. o.cut \in Nat /\ o.count \in Nat /\ o.cut < o.count /\ o.count + 1 <= Len(history)
      BY ONLY <3>1 DEF Waiting
    <3>3. history \in Seq(Nodes)
      BY DEF CountInv
    <3>. QED  BY ONLY <3>1, <3>2, <3>3
  <2>. QED  BY <2>1
<1>. QED  BY <1>2, <1>3, <1>4 DEF CountInv

LEMMA CountPromptStep ==
    ASSUME CallsInv, CountInv, NEW typed \in BOOLEAN, NEW briefing \in {0, 1},
           Prompt(typed, briefing)
    PROVE  CountInv'
<1>1. PICK ask, turns : /\ ask = <<Ask(prompts')>>
                        /\ turns = [i \in 1 .. briefing |-> Node("turn", 1)]
  OBVIOUS
<1>2. /\ history' = history \o ask \o turns
      /\ held' = held + briefing /\ UNCHANGED <<results, outer>>
      /\ prompts' \in 0 .. MaxPrompts /\ outer = <<>>
  BY <1>1 DEF Prompt, CallsInv, roundVars
<1>3. ask \in Seq(Nodes) /\ SumCalls(ask) = 0
  <2>1. Ask(prompts') \in Nodes /\ Ask(prompts').calls = 0
    BY <1>2, NodesMade
  <2>. QED  BY <1>1, <2>1, CallsOfFew
<1>4. turns \in Seq(Nodes) /\ SumCalls(turns) = briefing
  <2>1. Node("turn", 1) \in Nodes /\ Node("turn", 1).calls = 1
    BY NodesMade DEF Kinds
  <2>2. CASE briefing = 0
    <3>1. turns = <<>>
      BY <1>1, <2>2
    <3>. QED  BY <2>2, <3>1, CallsOfFew
  <2>3. CASE briefing = 1
    <3>1. turns = <<Node("turn", 1)>>
      BY <1>1, <2>3
    <3>. QED  BY <2>1, <2>3, <3>1, CallsOfFew
  <2>. QED  BY <2>2, <2>3
<1>5. /\ history \in Seq(Nodes) /\ history \o ask \in Seq(Nodes)
      /\ SumCalls(history \o ask) = SumCalls(history) + SumCalls(ask)
  BY <1>3, CallsAddUp DEF CountInv
<1>6. /\ history' \in Seq(Nodes)
      /\ SumCalls(history') = SumCalls(history \o ask) + SumCalls(turns)
  BY <1>2, <1>4, <1>5, CallsAddUp
<1>7. SumCalls(history) \in Nat /\ Len(results) \in Nat
  BY <1>5, CallsAreFinite DEF CallsInv
<1>. QED  BY <1>2, <1>3, <1>4, <1>5, <1>6, <1>7 DEF CountInv, NothingIsLost

\* The answer in words that is asked again.
LEMMA CountNudgeStep ==
    ASSUME CallsInv, CountInv, history' = history \o <<Node("turn", 0), Nudge(prompts)>>,
           outer = <<>>, UNCHANGED <<outer, held, results>>
    PROVE  CountInv'
<1>1. /\ Node("turn", 0) \in Nodes /\ Node("turn", 0).calls = 0
      /\ Nudge(prompts) \in Nodes /\ Nudge(prompts).calls = 0
  BY NodesMade DEF Kinds, UserPrompts, CallsInv
<1>2. history \in Seq(Nodes)
  BY DEF CountInv
<1>3. history' = Append(Append(history, Node("turn", 0)), Nudge(prompts))
  <2>1. PICK t, u : t = Node("turn", 0) /\ u = Nudge(prompts)
    OBVIOUS
  <2>2. history \o <<t, u>> = Append(Append(history, t), u)
    BY ONLY <1>2, <1>1, <2>1
  <2>. QED  BY <2>1, <2>2
<1>4. /\ Append(history, Node("turn", 0)) \in Seq(Nodes)
      /\ SumCalls(Append(history, Node("turn", 0))) = SumCalls(history) + 0
  BY <1>1, <1>2, CallsAppended
<1>5. /\ history' \in Seq(Nodes)
      /\ SumCalls(history') = SumCalls(Append(history, Node("turn", 0))) + 0
  BY <1>1, <1>3, <1>4, CallsAppended
<1>6. SumCalls(history) \in Nat /\ Len(results) \in Nat
  BY <1>2, CallsAreFinite DEF CallsInv
<1>. QED  BY <1>4, <1>5, <1>6 DEF CountInv, NothingIsLost

\* The start of a housekeeping takes nothing away.
LEMMA CountStartStep ==
    ASSUME HistoryInv, CountInv, outer = <<>>, pc = "calls", NEW n \in Nat,
           NEW fingerprint, StartHousekeeping(Append(history, Node("turn", n)), fingerprint),
           CutPoint(Append(history, Node("turn", n))) > 0,
           UNCHANGED held, Len(results) = n, Len(results') = 0
    PROVE  CountInv'
<1>1. PICK nodes, b, e : /\ nodes = Append(history, Node("turn", n))
                         /\ b = Node("boundary", 0) /\ e = Node("hkask", 0)
  OBVIOUS
<1>2. nodes \in Seq(Nodes) /\ SumCalls(nodes) = SumCalls(history) + n
  <2>1. Node("turn", n) \in Nodes /\ Node("turn", n).calls = n
    BY NodesMade DEF Kinds
  <2>. QED  BY <1>1, <2>1, CallsAppended DEF CountInv
<1>3. b \in Nodes /\ b.calls = 0 /\ e \in Nodes /\ e.calls = 0
  BY <1>1, NodesMade DEF Kinds, UserPrompts
<1>4. PICK i \in 1 .. Len(history) : Newest(history, i, Len(history))
  BY DEF HistoryInv
<1>5. CutPoint(nodes) \in 0 .. Len(nodes)
  <2>1. /\ Len(nodes) = Len(history) + 1 /\ Len(history) \in Nat
        /\ \A j \in 1 .. Len(history) : nodes[j] = history[j]
        /\ nodes[Len(history) + 1] = Node("turn", n)
    BY <1>1 DEF CountInv
  <2>2. Node("turn", n).kind = "turn" /\ history[i].kind \in {"ask", "nudge"}
    BY <1>4 DEF Node, Newest, IsOwnPrompt, Ask, Nudge
  <2>3. \A j \in i + 1 .. Len(nodes) : nodes[j].kind \notin UserPrompts
    BY ONLY <1>4, <2>1, <2>2 DEF Newest, UserPrompts
  <2>4. nodes[i].kind \in UserPrompts /\ i \in 1 .. Len(nodes)
    BY ONLY <1>4, <2>1, <2>2 DEF UserPrompts
  <2>5. CutPoint(nodes) \in 0 .. i - 1
    BY <1>2, <2>3, <2>4, CutIsAbove
  <2>. QED  BY ONLY <2>1, <2>5, <1>4
<1>6. PICK cut, s, t : /\ cut = CutPoint(nodes)
                       /\ s = SubSeq(nodes, 1, cut) /\ t = SubSeq(nodes, cut + 1, Len(nodes))
  OBVIOUS
<1>7. /\ s \in Seq(Nodes) /\ t \in Seq(Nodes) /\ SumCalls(nodes) = SumCalls(s) + SumCalls(t)
  BY <1>2, <1>5, <1>6, CallsSplit
<1>8. /\ history' = s \o <<b>> \o t \o <<e>>
      /\ outer' = <<[round |-> round, repeat |-> repeat, of |-> fingerprint,
                     cut |-> cut, count |-> Len(nodes)]>>
  BY <1>1, <1>6 DEF StartHousekeeping
<1>9. /\ <<b>> \in Seq(Nodes) /\ SumCalls(<<b>>) = 0
      /\ <<e>> \in Seq(Nodes) /\ SumCalls(<<e>>) = 0
  BY <1>3, CallsOfFew
<1>10. s \o <<b>> \in Seq(Nodes) /\ SumCalls(s \o <<b>>) = SumCalls(s) + 0
  BY <1>7, <1>9, CallsAddUp
<1>11. s \o <<b>> \o t \in Seq(Nodes) /\ SumCalls(s \o <<b>> \o t) = SumCalls(s \o <<b>>) + SumCalls(t)
  BY <1>7, <1>10, CallsAddUp
<1>12. history' \in Seq(Nodes) /\ SumCalls(history') = SumCalls(s \o <<b>> \o t) + 0
  BY <1>8, <1>9, <1>11, CallsAddUp
<1>13. outer'[1].cut = cut /\ history'[cut + 1] = b
  <2>1. outer'[1].cut = cut
    BY ONLY <1>8
  <2>2. Len(s) = cut /\ cut \in Nat
    BY ONLY <1>2, <1>5, <1>6
  <2>3. history'[cut + 1] = b
    <3>1. PICK p, q : p = s \o <<b>> /\ q = p \o t
      OBVIOUS
    <3>2. p \in Seq(Nodes) /\ Len(p) = cut + 1 /\ p[cut + 1] = b
      <4>1. s \in Seq(Nodes) /\ b \in Nodes
        BY ONLY <1>3, <1>7
      <4>2. p = Append(s, b)
        BY ONLY <3>1, <4>1
      <4>. QED  BY ONLY <2>2, <4>1, <4>2
    <3>3. q \in Seq(Nodes) /\ Len(q) >= cut + 1 /\ q[cut + 1] = b
      BY ONLY <1>7, <2>2, <3>1, <3>2
    <3>4. history' = q \o <<e>>
      BY ONLY <1>8, <3>1
    <3>. QED  BY ONLY <1>3, <2>2, <3>3, <3>4
  <2>. QED  BY ONLY <2>1, <2>3
<1>14. SumCalls(s) \in Nat /\ SumCalls(t) \in Nat /\ SumCalls(history) \in Nat
  BY <1>7, CallsAreFinite DEF CountInv
<1>15. NothingIsLost'
  BY <1>2, <1>7, <1>10, <1>11, <1>12, <1>14 DEF CountInv, NothingIsLost
<1>. QED  BY <1>1, <1>12, <1>13, <1>15 DEF CountInv

\* The surgery takes away the calls above the boundary and no other: those
\* below it stay where they are and those of the sub-loop go into its node.
LEMMA CountFinishStep ==
    ASSUME HistoryInv, CallsInv, CountInv, FinishHousekeeping
    PROVE  CountInv'
<1>1. PICK o, b, a : /\ o = outer[1] /\ Waiting(o)
                     /\ b = Node("boundary", 0) /\ a = Node("archive", 0)
  BY DEF FinishHousekeeping, HistoryInv
<1>2. PICK cut, top, n : cut = o.cut /\ top = o.count + 1 /\ n = Len(history)
  OBVIOUS
<1>3. history \in Seq(Nodes) /\ history[cut + 1] = b
  BY <1>1, <1>2 DEF FinishHousekeeping, CountInv
<1>4. cut \in Nat /\ top \in Nat /\ cut + 1 < top /\ top <= n /\ n \in Nat
  BY ONLY <1>1, <1>2, <1>3 DEF Waiting
<1>5. PICK above, kept, below :
        /\ above = SubSeq(history, 1, cut)
        /\ kept = SubSeq(history, cut + 2, top) /\ below = SubSeq(history, top + 1, n)
  OBVIOUS
<1>6. above \in Seq(Nodes) /\ kept \in Seq(Nodes) /\ below \in Seq(Nodes)
  <2>1. \A i \in 1 .. n : history[i] \in Nodes
    BY ONLY <1>2, <1>3
  <2>2. above \in Seq(Nodes)
    BY ONLY <1>4, <1>5, <2>1, SubSeqProperties
  <2>3. kept \in Seq(Nodes)
    <3>1. \A i \in cut + 2 .. top : history[i] \in Nodes
      BY ONLY <1>4, <2>1
    <3>. QED  BY ONLY <1>4, <1>5, <3>1, SubSeqProperties
  <2>4. below \in Seq(Nodes)
    <3>1. \A i \in top + 1 .. n : history[i] \in Nodes
      BY ONLY <1>4, <2>1
    <3>. QED  BY ONLY <1>4, <1>5, <3>1, SubSeqProperties
  <2>. QED  BY ONLY <2>2, <2>3, <2>4
<1>7. b \in Nodes /\ b.calls = 0 /\ a \in Nodes /\ a.calls = 0
  BY <1>1, NodesMade DEF Kinds, UserPrompts
<1>8. /\ <<b>> \in Seq(Nodes) /\ SumCalls(<<b>>) = 0
      /\ <<a>> \in Seq(Nodes) /\ SumCalls(<<a>>) = 0
  BY <1>7, CallsOfFew
<1>9. SumCalls(history) = SumCalls(above) + SumCalls(kept) + SumCalls(below)
  <2>1. history = above \o <<b>> \o kept \o below
    <3>1. SubSeq(history, cut + 1, cut + 1) = <<b>>
      <4>1. PICK m \in 1 .. n : m = cut + 1
        BY ONLY <1>4
      <4>2. m \in 1 .. n /\ m \in m .. n /\ m \in Int /\ m - 1 \in Int /\ m - 1 < m
        BY ONLY <1>4, <4>1
      <4>3. SubSeq(history, m, m) = SubSeq(history, m, m - 1) \o <<history[m]>>
        BY ONLY <1>2, <1>3, <4>2, SubSeqRecursiveSecond
      <4>4. SubSeq(history, m, m - 1) = <<>>
        BY ONLY <4>2, SubSeqEmpty
      <4>5. <<b>> \in Seq(Nodes) /\ history[m] = b
        BY ONLY <1>3, <1>8, <4>1
      <4>6. <<>> \o <<b>> = <<b>>
        BY ONLY <4>5, ConcatEmptySeq
      <4>. QED  BY ONLY <4>1, <4>3, <4>4, <4>5, <4>6
    <3>2. SubSeq(history, 1, cut) \o SubSeq(history, cut + 1, cut + 1) = SubSeq(history, 1, cut + 1)
      <4>1. 1 \in 1 .. Len(history) + 1 /\ cut \in 1 - 1 .. Len(history) /\ cut + 1 \in cut .. Len(history)
        BY ONLY <1>2, <1>4
      <4>. QED  BY ONLY <1>3, <4>1, ConcatAdjacentSubSeq
    <3>3. SubSeq(history, 1, cut + 1) \o SubSeq(history, cut + 1 + 1, top) = SubSeq(history, 1, top)
      <4>1. /\ 1 \in 1 .. Len(history) + 1 /\ cut + 1 \in 1 - 1 .. Len(history)
            /\ top \in cut + 1 .. Len(history)
        BY ONLY <1>2, <1>4
      <4>. QED  BY ONLY <1>3, <4>1, ConcatAdjacentSubSeq
    <3>4. SubSeq(history, 1, top) \o SubSeq(history, top + 1, n) = SubSeq(history, 1, n)
      <4>1. 1 \in 1 .. Len(history) + 1 /\ top \in 1 - 1 .. Len(history) /\ n \in top .. Len(history)
        BY ONLY <1>2, <1>4
      <4>. QED  BY ONLY <1>3, <4>1, ConcatAdjacentSubSeq
    <3>5. SubSeq(history, 1, n) = history
      BY ONLY <1>2, <1>3, SubSeqFull
    <3>6. cut + 1 + 1 = cut + 2
      BY ONLY <1>4
    <3>. QED  BY ONLY <1>5, <3>1, <3>2, <3>3, <3>4, <3>5, <3>6
  <2>2. above \o <<b>> \in Seq(Nodes) /\ SumCalls(above \o <<b>>) = SumCalls(above) + 0
    BY <1>6, <1>8, CallsAddUp
  <2>3. /\ above \o <<b>> \o kept \in Seq(Nodes)
        /\ SumCalls(above \o <<b>> \o kept) = SumCalls(above \o <<b>>) + SumCalls(kept)
    BY <1>6, <2>2, CallsAddUp
  <2>4. SumCalls(history) = SumCalls(above \o <<b>> \o kept) + SumCalls(below)
    BY <1>6, <2>1, <2>3, CallsAddUp
  <2>5. SumCalls(above) \in Nat
    BY <1>6, CallsAreFinite
  <2>. QED  BY ONLY <2>2, <2>3, <2>4, <2>5
<1>10. /\ Kept = kept /\ Additions = <<b>> \o below
       /\ SubSeq(history, 1, outer[1].cut) = above
  <2>1. o.cut + 2 = cut + 2 /\ o.count + 1 = top /\ o.count + 2 = top + 1
    BY ONLY <1>1, <1>2 DEF Waiting
  <2>. QED  BY <1>1, <1>2, <1>5, <2>1 DEF Kept, Additions
<1>11. PICK sum : sum = SumCalls(Additions)
  OBVIOUS
<1>12. sum = SumCalls(below) /\ sum \in Nat
  <2>1. SumCalls(<<b>> \o below) = 0 + SumCalls(below) /\ SumCalls(below) \in Nat
    BY <1>6, <1>8, CallsAddUp, CallsAreFinite
  <2>. QED  BY ONLY <1>10, <1>11, <2>1
<1>13. PICK k : k = Node("hk", sum)
  OBVIOUS
<1>14. <<k>> \in Seq(Nodes) /\ SumCalls(<<k>>) = sum
  <2>1. k \in Nodes /\ k.calls = sum
    BY <1>12, <1>13, NodesMade DEF Kinds
  <2>. QED  BY <2>1, CallsOfFew
<1>15. /\ history' = <<a>> \o kept \o <<k>> /\ held' = held - SumCalls(above)
       /\ outer' = <<>> /\ results' = results
  BY <1>1, <1>10, <1>11, <1>13 DEF FinishHousekeeping, roundVars
<1>16. <<a>> \o kept \in Seq(Nodes) /\ SumCalls(<<a>> \o kept) = 0 + SumCalls(kept)
  BY <1>6, <1>8, CallsAddUp
<1>17. history' \in Seq(Nodes) /\ SumCalls(history') = SumCalls(<<a>> \o kept) + sum
  BY <1>14, <1>15, <1>16, CallsAddUp
<1>18. SumCalls(above) \in Nat /\ SumCalls(kept) \in Nat /\ Len(results) \in Nat
  BY <1>6, CallsAreFinite DEF CallsInv
<1>19. held = SumCalls(history) + Len(results)
  BY DEF CountInv, NothingIsLost
<1>20. held' = SumCalls(history') + Len(results')
  BY ONLY <1>9, <1>12, <1>15, <1>16, <1>17, <1>18, <1>19
<1>. QED  BY <1>15, <1>17, <1>20 DEF CountInv, NothingIsLost

LEMMA CountStep ==
    ASSUME HistoryInv, CallsInv, CountInv, [Next]_vars
    PROVE  CountInv'
<1>. USE DEF roundVars, promptVars, trackers
<1>1. results \in Seq({"ok", "error"}) /\ Len(results) \in Nat /\ held \in Int
  <2>1. SumCalls(history) \in Nat
    BY CallsAreFinite DEF CountInv
  <2>. QED  BY <2>1 DEF CallsInv, CountInv, NothingIsLost
<1>2. CASE UNCHANGED <<history, outer, held, results>>
  BY <1>1, <1>2, CountQuietStep
<1>3. ASSUME NEW saying \in Sayings, TextAnswer(saying)
      PROVE  CountInv'
  <2>1. UNCHANGED <<outer, held, results>> /\ Len(results) = Len(results') + 0
    BY <1>1, <1>3 DEF TextAnswer
  <2>2. CASE structured /\ outer = <<>>
    <3>1. history' = history \o <<Node("turn", 0), Nudge(prompts)>>
      BY <1>3, <2>2 DEF TextAnswer
    <3>. QED  BY <2>1, <2>2, <3>1, CountNudgeStep
  <2>3. CASE ~(structured /\ outer = <<>>)
    <3>1. history' = Append(history, Node("turn", 0))
      BY <1>3, <2>3 DEF TextAnswer
    <3>. QED  BY <1>1, <2>1, <3>1, CountTurnStep
  <2>. QED  BY <2>2, <2>3
<1>4. ASSUME NEW saying \in Sayings, NEW n \in 1 .. MaxCalls, CallsAnswer(saying, n)
      PROVE  CountInv'
  <2>1. results = <<>> /\ results' = <<>> /\ UNCHANGED <<history, outer, held>>
    BY <1>4 DEF CallsAnswer, CallsInv
  <2>. QED  BY <1>2, <2>1
<1>5. ASSUME NEW result \in {"ok", "error"}, NEW captures \in BOOLEAN, RunCall(result, captures)
      PROVE  CountInv'
  <2>1. /\ results' = Append(results, result) /\ held' = held + 1
        /\ UNCHANGED <<history, outer>>
    BY <1>5 DEF RunCall
  <2>2. Len(results') = Len(results) + 1
    BY <1>1, <2>1
  <2>. QED  BY <1>1, <2>1, <2>2, CountQuietStep
<1>6. ASSUME NEW reason \in {"skill", "exception", "cancelled"}, Abort(reason)
      PROVE  CountInv'
  <2>1. /\ results' = <<>> /\ Len(results') = 0 /\ held' = held - Len(results)
        /\ UNCHANGED <<history, outer>>
    BY <1>6 DEF Abort
  <2>. QED  BY <1>1, <2>1, CountQuietStep
<1>7. ASSUME NEW progress \in BOOLEAN, NEW large \in BOOLEAN, EndRound(progress, large)
      PROVE  CountInv'
  <2>1. PICK n, nodes : n = Len(results) /\ n \in Nat /\ nodes = Append(history, Node("turn", n))
    BY <1>1
  <2>2. /\ pc = "calls" /\ UNCHANGED held /\ results' = <<>> /\ Len(results') = 0
    BY <1>7 DEF EndRound
  <2>3. CASE outer = <<>> /\ CutPoint(nodes) > 0 /\ StartHousekeeping(nodes, Fingerprint)
    BY <2>1, <2>2, <2>3, CountStartStep
  <2>4. CASE history' = nodes /\ UNCHANGED outer
    BY <1>1, <2>1, <2>2, <2>4, CountTurnStep
  <2>. QED  BY <1>7, <2>1, <2>3, <2>4 DEF EndRound
<1>8. CASE TerminalRound
  <2>1. /\ history' = Append(history, Node("turn", 1)) /\ results' = <<>> /\ Len(results') = 0
        /\ Len(results) = 1 /\ UNCHANGED <<outer, held>>
    BY <1>8 DEF TerminalRound
  <2>. QED  BY <2>1, CountTurnStep
<1>9. ASSUME NEW kind \in DOMAIN Retries, RequestFails(kind)
      PROVE  CountInv'
  BY <1>2, <1>9 DEF RequestFails
<1>10. CASE AbandonHousekeeping
  BY <1>10 DEF AbandonHousekeeping, CountInv, NothingIsLost
<1>11. CASE LimitReached \/ PromptOver \/ UNCHANGED vars
  BY <1>2, <1>11 DEF LimitReached, PromptOver, vars
<1>. QED
  BY <1>3, <1>4, <1>5, <1>6, <1>7, <1>8, <1>9, <1>10, <1>11, CountPromptStep, CountFinishStep
     DEF Next

\* Every call that ran stands in the history exactly once, in its turn or in
\* the node of its housekeeping, whatever was trimmed, for any history
\* (run_agent_loop, perform_housekeeping).
THEOREM NoCallIsLost == Spec => []NothingIsLost
<1>1. CountInv => NothingIsLost
  BY DEF CountInv
<1>2. Init => HistoryInv /\ CallsInv /\ RepeatInv /\ CountInv
  BY HistoryInit, RoundInit, CountInit
<1>3. /\ HistoryInv /\ CallsInv /\ RepeatInv /\ CountInv /\ [Next]_vars
      => (HistoryInv /\ CallsInv /\ RepeatInv /\ CountInv)'
  BY HistoryStep, CallsStep, RepeatStep, CountStep
<1>. QED  BY <1>1, <1>2, <1>3, PTL DEF Spec

\* The limits hold for any of their values: of rounds, retries, repetitions
\* and rounds without progress, of the loop and of its housekeeping
\* (run_agent_loop, _request_completion, _raise_if_repeated).
THEOREM TypeCorrect == Spec => []TypeOK
<1>. DEFINE Inv == /\ StallInv /\ HistoryInv /\ CallsInv /\ TriesInv /\ RepeatInv
                   /\ StreakInv /\ CountInv
<1>1. Inv => TypeOK
  <2>. SUFFICES ASSUME Inv PROVE TypeOK
    OBVIOUS
  <2>1. /\ pc \in {"idle", "request", "calls", "ended"} /\ prompts \in 0 .. MaxPrompts
        /\ structured \in BOOLEAN /\ said \in Sayings \union {Nothing}
        /\ todo \in 0 .. MaxCalls
        /\ results \in Seq({"ok", "error"}) /\ Len(results) + todo <= MaxCalls
        /\ captured \in BOOLEAN /\ abandoned \in BOOLEAN
        /\ ended \in Ends \union Raises \union {Nothing}
    BY DEF CallsInv
  <2>2. history \in Seq(Nodes) /\ held \in Nat
    <3>1. history \in Seq(Nodes) /\ SumCalls(history) \in Nat
      BY CallsAreFinite DEF CountInv
    <3>. QED  BY <2>1, <3>1 DEF CountInv, NothingIsLost
  <2>3. round \in 0 .. Limit /\ stall.count \in 0 .. MaxRounds
    BY DEF StreakInv
  <2>4. \A k \in DOMAIN Retries : tries[k] \in 0 .. Retries[k]
    BY DEF TriesInv
  <2>5. repeat.count \in 0 .. MaxRepeated - 1
    BY DEF RepeatInv, Counts
  <2>. QED  BY <2>1, <2>2, <2>3, <2>4, <2>5 DEF TypeOK, Limit
<1>2. Init => Inv
  BY StallInit, HistoryInit, RoundInit, CountInit
<1>3. Inv /\ [Next]_vars => Inv'
  BY StallStep, HistoryStep, CallsStep, TriesStep, RepeatStep, StreakStep, CountStep
<1>. QED  BY <1>1, <1>2, <1>3, PTL DEF Spec
=============================================================================
