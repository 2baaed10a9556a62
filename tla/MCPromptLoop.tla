---------------------------- MODULE MCPromptLoop ----------------------------
(***************************************************************************)
(* Two prompts of a session with small limits.                             *)
(***************************************************************************)
EXTENDS PromptLoop, TLC

CONSTANTS a, b

OneRetry == [k \in {"rate", "transient", "hard"} |-> IF k = "rate" THEN 1 ELSE 0]
Swap == Permutations(Sayings)
=============================================================================
