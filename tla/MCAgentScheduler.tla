-------------------------- MODULE MCAgentScheduler --------------------------
(***************************************************************************)
(* Sessions of one agent, to compete for its permit, or of one agent each, *)
(* to share nothing but the monitor.                                       *)
(***************************************************************************)
EXTENDS AgentScheduler, TLC

CONSTANTS a1, a2, s1, s2, s3

OneAgent == [s \in Sessions |-> a1]
TwoAgents == [s \in Sessions |-> IF s = s2 THEN a2 ELSE a1]

\* Sessions of one agent that crash alike are interchangeable.
Alike == Permutations(Sessions)

\* Three items in all: one for each of three sessions, or a second one for one.
FewItems ==
    Cardinality({p \in Sessions \X (1 .. MaxItems) : p[2] <= posted[p[1]]}) <= 3
=============================================================================
