--------------------------- MODULE MCAgentIntake ---------------------------
(***************************************************************************)
(* Instances of AgentIntake for TLC.                                       *)
(***************************************************************************)
EXTENDS AgentIntake, TLC

\* Issue 1 belongs to the first project, the others to the second.
MCProjectOf == [i \in Issues |-> IF i = 1 THEN 1 ELSE 2]

MCSymmetry == Permutations(JobIds)

=============================================================================
