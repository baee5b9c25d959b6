-------------------------- MODULE MCAgentWorkers --------------------------
(***************************************************************************)
(* Instances of AgentWorkers for TLC.                                      *)
(***************************************************************************)
EXTENDS AgentWorkers, TLC

\* A run that satisfies every check and one that misses the push.
MCFewOutcomes == {Facts, Facts \ {"pushed head"}}

\* One that succeeds for a report and fails for a job that must publish.
MCNotPushed == {Facts \ {"pushed head"}}

\* One statement fails or one process is killed, and not both.
MCOneMishap == faults + restarts <= 1

MCSymmetry == Permutations(JobIds)

=============================================================================
