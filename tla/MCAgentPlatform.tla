-------------------------- MODULE MCAgentPlatform --------------------------
(***************************************************************************)
(* Instances of AgentPlatform for TLC.                                     *)
(***************************************************************************)
EXTENDS AgentPlatform

MCOneProject == [i \in Issues |-> 1]

\* Codex leaves everything a success needs (other failures remain).
MCSuccess == {Facts}

\* The issue asks for a job at the start; an edit makes it anything else.
MCInit ==
  /\ PlatformInit
  /\ issues = [i \in Issues |-> [rev |-> 0, ready |-> TRUE, form |-> "publish"]]

MCFairSpec == MCInit /\ [][PlatformNext]_platformVars /\ PlatformFairness

=============================================================================
