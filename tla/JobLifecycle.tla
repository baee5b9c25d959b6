---------------------------- MODULE JobLifecycle ----------------------------
(***************************************************************************)
(* What the job store promises of a job, whatever its workers go through:  *)
(* it is queued once, claimed by one worker once, and gets one outcome     *)
(* that never changes.  A job may stay running for ever.                   *)
(***************************************************************************)
CONSTANTS JobIds, Workers, None

VARIABLES status, owner

lifecycleVars == <<status, owner>>

LifecycleInit ==
  /\ status = [j \in JobIds |-> "absent"]
  /\ owner = [j \in JobIds |-> None]

Submit(j) ==
  /\ status[j] = "absent"
  /\ status' = [status EXCEPT ![j] = "queued"]
  /\ UNCHANGED owner

ClaimBy(j, w) ==
  /\ status[j] = "queued"
  /\ status' = [status EXCEPT ![j] = "running"]
  /\ owner' = [owner EXCEPT ![j] = w]

Complete(j, result) ==
  /\ status[j] = "running"
  /\ status' = [status EXCEPT ![j] = result]
  /\ UNCHANGED owner

LifecycleNext ==
  \E j \in JobIds :
    \/ Submit(j)
    \/ \E w \in Workers : ClaimBy(j, w)
    \/ \E result \in {"succeeded", "failed"} : Complete(j, result)

LifecycleSpec == LifecycleInit /\ [][LifecycleNext]_lifecycleVars

=============================================================================
