-------------------------- MODULE SupervisedExport --------------------------
(***************************************************************************)
(* What the reviewed-workflow runner promises its operator, with no        *)
(* process, lock, journal or browser in sight (docs/WORKFLOW_REPLAY.md,    *)
(* "Review, then run once" and "Interruption and reconciliation"): one     *)
(* approval is one run; at most one run is unresolved; a run exports at    *)
(* most once; a run closed as "stopped" never exported; only an exported   *)
(* report verifies; a closed run never reopens.                            *)
(***************************************************************************)
CONSTANT Runs

VARIABLES status,      \* status[r]: what the operator is told
          exported     \* the runs whose export input was ever dispatched

vars == <<status, exported>>

Statuses == {"none", "approved", "running", "verified", "stopped", "abandoned"}

Open(r) == status[r] \in {"approved", "running"}

Init == status = [r \in Runs |-> "none"] /\ exported = {}

Become(r, s) == status' = [status EXCEPT ![r] = s] /\ UNCHANGED exported

Approve(r) == status[r] = "none" /\ Become(r, "approved")

Start(r) ==
  /\ status[r] = "approved" /\ \A q \in Runs : status[q] # "running"
  /\ Become(r, "running")

Export(r) ==
  /\ status[r] = "running" /\ r \notin exported
  /\ exported' = exported \cup {r} /\ UNCHANGED status

\* A report that arrives after its run was abandoned has the same contents:
\* it may serve the next run for the same contract.
Verify(r) ==
  /\ status[r] = "running"
  /\ r \in exported \/ \E q \in exported : status[q] = "abandoned"
  /\ Become(r, "verified")

Stop(r) == Open(r) /\ r \notin exported /\ Become(r, "stopped")

Abandon(r) == Open(r) /\ Become(r, "abandoned")

Next == \E r \in Runs : \/ Approve(r) \/ Start(r) \/ Export(r)
                        \/ Verify(r) \/ Stop(r) \/ Abandon(r)

Spec == Init /\ [][Next]_vars
=============================================================================
