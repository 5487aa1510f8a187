-------------------------- MODULE MCWorkflowRunner --------------------------
(* The runner on small instances: workers and runs are model values.       *)
EXTENDS WorkflowRunner, TLC

\* Workers are interchangeable, and so are runs.
Symmetry == Permutations(Workers) \cup Permutations(Runs)

\* A file that is rewritten is followed while a worker looks at it.
RewrittenUnderEyes ==
  \A r \in Runs : disk[r] # None /\ disk[r].stamp > 0 =>
    \E w \in Workers : job[w] = r /\ pc[w] \in {"poll", "observe", "recheck"}
=============================================================================
