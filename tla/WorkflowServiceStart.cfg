\* The thread needs more than 5 s to come up.
SPECIFICATION Spec
CONSTANTS
  Callers = {k1, k2}
  Runs = {r1, r2}
  Approved = {r1}
  Nobody = Nobody
  MaxJobs = 2
  StartInTime = FALSE
INVARIANT ActiveIsSettling
CHECK_DEADLOCK FALSE
