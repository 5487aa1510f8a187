\* Two threads and the worker; one run to work on and one that is settled.
SPECIFICATION FairSpec
CONSTANTS
  Callers = {k1, k2}
  Runs = {r1, r2}
  Approved = {r1}
  Nobody = Nobody
  MaxJobs = 2
  StartInTime = TRUE
INVARIANT ServiceIsSound
PROPERTIES AnswersAreSound NobodyHangs
CHECK_DEADLOCK FALSE
