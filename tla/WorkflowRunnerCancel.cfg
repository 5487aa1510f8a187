\* A cancellation that lands after the last check and before the commit.
SPECIFICATION Spec
CONSTANTS
  Workers = {w1}
  Runs = {r1}
  NoWorker = NoWorker
  None = None
  Capacity = 2
  MaxPolls = 1
  MaxRewrites = 0
  Faults = {}
PROPERTY CancelLeavesUncertain
