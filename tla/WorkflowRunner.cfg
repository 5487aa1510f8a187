\* Two processes, two runs, every fault; a file is rewritten while it is verified.
SPECIFICATION Spec
CONSTANTS
  Workers = {w1, w2}
  Runs = {r1, r2}
  NoWorker = NoWorker
  None = None
  Capacity = 2
  MaxPolls = 1
  MaxRewrites = 1
  Faults = {"crash", "storage"}
SYMMETRY Symmetry
CONSTRAINT RewrittenUnderEyes
INVARIANTS RunsAreSafe RowsAreTrue
PROPERTIES EvidenceIsKept KeepsPromise
