\* Three pixels in two tiles; one region, which covers one tile and half of the
\* other; three events from outside.  The fairness is that of the threads.
SPECIFICATION FairSpec
CONSTANTS
  Pixels = {"a", "b", "c"}
  TileSets = {{"a", "b"}, {"c"}}
  Rects = {{}, {"b", "c"}}
  NoImage = NoImage
  Room = 2
  MaxEvents = 3
INVARIANT LiveIsExact
PROPERTIES UnitsFit SettledConverges
CHECK_DEADLOCK FALSE
