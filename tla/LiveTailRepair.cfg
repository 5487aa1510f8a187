\* The encoder fails while a batch is under way.
SPECIFICATION FairSpec
CONSTANTS
  Pixels = {"a", "b", "c"}
  TileSets = {{"a", "b"}, {"c"}}
  Rects = {{}, {"b", "c"}}
  NoImage = NoImage
  Room = 2
  MaxEvents = 2
PROPERTY FailureIsRepaired
CHECK_DEADLOCK FALSE
