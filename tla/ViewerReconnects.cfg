\* Four attempts of one page.
SPECIFICATION ViewerSpec
CONSTANTS
  MaxGenerations = 4
INVARIANT ViewerReconnects
CHECK_DEADLOCK FALSE
