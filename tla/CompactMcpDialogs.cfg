\* Actions that dialogs suspend, and the calls that handle the dialogs.
SPECIFICATION Spec
CONSTANTS
  Calls = {c1, c2}
  NoCall = NoCall
  Limit = 1
  Sessions = {1}
  MaxRequest = 3
  Kept = 1
  Owners <- MCOwners
  NoAction = NoAction
  MaxDocument = 1
  MaxDialogs = 2
  MaxPopups = 0
  Parts = 2
  Kinds = {"view", "act", "dialog"}
  Steps = 1
  Stages = 2
  MaxViews = 1
SYMMETRY Symmetry
INVARIANT DeskIsSound
CHECK_DEADLOCK FALSE
