\* Flows and batches on a page that navigates, opens a tab and shows a dialog.
SPECIFICATION Spec
CONSTANTS
  Calls = {c1, c2}
  NoCall = NoCall
  Limit = 1
  Sessions = {1}
  MaxRequest = 1
  Kept = 1
  Owners <- MCOwners
  NoAction = NoAction
  MaxDocument = 2
  MaxDialogs = 1
  MaxPopups = 1
  Parts = 2
  Kinds = {"view", "read", "act", "flow"}
  Steps = 2
  Stages = 2
  MaxViews = 1
SYMMETRY Symmetry
PROPERTY InputsAreFresh
CHECK_DEADLOCK FALSE
