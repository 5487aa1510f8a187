\* Three calls of a client: a repeated and a forgotten request, a queue of one,
\* one record kept, one dialog; with the fairness of the server's own steps.
SPECIFICATION FairSpec
CONSTANTS
  Calls = {c1, c2, c3}
  NoCall = NoCall
  Limit = 1
  Sessions = {1}
  MaxRequest = 2
  Kept = 1
  Owners <- MCOwners
  NoAction = NoAction
  MaxDocument = 1
  MaxDialogs = 1
  MaxPopups = 0
  Parts = 1
  Kinds = {"view", "act", "dialog"}
  Steps = 1
  Stages = 1
  MaxViews = 1
PROPERTIES AbortedIsSilent OutcomeIsFinal CallsAreAnswered
CHECK_DEADLOCK FALSE
