\* One run and one worker, no crash and no storage failure: what fairness of
\* the worker gives.  Three requests to two sessions, of which one may be open.
\* Two viewers and three gateways.  Every check of readiness, a
\* channel of each kind with four calls, and a recording of each kind with two
\* chunks to read.
SPECIFICATION MCSpec
CONSTANTS
  SilenceLimit = 4
  Grace = 1
  MaxForks = 2
  Workers = {w1}
  Runs = {r1}
  NoWorker = NoWorker
  None = None
  Capacity = 2
  MaxPolls = 1
  MaxRewrites = 2
  Faults = {}
  HttpRequests = {1, 2, 3}
  HttpSessionSet = {1, 2}
  NoSession = NoSession
  MaxSessions = 1
  MaxRequests = 2
  MaxActive = 1
  Viewers = {v1, v2}
  MaxGateways = 3
  MaxFailures = 2
  Reports <- MCReports
  Settings <- MCSettings
  SocketTables <- MCSockets
  Greeting = 2
  MaxOutages = 1
  Calls = {ready, finish, c1, c2}
  FirstCall = ready
  LastCall = finish
  Limit <- MCLimit
  MaxReads = 2
  MaxRects = 1
INVARIANTS VerifiedWasObserved
PROPERTIES WorkersSettle SessionsHold GatewaysHold ChecksAreTrue ProbesHold TracesAreClean EncodersAreWatched
CHECK_DEADLOCK FALSE
