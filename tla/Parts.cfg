\* Every part by itself; the numbers of the pool run out, and the clock of the
\* pacing goes both ways.
CONSTANTS
  Clients = {c1, c2}
  NoClient = NoClient
  SlotCount = 2
  Sizes <- MCSizes
  MaxSerial = 4
  MaxGeneration = 3
  MaxPaints = 2
  Policies <- MCPolicies
  Sites <- MCSites
  NoRow = NoRow
  MaxGap = 2
  MaxWindow = 3
  MaxUsed = 2
  Capacity = 1
  Times <- MCTimes
  MaxLog = 4
  Pages = {p1, p2, p3}
  NoPage = NoPage
  WebPages = {p2, p3}
  MaxTabs = 2
  ViewTabs = {t1, t2}
  NoTab = NoTab
  Snapshots <- MCSnapshots
  NoRef = NoRef
  Projections <- MCProjections
  MaxLine = 2
  Keep = 2
  MaxEpoch = 1
  MaxView = 3
  Downloads = {d1, d2}
  FileNames = {"a"}
  MaxIndex = 2
  KeptRecords = 1
  Inodes <- MCInodes
  MaxBytes = 3
  Paths = 2
  MaxChanges = 2
  MaxKeys = 4
  MaxFields = 2
  Tables <- MCTables
  Headers <- MCHeaders
  Texts = {0, 1, 5}
  Limits = {1, 2, 3}
  Budget = 7
  SnapshotPages <- MCPages
  Roles = {"button", "link", "text"}
  NoName = NoName
  NoMark = NoMark
  MaxColumns = 2
  MaxRows = 3
  MaxAnswer = 13
  MaxSum = 14
  Wide = 2
  MaxGenerations = 4
  Viewports <- MCViewports
  Densities = {4, 7}
  Resolutions <- MCResolutions
  DensityChoices = {0, 1}
  Authorities <- MCAuthorities
  MinWidth = 4
  MaxWidth = 32
  MinHeight = 2
  MaxHeight = 18
  AlignWidth = 4
  AlignHeight = 2
  PixelBudget = 300
  MaxAttached = 2
  Loads = {l1, l2}
  Canvases = {k1, k2}
  NoCanvas = NoCanvas
  CanvasSizes = {1, 2, 3}
  SizeLimit = 2
  Width = 6
  Height = 3
  PatchSize = 4
  Halo = 1
  Rects <- MCRects
  Delay <- MCDelay
  SlowPatches = 2
  WarmUp = 1
  BatchSize = 2
  MaxDamages = 3
  MaxLaunches = 2
  TraceEvents <- MCTrace
  MaxEvents = 4
  MaxDepth = 2
  Checkpoints <- MCCheckpoints
  MaxCheckpoints = 4
  Operations = {o1, o2, o3}
  Warmup = {o3}
  Pictures = {"p", "q"}
  MaxAttempts = 2
  Barriers = {"b1", "b2"}
  PageSessions = {1, 2}
  MaxCommands <- MCCommands
  MaxClicks = 2
  VblankIds = {1, 2, 3}
  Second = 12
  Milli = 2
  Hz = 5
  EventCapacity = 2
  LongestDelay = 3
  Targets = {0, 3}
  LastMicro = 6
  MaxWait = 3
  Slice = 2
  Delays = {0, 1, 4}
  LongestDue = 4
  Late = 1
  Screens <- MCScreens
  LookAttempts = 2
  Samples = 3
  MaxWire = 3
SPECIFICATION MCSpec
INVARIANTS PoolIsSound LedgerIsSound AcceptedIsServable PagesAreRead
           ViewerIsSound DisplayIsCurrent EnhancementIsSound OverlayIsSound MeasuresAreTrue BarriersAreExact WaitsAreBounded
PROPERTIES LeasedIsFrozen TabsAreTrue FilesAreWhole OwnedIsClean VblanksAreTimely QualificationsAreSound
CHECK_DEADLOCK FALSE
