SPECIFICATION ComponentsSpec
CONSTANTS
  MaxTasks = 4
  MaxHistory = 2
  LogLimit = 2
  LogBatch = 2
  MaxLogs = 5
  Clients = {k1, k2}
  Requests = {r1, r2}
  MaxEntries = 1
  Burst = 2
  IdleLimit = 2
  Browsers = {b1, b2}
  Channels = {ch1}
  Events = {e1}
  SendBuffer = 1
  BroadcastBuffer = 1
  Callers = {"c1", "c2", "c3"}
  Services = {"handler"}
  ServiceOf <- ImageServiceOf
  Torrents = {"t1", "t2"}
  Foldered = {"t2"}
  Titles = {"A", "B"}
  FirstTitle = "A"
  Jobs = {j1}
  Faults = {"list", "move", "rename", "commit"}
  MaxDepth = 3
  BackupSubs = {bs1}
  BackupUrls = {u1}
  DefaultUrl = u1
  OldDownloads = {1, 2}
  MaxRaw = 2
  FetchSettings <- Settings
  FetchSubs <- Followers
  MaxStop = 2
  Items <- FeedItems
  RuleSets <- FeedRules
  MaxItems = 3
  DraftIds = {d1, d2}
  Agents = {a1, a2}
  Previews <- SourcePreviews
  MaxRevision = 2
  MaxDrafts = 2
  PreviewGate = 1
INVARIANTS OneTaskWorks CancelIsTold NoFreeTokens ChannelsClosedOnce CoversAreWhole WaitersAreServed
  LedgerOfDownloads NobodyStarves GivenUpLate PolicyIsFollowed PreviewHonoured ConfirmedAsReviewed
  OneSubscriptionPerSubject
PROPERTIES RecentLogsStay RenameSavesTruePath NothingRunsByImport LocalRowsStay
CHECK_DEADLOCK FALSE
