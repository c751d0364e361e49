SPECIFICATION FairSpec
CONSTANTS
  None = None
  e1 = e1
  r1 = r1
  r2 = r2
  Episodes = {e1}
  Resources = {r1, r2}
  Hashes = {r1, r2}
  DownloadIds = {d1}
  Collectors = {c1}
  CompletionJobs = {j1}
  EpisodeOf <- MCEpisodeOf
  CompletionEpisodeOf <- MCOtherOffset
  HashOf <- MCHashOf
  FeedHash <- MCHashOf
  MaxRetries = 1
  RetryCap = 1
  RenameEnabled = TRUE
  UserChoices = {}
  DeleteRequests <- MCNothing
  ClearRequests <- MCNothing
  MaxPageSize = 1
  UserRetries = FALSE
  Faults = {}
PROPERTIES FinishedTorrentsComplete
\* Once every episode has an owner nothing is left to do.
CHECK_DEADLOCK FALSE
