SPECIFICATION Spec
CONSTANTS
  None = None
  e1 = e1
  r1 = r1
  r2 = r2
  Episodes = {e1}
  Resources = {r1}
  Hashes = {r1}
  DownloadIds = {d1}
  Collectors = {c1}
  CompletionJobs = {j1}
  EpisodeOf <- MCEpisodeOf
  CompletionEpisodeOf <- MCEpisodeOf
  HashOf <- MCHashOf
  FeedHash <- MCHashOf
  MaxRetries = 1
  RetryCap = 1
  RenameEnabled = TRUE
  UserChoices = {}
  DeleteRequests <- MCNothing
  ClearRequests <- MCNothing
  MaxPageSize = 1
  UserRetries = TRUE
  Faults = {"qb"}
SYMMETRY Symmetric
PROPERTIES NoCandidateOfItself
\* Once every episode has an owner nothing is left to do.
CHECK_DEADLOCK FALSE
