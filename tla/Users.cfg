SPECIFICATION Spec
CONSTANTS
  None = None
  e1 = e1
  r1 = r1
  r2 = r2
  Episodes = {e1}
  Resources = {r1}
  Hashes = {r1}
  DownloadIds = {d1, d2}
  Collectors = {c1}
  CompletionJobs = {j1}
  EpisodeOf <- MCEpisodeOf
  CompletionEpisodeOf <- MCEpisodeOf
  HashOf <- MCHashOf
  FeedHash <- MCHashOf
  MaxRetries = 1
  RetryCap = 1
  RenameEnabled = FALSE
  UserChoices = {"missing", "ignored"}
  DeleteRequests <- MCSingle
  ClearRequests <- MCClears
  MaxPageSize = 1
  UserRetries = FALSE
  Faults = {"qb"}
SYMMETRY Symmetric
INVARIANTS OwnerExists
PROPERTIES KeepsPromise OnlyUserDecides
\* Once every episode has an owner nothing is left to do.
CHECK_DEADLOCK FALSE
