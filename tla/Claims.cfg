SPECIFICATION Spec
CONSTANTS
  None = None
  e1 = e1
  r1 = r1
  r2 = r2
  Episodes = {e1}
  Resources = {r1, r2}
  Hashes = {r1, r2}
  DownloadIds = {d1, d2}
  Collectors = {c1, c2}
  CompletionJobs = {j1}
  EpisodeOf <- MCEpisodeOf
  CompletionEpisodeOf <- MCEpisodeOf
  HashOf <- MCHashOf
  FeedHash <- MCOneFeedHash
  MaxRetries = 1
  RetryCap = 1
  RenameEnabled = FALSE
  UserChoices = {}
  DeleteRequests <- MCNothing
  ClearRequests <- MCNothing
  MaxPageSize = 1
  UserRetries = TRUE
  Faults = {"torrentError"}
SYMMETRY SymmetricActors
INVARIANTS OneDownloadPerEpisode
\* Once every episode has an owner nothing is left to do.
CHECK_DEADLOCK FALSE
