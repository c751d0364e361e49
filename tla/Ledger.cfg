SPECIFICATION Spec
CONSTANTS
  None = None
  Episodes = {e1, e2}
  DownloadIds = {d1, d2, d3}
INVARIANT TypeOK
PROPERTY OwnedStatusStands
