---------------------------- MODULE DownloadTables ----------------------------
(***************************************************************************)
(* The shared state of the life of the downloads of one subscription: the  *)
(* tables subscription_episodes, episode_resource_candidates and downloads,*)
(* the tasks of qBittorrent, the local states of the actors, and the       *)
(* transactions several of them run.  The actors are modules of their own: *)
(* FeedCollector, DownloadMonitor, DownloadCompletion and DownloadRequests; *)
(* DownloadLifecycle composes them.                                        *)
(*                                                                         *)
(* A database transaction and a call of qBittorrent are one step each.     *)
(* What an actor read before is kept in its local record, because the code *)
(* writes whole rows back (gorm's Save): a write may bring an old row back,*)
(* and even a row that was deleted in between.                             *)
(***************************************************************************)
EXTENDS Naturals, FiniteSets

CONSTANTS
  Episodes, Resources, Hashes, DownloadIds, Collectors,
  CompletionJobs,       \* completion goroutines that can exist at a time
  EpisodeOf,            \* [Resources -> Episodes], by the offset of the feed
  CompletionEpisodeOf,  \* the same by the offset of the subscription, or None
  HashOf,               \* [Resources -> Hashes], the info hash of the torrent
  FeedHash,             \* [Resources -> Hashes \cup {None}], as the feed says
  MaxRetries,           \* downloads.max_retries, 0 for unlimited
  RetryCap,             \* bound of the model on an unlimited retry counter
  RenameEnabled,        \* subscriptions.rename_enabled
  UserChoices,          \* statuses the user sets
  DeleteRequests,       \* batches of downloads the user deletes
  ClearRequests,        \* sets of statuses the user clears: one status, or all
  MaxPageSize,          \* rows a list of downloads holds at most
  UserRetries,          \* whether the user retries downloads
  Faults,               \* what goes wrong: see FaultKinds
  None                  \* SQL NULL and the empty string

FaultKinds ==
  { "crash",            \* the process stops and starts again
    "db",               \* a transaction is refused (SQLITE_BUSY)
    "qb",               \* a call of qBittorrent fails, done or not
    "rename",           \* the rename of a finished download fails
    "torrentStalls",    \* a torrent waits for peers or for its metadata
    "torrentError",     \* a torrent ends in an error state
    "torrentRecovers",  \* and is resumed by qBittorrent
    "torrentRemoved" }  \* someone removes it in qBittorrent

ASSUME ConstantsAssumption ==
  /\ None \notin Episodes \cup Resources \cup Hashes \cup DownloadIds
  /\ Hashes \cap DownloadIds = {}
  /\ EpisodeOf \in [Resources -> Episodes]
  /\ CompletionEpisodeOf \in [Resources -> Episodes \cup {None}]
  /\ HashOf \in [Resources -> Hashes]
  /\ FeedHash \in [Resources -> Hashes \cup {None}]
  /\ MaxRetries \in Nat /\ RetryCap \in Nat /\ MaxRetries <= RetryCap
  /\ RenameEnabled \in BOOLEAN /\ UserRetries \in BOOLEAN
  /\ UserChoices \subseteq {"missing", "marked_downloaded", "ignored"}
  /\ DeleteRequests \subseteq SUBSET DownloadIds
  /\ MaxPageSize \in Nat
  /\ Faults \subseteq FaultKinds

VARIABLES
  ledger,      \* subscription_episodes by episode
  candidates,  \* episode_resource_candidates: <<episode, resource>>
  rows,        \* downloads by primary key, None where there is no row
  origin,      \* the columns of a download that never change: its resource
  torrents,    \* qBittorrent by info hash, None where it has no such task
  collector,   \* local state of each collector
  monitor,     \* local state of the monitor
  job,         \* local state of each completion goroutine
  user         \* the request of the user that is being served

database == <<ledger, candidates, rows, origin>>
vars == <<database, torrents, collector, monitor, job, user>>

-----------------------------------------------------------------------------
(* Rows of the two tables, and the tasks of qBittorrent.                   *)

EpisodeStatuses ==
  {"absent", "missing", "downloading", "downloaded", "marked_downloaded", "ignored"}

DownloadStatuses ==
  {"pending", "retry_cleanup", "retry_cleanup_processing", "downloading",
   "stalled", "completed", "failed"}

ASSUME ClearsAreOfStatuses == ClearRequests \subseteq SUBSET DownloadStatuses

(* After a retry the hash column holds a placeholder made of the row's id. *)
HashColumn == Hashes \cup DownloadIds \cup {None}
Placeholder(d) == d

LedgerRow ==
  [status : EpisodeStatuses, active : DownloadIds \cup {None},
   hash : HashColumn, url : Resources \cup {None}]

DownloadRow ==
  [status : DownloadStatuses, hash : HashColumn, retries : 0..RetryCap,
   permanent : BOOLEAN]

ASSUME NoneIsNoRow == None \notin DownloadRow

TorrentStates == {"stalled", "downloading", "completed", "failed"}

AutoRss == "AutoRss"  \* the category of a task whose hash is in the table

(* The category of a task that was just added names its download.          *)
ASSUME CategoriesDiffer == AutoRss \notin DownloadIds

Torrent == [category : DownloadIds \cup {AutoRss}, state : TorrentStates]

Cleared(status) ==
  [status |-> status, active |-> None, hash |-> None, url |-> None]

Claimed(d, hash, r) ==
  [status |-> "downloading", active |-> d, hash |-> hash, url |-> r]

HasStatus(d, status) == rows[d] # None /\ rows[d].status = status

InAutoRss(h) == torrents[h] # None /\ torrents[h].category = AutoRss

Without(hashes) == [h \in Hashes |-> IF h \in hashes THEN None ELSE torrents[h]]

-----------------------------------------------------------------------------
(* Writing a whole download row.  The unique index on torrent_hash refuses *)
(* a second row with the same hash, the empty one included.                *)

HashFree(d, hash) ==
  \A other \in DownloadIds \ {d} : rows[other] # None => rows[other].hash # hash

Saved(d, row) == IF HashFree(d, row.hash) THEN [rows EXCEPT ![d] = row] ELSE rows

(* Mutated: the retries are counted one too far.                           *)
ExhaustedTooLate(row) ==
  row.permanent \/ (MaxRetries > 0 /\ row.retries > MaxRetries)

(* A permanent error, or no retry left: the episode is given back.         *)
Exhausted(row) ==
  row.permanent \/ (MaxRetries > 0 /\ row.retries >= MaxRetries)

ReleasedBy(ids) ==
  [e \in Episodes |->
     IF ledger[e].active \in ids /\ ledger[e].status = "downloading"
     THEN Cleared("missing") ELSE ledger[e]]

(* Mutated: every failure, or no failure, gives the episode back.          *)
PersistFailureReleasing(d, row) ==
  rows' = Saved(d, row) /\ ledger' = ReleasedBy({d})

PersistFailureKeeping(d, row) == rows' = Saved(d, row) /\ UNCHANGED ledger

(* PersistDownloadFailure: the row and, for the last failure, the episode. *)
PersistFailure(d, row) ==
  /\ rows' = Saved(d, row)
  /\ ledger' = IF Exhausted(row) /\ HashFree(d, row.hash)
               THEN ReleasedBy({d}) ELSE ledger

(* RequeueDownload: the download, as read before, takes the episode back   *)
(* (or still owns it) and waits for the cleanup of its old torrent.        *)
RequeueEpisode(d) == CompletionEpisodeOf[origin[d]]

Reset(row) ==
  [row EXCEPT !.status = "retry_cleanup", !.retries = 0, !.permanent = FALSE]

MayRequeue(d, row) ==
  /\ RequeueEpisode(d) # None
  /\ LET entry == ledger[RequeueEpisode(d)] IN
       \/ entry.status = "missing" /\ entry.active = None
       \/ entry.status = "downloading" /\ entry.active = d
  /\ HashFree(d, row.hash)

Requeue(d, row) ==
  /\ MayRequeue(d, row)
  /\ ledger' = [ledger EXCEPT ![RequeueEpisode(d)] =
                  IF @.status = "missing" THEN Claimed(d, row.hash, origin[d])
                  ELSE @]
  /\ rows' = [rows EXCEPT ![d] = Reset(row)]
  /\ UNCHANGED <<candidates, origin>>

-----------------------------------------------------------------------------
(* Local states.                                                           *)

CollectorIdle == [pc |-> "idle", item |-> None, id |-> None, row |-> None]

CollectorState ==
  [pc : {"idle", "claimed", "recover", "handOver", "requeue", "release"},
   item : Resources \cup {None}, id : DownloadIds \cup {None},
   row : DownloadRow \cup {None}]

MonitorIdle ==
  [pc |-> "idle", id |-> None, row |-> None, hash |-> None, state |-> None]

MonitorState ==
  [pc : {"idle", "retry", "cleanup", "finalize", "pending", "addFailed",
         "checkpoint", "categorize", "activate", "status", "reconcile", "save"},
   id : DownloadIds \cup {None}, row : DownloadRow \cup {None},
   hash : HashColumn, state : TorrentStates \cup {None}]

NoJob == [pc |-> "idle", id |-> None, row |-> None]

JobState ==
  [pc : {"idle", "rename", "commit"}, id : DownloadIds \cup {None},
   row : DownloadRow \cup {None}]

UserIdle ==
  [pc |-> "idle", batch |-> [d \in DownloadIds |-> None], ids |-> {}, statuses |-> {}, hashes |-> {}]

UserState ==
  [pc : {"idle", "retry", "deletePayload", "deleteRows"},
   batch : [DownloadIds -> DownloadRow \cup {None}],
   ids : SUBSET DownloadIds, statuses : SUBSET DownloadStatuses, hashes : SUBSET HashColumn]

Volatile == <<collector, monitor, job, user>>
=============================================================================
