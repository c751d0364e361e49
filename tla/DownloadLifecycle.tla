-------------------------- MODULE DownloadLifecycle --------------------------
(***************************************************************************)
(* The life of the downloads of one subscription, from the RSS item to the *)
(* completed episode: the collectors (periodic check and manual            *)
(* collection), the download monitor, the completion goroutines, the user  *)
(* of the HTTP API, qBittorrent, and the process that may stop at any time.*)
(*                                                                         *)
(* Together they keep the promises of EpisodeLedger, of which this is a    *)
(* refinement, and the properties at the end of the module.                *)
(***************************************************************************)
EXTENDS FeedCollector, DownloadMonitor, DownloadCompletion, DownloadRequests

Init ==
  /\ ledger = [e \in Episodes |-> Cleared("absent")]
  /\ candidates = {}
  /\ rows = [d \in DownloadIds |-> None]
  /\ origin = [d \in DownloadIds |-> None]
  /\ torrents = [h \in Hashes |-> None]
  /\ collector = [c \in Collectors |-> CollectorIdle]
  /\ monitor = MonitorIdle
  /\ job = [j \in CompletionJobs |-> NoJob]
  /\ user = UserIdle

-----------------------------------------------------------------------------
(* qBittorrent, and the process itself.                                    *)

TorrentStep(h, torrent) ==
  /\ torrents' = [torrents EXCEPT ![h] = torrent]
  /\ UNCHANGED <<database, Volatile>>

TorrentProgresses(h) ==
  /\ torrents[h] # None
  /\ \/ /\ torrents[h].state = "stalled"
        /\ TorrentStep(h, [torrents[h] EXCEPT !.state = "downloading"])
     \/ /\ torrents[h].state = "downloading"
        /\ TorrentStep(h, [torrents[h] EXCEPT !.state = "completed"])

TorrentDisturbed(h) ==
  /\ torrents[h] # None
  /\ \/ /\ "torrentStalls" \in Faults
        /\ torrents[h].state = "downloading"
        /\ TorrentStep(h, [torrents[h] EXCEPT !.state = "stalled"])
     \/ /\ "torrentError" \in Faults
        /\ torrents[h].state # "failed"
        /\ TorrentStep(h, [torrents[h] EXCEPT !.state = "failed"])
     \/ /\ "torrentRecovers" \in Faults
        /\ torrents[h].state = "failed"
        /\ TorrentStep(h, [torrents[h] EXCEPT !.state = "downloading"])
     \/ "torrentRemoved" \in Faults /\ TorrentStep(h, None)

Crash ==
  /\ "crash" \in Faults
  /\ collector' = [c \in Collectors |-> CollectorIdle]
  /\ monitor' = MonitorIdle
  /\ job' = [j \in CompletionJobs |-> NoJob]
  /\ user' = UserIdle
  /\ UNCHANGED <<database, torrents>>

Next ==
  \/ \E c \in Collectors : Collect(c)
  \/ \E d \in DownloadIds : MonitorTurns(d)
  \/ \E h \in Hashes : MonitorLooks(h) \/ TorrentProgresses(h) \/ TorrentDisturbed(h)
  \/ MonitorWorks \/ MonitorSkips
  \/ \E j \in CompletionJobs : CompletionWorks(j)
  \/ UserActs
  \/ Crash

Spec == Init /\ [][Next]_vars

TypeOK ==
  /\ ledger \in [Episodes -> LedgerRow]
  /\ candidates \subseteq Episodes \X Resources
  /\ rows \in [DownloadIds -> DownloadRow \cup {None}]
  /\ origin \in [DownloadIds -> Resources \cup {None}]
  /\ torrents \in [Hashes -> Torrent \cup {None}]
  /\ collector \in [Collectors -> CollectorState]
  /\ monitor \in MonitorState
  /\ job \in [CompletionJobs -> JobState]
  /\ user \in UserState
-----------------------------------------------------------------------------
(* Fairness: every goroutine keeps running, and a cycle of the monitor     *)
(* visits every row and every torrent that asks for it, however often the  *)
(* other rows ask (strong fairness per row: the monitor is one thread).    *)
Fairness ==
  /\ \A c \in Collectors : WF_vars(CollectorAt(c, "idle") = FALSE /\ Collect(c))
  /\ WF_vars(MonitorWorks)
  /\ \A d \in DownloadIds : SF_vars(MonitorTurns(d))
  /\ \A h \in Hashes : SF_vars(StatusVisit(h)) /\ SF_vars(ReconcileVisit(h))
  /\ \A j \in CompletionJobs : WF_vars(CompletionWorks(j))

FairSpec == Spec /\ Fairness

-----------------------------------------------------------------------------
(* The download an episode points to exists, and it is a download of this  *)
(* episode: deletions detach it in the same transaction, and a stale Save  *)
(* can only bring rows back.                                               *)
OwnerExists ==
  \A e \in Episodes, d \in DownloadIds :
    ledger[e].active = d =>
      /\ rows[d] # None
      /\ e \in {EpisodeOf[origin[d]], CompletionEpisodeOf[origin[d]]}

(* Whatever row an actor is about to write, it belongs to a download that  *)
(* was created once, and the actor knows what its next step needs.         *)
OriginKnown(d) == d # None => origin[d] # None

RowsHaveOrigin == \A d \in DownloadIds : rows[d] # None => origin[d] # None

CollectorKnows(c) ==
  /\ OriginKnown(c.id)
  /\ c.pc # "idle" => c.item # None
  /\ c.pc \in {"handOver", "requeue"} => c.id # None /\ c.row # None

MonitorKnows(m) ==
  /\ OriginKnown(m.id)
  /\ m.pc \notin {"idle", "status", "reconcile"} => m.id # None
  /\ m.pc \notin {"idle", "status", "reconcile", "cleanup", "finalize"} => m.row # None
  /\ m.pc = "retry" => m.row.retries < RetryCap
  /\ m.pc \in {"checkpoint", "categorize"} => m.hash \in Hashes
  /\ m.pc = "status" => m.state \in TorrentStates
  /\ m.pc = "save" => m.row.status # "completed"

JobKnows(j) ==
  OriginKnown(j.id) /\ (j.pc # "idle" => j.id # None /\ j.row # None)

UserKnows(u) == \A d \in DownloadIds : u.batch[d] # None => origin[d] # None

ActorsKnowTheirDownloads ==
  /\ RowsHaveOrigin
  /\ \A c \in Collectors : CollectorKnows(collector[c])
  /\ MonitorKnows(monitor)
  /\ \A j \in CompletionJobs : JobKnows(job[j])
  /\ UserKnows(user)

(* A download that will not be tried again leaves no episode waiting for   *)
(* it: PersistDownloadFailure gives the episode back with the last failure.*)
LastFailureReleases ==
  \A d \in DownloadIds :
    HasStatus(d, "failed") /\ Exhausted(rows[d]) =>
      ~\E e \in Episodes : ledger[e].status = "downloading" /\ ledger[e].active = d

(* A download becomes completed only together with the episode it still    *)
(* owns: the transaction of HandleComplete writes both or none, however    *)
(* old the download was that the goroutine was given.                      *)
CompletedByOwner ==
  [][\A d \in DownloadIds :
       rows'[d] # None /\ rows'[d].status = "completed" /\ ~HasStatus(d, "completed")
         => \E e \in Episodes :
              ledger[e].active = d /\ ledger'[e].status = "downloaded"]_vars

(* An unfinished download is running, waiting, or will be tried again.     *)
Unfinished(d) ==
  /\ rows[d] # None
  /\ rows[d].status # "completed"
  /\ rows[d].status = "failed" => ~Exhausted(rows[d])

(* Collectors that run at the same time, retries, crashes and recoveries   *)
(* never leave two unfinished downloads for one episode.                   *)
OneDownloadPerEpisode ==
  \A d1, d2 \in DownloadIds :
    Unfinished(d1) /\ Unfinished(d2) /\ EpisodeOf[origin[d1]] = EpisodeOf[origin[d2]]
      => d1 = d2

(* At some time the process stops crashing, and the user retrying.         *)
Stable == <>[][~Crash /\ \A d \in DownloadIds : ~RetryDownload(d)]_vars

Claiming(e) == ledger[e].status = "downloading" /\ ledger[e].active = None

(* A claim does not wait forever for its download: the collector creates   *)
(* the download, hands the episode to an older one or releases it.         *)
ClaimsEnd == Stable => \A e \in Episodes : Claiming(e) ~> ~Claiming(e)

Cleaning(d) ==
  HasStatus(d, "retry_cleanup") \/ HasStatus(d, "retry_cleanup_processing")

(* A retry asked for by the user gets past the cleanup of the old payload, *)
(* even if the process stopped in the middle of it: the lease.             *)
CleanupEnds == Stable => \A d \in DownloadIds : Cleaning(d) ~> ~Cleaning(d)

TorrentFinished(d) ==
  /\ origin[d] # None
  /\ LET torrent == torrents[HashOf[origin[d]]] IN
       torrent # None /\ torrent.state = "completed"

Owns(d, e) == ledger[e].status = "downloading" /\ ledger[e].active = d

(* At some time the files of the torrents that exist can be renamed.       *)
RenamesSucceed ==
  <>[][\A j \in CompletionJobs :
         RenameFails(j) =>
           job[j].row.hash \notin Hashes \/ torrents[job[j].row.hash] = None]_vars

(* The finished torrent of the download that owns an episode completes it, *)
(* unless qBittorrent reports something else before it is noticed: a       *)
(* completion whose renaming failed is tried again by a later cycle.       *)
FinishedTorrentsComplete ==
  RenamesSucceed =>
    \A e \in Episodes, d \in DownloadIds :
      Owns(d, e) /\ TorrentFinished(d)
        ~> ledger[e].status = "downloaded" \/ ~TorrentFinished(d)

(* A resource is never offered as a replacement of itself.                 *)
NoCandidateOfItself ==
  [][\A e \in Episodes, r \in Resources :
       <<e, r>> \in candidates' \ candidates => ledger[e].url # r]_vars

(* max_retries = 0 means that a failed download is not tried again.        *)
ZeroMeansNoRetry ==
  MaxRetries = 0 => \A d \in DownloadIds : rows[d] # None => rows[d].retries = 0

-----------------------------------------------------------------------------
(* What the ledger promises, seen through the columns it is about.         *)
LedgerView ==
  [e \in Episodes |-> [status |-> ledger[e].status, active |-> ledger[e].active]]

Promise == INSTANCE EpisodeLedger WITH ledger <- LedgerView

(* Whatever the actors do, and however old the rows are that they write,   *)
(* the ledger only changes as EpisodeLedger allows.                        *)
KeepsPromise == Promise!Spec

(* In particular, what is not a request of the user to set a status is an  *)
(* automatic step of the ledger: deleting a download, say, does not forget *)
(* a finished episode.                                                     *)
OnlyUserDecides ==
  [][\/ UNCHANGED LedgerView
     \/ Promise!Automatic
     \/ \E chosen \in SUBSET Episodes, status \in UserChoices :
          SetUserStatus(chosen, status)]_vars
=============================================================================
