--------------------------- MODULE DownloadMonitor ---------------------------
(***************************************************************************)
(* The download monitor: DownloadMonitor.checkDownloads, one goroutine that *)
(* retries failed downloads, cleans up after retries of the user, hands    *)
(* pending downloads to qBittorrent and follows their state.               *)
(*                                                                         *)
(* A cycle lists rows and torrents and then handles them one by one.  The  *)
(* model reads a row, or a torrent, when the monitor turns to it: what it  *)
(* writes may be as old as its own turn, not as old as the cycle.          *)
(***************************************************************************)
EXTENDS DownloadTables

MonitorAt(pc) == monitor.pc = pc

MonitorStep(state) ==
  /\ monitor' = state
  /\ UNCHANGED <<candidates, origin, collector, user>>

Turn(pc, d) == [MonitorIdle EXCEPT !.pc = pc, !.id = d, !.row = rows[d]]

(* RetryService.ProcessRetries.  When the backoff has run out is left open;*)
(* RetryCap only bounds the counter of the model.                          *)
RetryVisit(d) ==
  /\ MonitorAt("idle")
  /\ HasStatus(d, "failed")
  /\ ~Exhausted(rows[d])
  /\ MaxRetries = 0 => rows[d].retries < RetryCap
  /\ MonitorStep(Turn("retry", d))
  /\ UNCHANGED <<ledger, rows, torrents, job>>

PrepareRetry ==
  /\ MonitorAt("retry")
  /\ rows' = Saved(monitor.id,
                   [monitor.row EXCEPT !.status = "pending", !.retries = @ + 1])
  /\ MonitorStep(MonitorIdle)
  /\ UNCHANGED <<ledger, torrents, job>>

(* processRetryCleanupDownloads: claims left over are taken back after a   *)
(* lease, then each row is claimed, its torrent deleted with the payload,  *)
(* and the row made pending again.                                         *)
(* Mutated: the lease of a claim that was left over never runs out.        *)
RecoverNoLease(d) ==
  /\ MonitorAt("idle")
  /\ HasStatus(d, "retry_cleanup")
  /\ MonitorStep(MonitorIdle)
  /\ UNCHANGED <<ledger, rows, torrents, job>>

RecoverCleanupLease(d) ==
  /\ MonitorAt("idle")
  /\ HasStatus(d, "retry_cleanup_processing")
  /\ rows' = [rows EXCEPT ![d].status = "retry_cleanup"]
  /\ MonitorStep(MonitorIdle)
  /\ UNCHANGED <<ledger, torrents, job>>

ClaimCleanup(d) ==
  /\ MonitorAt("idle")
  /\ HasStatus(d, "retry_cleanup")
  /\ rows' = [rows EXCEPT ![d].status = "retry_cleanup_processing"]
  /\ MonitorStep([MonitorIdle EXCEPT !.pc = "cleanup", !.id = d,
                                     !.hash = rows[d].hash])
  /\ UNCHANGED <<ledger, torrents, job>>

DeleteRetryPayload ==
  /\ MonitorAt("cleanup")
  /\ torrents' = Without({monitor.hash})
  /\ MonitorStep([monitor EXCEPT !.pc = "finalize"])
  /\ UNCHANGED <<ledger, rows, job>>

(* Writes of the cleanup hold only for the claimed row with its old hash.  *)
CleanupWrites(status, hash) ==
  rows' = IF /\ HasStatus(monitor.id, "retry_cleanup_processing")
             /\ rows[monitor.id].hash = monitor.hash
          THEN [rows EXCEPT ![monitor.id].status = status,
                            ![monitor.id].hash = hash]
          ELSE rows

DeleteRetryPayloadFails ==
  /\ MonitorAt("cleanup")
  /\ "qb" \in Faults
  /\ torrents' \in {torrents, Without({monitor.hash})}
  /\ CleanupWrites("retry_cleanup", monitor.hash)
  /\ MonitorStep(MonitorIdle)
  /\ UNCHANGED <<ledger, job>>

FinalizeCleanup ==
  /\ MonitorAt("finalize")
  /\ CleanupWrites("pending", Placeholder(monitor.id))
  /\ MonitorStep(MonitorIdle)
  /\ UNCHANGED <<ledger, torrents, job>>

(* processPendingDownloads.                                                *)
PendingVisit(d) ==
  /\ MonitorAt("idle")
  /\ HasStatus(d, "pending")
  /\ MonitorStep(Turn("pending", d))
  /\ UNCHANGED <<ledger, rows, torrents, job>>

AddedBefore(h) == torrents[h] # None /\ torrents[h].category = monitor.id

(* A task in the category of this download is left from an earlier try.    *)
ResumeAdded(h) ==
  /\ MonitorAt("pending")
  /\ AddedBefore(h)
  /\ MonitorStep([monitor EXCEPT !.pc = "checkpoint", !.hash = h])
  /\ UNCHANGED <<ledger, rows, torrents, job>>

AlreadyRunning == monitor.row.hash \in Hashes /\ InAutoRss(monitor.row.hash)

ResumeRunning ==
  /\ MonitorAt("pending")
  /\ \A h \in Hashes : ~AddedBefore(h)
  /\ AlreadyRunning
  /\ MonitorStep([monitor EXCEPT !.pc = "activate"])
  /\ UNCHANGED <<ledger, rows, torrents, job>>

(* AddTorrent puts the task in the category of this download; it may not   *)
(* learn the hash in time, or it may fail, with the task added or not.  A  *)
(* task that exists keeps its state and moves to the category if its hash  *)
(* is known from the magnet link.                                          *)
Added(h) ==
  [torrents EXCEPT ![h] = [category |-> monitor.id,
                           state |-> IF @ = None THEN "downloading" ELSE @.state]]

AddTorrent ==
  LET h == HashOf[origin[monitor.id]] IN
  /\ MonitorAt("pending")
  /\ \A other \in Hashes : ~AddedBefore(other)
  /\ ~AlreadyRunning
  /\ \/ /\ torrents' = Added(h)
        /\ MonitorStep([monitor EXCEPT !.pc = "checkpoint", !.hash = h])
     \/ /\ "qb" \in Faults \/ torrents[h] # None
        /\ torrents' = IF torrents[h] = None THEN Added(h) ELSE torrents
        /\ MonitorStep(MonitorIdle)
     \/ /\ "qb" \in Faults
        /\ torrents' \in {torrents, IF torrents[h] = None THEN Added(h) ELSE torrents}
        /\ MonitorStep([monitor EXCEPT !.pc = "addFailed"])
  /\ UNCHANGED <<ledger, rows, job>>

(* PrepareFailure with an error that may or may not be worth a retry.      *)
FailAdd ==
  /\ MonitorAt("addFailed")
  /\ \E permanent \in BOOLEAN :
       PersistFailure(monitor.id, [monitor.row EXCEPT !.status = "failed",
                                                      !.permanent = permanent])
  /\ MonitorStep(MonitorIdle)
  /\ UNCHANGED <<torrents, job>>

(* checkpointPendingDownload: hash, then category, then status.            *)
Checkpoint ==
  LET row == [monitor.row EXCEPT !.hash = monitor.hash, !.status = "pending"]
      known == monitor.row.hash = monitor.hash
  IN
  /\ MonitorAt("checkpoint")
  /\ rows' = IF known THEN rows ELSE Saved(monitor.id, row)
  /\ MonitorStep(IF known \/ HashFree(monitor.id, monitor.hash)
                 THEN [monitor EXCEPT !.pc = "categorize", !.row = row]
                 ELSE MonitorIdle)
  /\ UNCHANGED <<ledger, torrents, job>>

(* Mutated: the task stays in the category of its download.                *)
CategorizeNothing ==
  /\ MonitorAt("categorize")
  /\ MonitorStep([monitor EXCEPT !.pc = "activate"])
  /\ UNCHANGED <<ledger, rows, torrents, job>>

Categorize ==
  /\ MonitorAt("categorize")
  /\ torrents' = IF torrents[monitor.hash] = None THEN torrents
                 ELSE [torrents EXCEPT ![monitor.hash].category = AutoRss]
  /\ MonitorStep([monitor EXCEPT !.pc = "activate"])
  /\ UNCHANGED <<ledger, rows, job>>

Activate ==
  /\ MonitorAt("activate")
  /\ rows' = Saved(monitor.id, [monitor.row EXCEPT !.status = "downloading"])
  /\ MonitorStep(MonitorIdle)
  /\ UNCHANGED <<ledger, torrents, job>>

(* The status of each task of the category, and the row with its hash.     *)
StatusVisit(h) ==
  /\ MonitorAt("idle")
  /\ InAutoRss(h)
  /\ MonitorStep([MonitorIdle EXCEPT !.pc = "status", !.hash = h,
                                     !.state = torrents[h].state])
  /\ UNCHANGED <<ledger, rows, torrents, job>>

WithHash(d, h) == rows[d] # None /\ rows[d].hash = h

(* StatusSync.UpdateStatus: a finished torrent starts a completion; any    *)
(* other change of state is written to the row, whatever its status was.   *)
StartCompletion(d, j) ==
  /\ MonitorAt("status")
  /\ WithHash(d, monitor.hash)
  /\ monitor.state = "completed" /\ rows[d].status # "completed"
  /\ job[j] = NoJob
  /\ job' = [job EXCEPT ![j] =
               [pc |-> IF RenameEnabled THEN "rename" ELSE "commit",
                id |-> d, row |-> rows[d]]]
  /\ MonitorStep(MonitorIdle)
  /\ UNCHANGED <<ledger, rows, torrents>>

UpdateStatus(d) ==
  /\ MonitorAt("status")
  /\ WithHash(d, monitor.hash)
  /\ monitor.state # "completed" /\ rows[d].status # monitor.state
  /\ MonitorStep([monitor EXCEPT !.pc = "save", !.id = d,
                    !.row = [rows[d] EXCEPT !.status = monitor.state]])
  /\ UNCHANGED <<ledger, rows, torrents, job>>

StatusUnchanged ==
  /\ MonitorAt("status")
  /\ \A d \in DownloadIds : WithHash(d, monitor.hash) =>
       \/ rows[d].status = monitor.state
       \/ monitor.state = "completed" /\ \A j \in CompletionJobs : job[j] # NoJob
  /\ MonitorStep(MonitorIdle)
  /\ UNCHANGED <<ledger, rows, torrents, job>>

(* StatusSync.Reconcile: a running download whose task has disappeared.    *)
ReconcileVisit(h) ==
  /\ MonitorAt("idle")
  /\ ~InAutoRss(h)
  /\ \E d \in DownloadIds : WithHash(d, h)
  /\ MonitorStep([MonitorIdle EXCEPT !.pc = "reconcile", !.hash = h])
  /\ UNCHANGED <<ledger, rows, torrents, job>>

Running(d) == HasStatus(d, "downloading") \/ HasStatus(d, "stalled")

ReconcileMissing(d) ==
  /\ MonitorAt("reconcile")
  /\ Running(d) /\ WithHash(d, monitor.hash)
  /\ MonitorStep([monitor EXCEPT !.pc = "save", !.id = d,
                    !.row = [rows[d] EXCEPT !.status = "failed"]])
  /\ UNCHANGED <<ledger, rows, torrents, job>>

NothingToReconcile ==
  /\ MonitorAt("reconcile")
  /\ ~\E d \in DownloadIds : Running(d) /\ WithHash(d, monitor.hash)
  /\ MonitorStep(MonitorIdle)
  /\ UNCHANGED <<ledger, rows, torrents, job>>

SaveStatus ==
  /\ MonitorAt("save")
  /\ IF monitor.row.status = "failed"
     THEN PersistFailure(monitor.id, monitor.row)
     ELSE rows' = Saved(monitor.id, monitor.row) /\ UNCHANGED ledger
  /\ MonitorStep(MonitorIdle)
  /\ UNCHANGED <<torrents, job>>

(* A refused write, or a failed call of qBittorrent: the monitor logs it   *)
(* and turns to the next row.                                              *)
MonitorSkips ==
  /\ ~MonitorAt("idle")
  /\ \/ "db" \in Faults
     \/ "qb" \in Faults /\ (MonitorAt("categorize") \/ MonitorAt("pending"))
  /\ MonitorStep(MonitorIdle)
  /\ UNCHANGED <<ledger, rows, torrents, job>>

MonitorTurns(d) ==
  RetryVisit(d) \/ RecoverCleanupLease(d) \/ ClaimCleanup(d) \/ PendingVisit(d)

MonitorLooks(h) == StatusVisit(h) \/ ReconcileVisit(h)

MonitorWorks ==
  \/ PrepareRetry \/ DeleteRetryPayload \/ DeleteRetryPayloadFails
  \/ FinalizeCleanup \/ ResumeRunning \/ AddTorrent \/ FailAdd
  \/ Checkpoint \/ Categorize \/ Activate \/ StatusUnchanged
  \/ NothingToReconcile \/ SaveStatus
  \/ \E h \in Hashes : ResumeAdded(h)
  \/ \E d \in DownloadIds :
       \/ UpdateStatus(d) \/ ReconcileMissing(d)
       \/ \E j \in CompletionJobs : StartCompletion(d, j)

=============================================================================
