----------------------------- MODULE Replacement -----------------------------
(***************************************************************************)
(* The replacement of the resource of one episode: requests of the user,   *)
(* the task that serves them, the recovery at the start of the process,    *)
(* the cleanup after the switch, and what may happen around them.          *)
(***************************************************************************)
EXTENDS ReplacementDownload, ReplacementFiles

(* Before any replacement: the episode is owned, with a tracked download   *)
(* or marked by the user without one.                                      *)
Init ==
  /\ faults \in Budgets
  /\ \/ /\ episode = [status |-> "downloaded", active |-> Old]
        /\ place = Old
        /\ record = [d \in Downloads |-> IF d = Old
             THEN [status |-> "completed", hash |-> TRUE, owned |-> FALSE, filed |-> TRUE]
             ELSE None]
        /\ torrent = [d \in Downloads |-> IF d = Old THEN "seeding" ELSE "none"]
     \/ /\ episode = [status |-> "marked_downloaded", active |-> None]
        /\ place = None
        /\ record = [d \in Downloads |-> None]
        /\ torrent = [d \in Downloads |-> "none"]
  /\ candidate = [c \in Candidates |->
       [status |-> "pending", stage |-> "", old |-> None, download |-> FALSE, filed |-> FALSE]]
  /\ staging = [c \in Candidates |-> {}]
  /\ rollback = [c \in Candidates |-> None]
  /\ worker = [c \in Candidates |-> Free]
  /\ task = NoTask
  /\ recovery = [listed |-> FALSE, left |-> {}]
  /\ stopping = FALSE
  /\ deleting = [d \in Downloads |-> "no"]
  /\ taken = {}

-------------------------------------------------------------------------------
(* Requests: the task manager has one task at a time, and its preparation  *)
(* claims the candidate under its lock.                                    *)
Requested(c, kind) ==
  /\ task = NoTask /\ worker[c].pc = "free" /\ ~stopping
  /\ task' = [kind |-> kind, of |-> c, cancelled |-> FALSE]
  /\ UNCHANGED <<episode, record, torrent, disk, worker, recovery, stopping, deleting, faults>>

Claimable(c) ==
  /\ candidate[c].status \in {"pending", "failed"}
  /\ \A other \in Candidates \ {c} : candidate[other].status # "replacing"

PrepareReplace(c) ==
  /\ Claimable(c)
  /\ Requested(c, "replace")
  /\ Save(c, [status |-> "replacing", stage |-> "queued", old |-> None,
              download |-> FALSE, filed |-> FALSE])
  /\ taken' = taken \ {c}

PrepareRetryCleanup(c) ==
  /\ candidate[c].status = "accepted_cleanup_failed"
  /\ candidate[c].stage \in {"switched", "cleaning", "cleanup_active"}
  /\ Requested(c, "cleanup")
  /\ Stage(c, "cleanup_queued")
  /\ UNCHANGED taken

KeepCandidate(c) ==
  /\ candidate[c].status = "pending"
  /\ Save(c, [candidate[c] EXCEPT !.status = "kept_existing"])
  /\ UNCHANGED <<episode, record, torrent, disk, worker, control, faults>>

CancelTask ==
  /\ Fault("cancel")
  /\ task # NoTask /\ ~task.cancelled
  /\ task' = [task EXCEPT !.cancelled = TRUE]
  /\ UNCHANGED <<tables, torrent, disk, worker, recovery, stopping, deleting, taken>>

(* The user deletes a download.  The handler reads its row, asks           *)
(* qBittorrent to delete the torrent with its files, and deletes the row;  *)
(* the ledger lets the download go only with the row.                      *)
RequestDelete(d) ==
  /\ Fault("delete")
  /\ deleting[d] = "no" /\ record[d] # None
  /\ deleting' = [deleting EXCEPT ![d] = IF record[d].hash THEN "payload" ELSE "row"]
  /\ UNCHANGED <<tables, torrent, disk, worker, task, recovery, stopping, taken>>

(* The files of a torrent are found by their paths: the old one has the    *)
(* final path, whoever's file is there now, and a candidate's torrent is   *)
(* detached before its file gets there.                                    *)
DeletePayloadOf(d) ==
  /\ torrent' = [torrent EXCEPT ![d] = "none"]
  /\ IF d = Old /\ torrent[d] # "none"
     THEN place' = None /\ taken' = taken \cup ({place} \ {None})
     ELSE UNCHANGED <<place, taken>>
  /\ staging' = [c \in Candidates |-> IF c = d /\ torrent[d] # "none"
                                      THEN staging[c] \ {"payload"} ELSE staging[c]]

(* An error of qBittorrent does not stop the handler.                      *)
DeleteTorrentWithPayload(d) ==
  /\ deleting[d] = "payload"
  /\ \/ DeletePayloadOf(d) /\ UNCHANGED faults
     \/ Fault("qb") /\ UNCHANGED <<torrent, place, staging, taken>>
  /\ deleting' = [deleting EXCEPT ![d] = "row"]
  /\ UNCHANGED <<tables, rollback, worker, task, recovery, stopping>>

(* downloads.Delete: the row and its tie to the ledger, in one transaction. *)
(* When the row has gone meanwhile and the candidate has another, this one *)
(* is deleted; the rows of the code have their own ids.                    *)
DeleteRow(d) ==
  /\ deleting[d] = "row"
  /\ \/ /\ record' = [record EXCEPT ![d] = None]
        /\ episode' = IF episode.active = d THEN [episode EXCEPT !.active = None] ELSE episode
        /\ UNCHANGED faults
     \/ Fault("refused") /\ UNCHANGED <<record, episode>>
  /\ deleting' = [deleting EXCEPT ![d] = "no"]
  /\ UNCHANGED <<candidate, torrent, disk, worker, task, recovery, stopping, taken>>

DeleteDownload(d) == RequestDelete(d) \/ DeleteTorrentWithPayload(d) \/ DeleteRow(d)

SetUserStatus(status) ==
  /\ Fault("status")
  /\ episode' = [status |-> status, active |-> None]
  /\ UNCHANGED <<candidate, record, torrent, disk, worker, control>>

-------------------------------------------------------------------------------
(* Where advance starts for the row of the candidate.                      *)
AdvanceFrom(row) ==
  CASE row.status = "accepted_cleanup_failed" -> "cleanup"
    [] row.status # "accepted_cleanup_failed" /\ row.stage = "terminal_cleanup" -> "terminal"
    [] row.stage = "download_cleanup" -> "cleanup_payload"
    [] row.stage = "detaching" -> "redetach"
    [] row.stage = "staged" -> "staged"
    [] row.stage = "old_backed_up" -> "promote"
    [] row.stage = "promoted" -> "switch"
    [] OTHER -> "start"

Takes(c, pc, by) ==
  /\ worker' = [worker EXCEPT ![c] = Busy(pc, by)]
  /\ UNCHANGED <<control, candidate>>

(* ContinueReplace: a cancelled task gives the claim back.                 *)
ContinueReplace(c) ==
  /\ task.kind = "replace" /\ task.of = c /\ worker[c].pc = "free"
  /\ \/ /\ ~task.cancelled /\ candidate[c].status = "replacing"
        /\ Takes(c, AdvanceFrom(candidate[c]), "task")
     \/ /\ task.cancelled \/ candidate[c].status # "replacing"
        /\ candidate' = [candidate EXCEPT ![c] =
             IF task.cancelled /\ @.status = "replacing" /\ @.stage = "queued"
             THEN [@ EXCEPT !.status = "failed", !.stage = ""] ELSE @]
        /\ task' = NoTask
        /\ UNCHANGED <<worker, recovery, stopping, deleting, taken>>
  /\ UNCHANGED <<episode, record, torrent, disk, faults>>

ContinueRetryCleanup(c) ==
  /\ task.kind = "cleanup" /\ task.of = c /\ worker[c].pc = "free"
  /\ LET claimed == candidate[c].stage = "cleanup_queued"
     IN \/ ~task.cancelled /\ claimed /\ Takes(c, "claimed", "task")
        \/ /\ task.cancelled \/ ~claimed
           /\ IF claimed THEN Stage(c, "cleaning") ELSE UNCHANGED candidate
           /\ task' = NoTask
           /\ UNCHANGED <<worker, recovery, stopping, deleting, taken>>
  /\ UNCHANGED <<episode, record, torrent, disk, faults>>

(* The lock is held by the recovery, and the wait for it is cancelled.     *)
TaskGivesUp ==
  /\ task # NoTask /\ task.cancelled
  /\ worker[task.of].by = "recovery"
  /\ task' = NoTask
  /\ UNCHANGED <<tables, torrent, disk, worker, recovery, stopping, deleting, taken, faults>>

(* Mutated: pending cleanups are not listed.                               *)
ListReplacing ==
  /\ ~recovery.listed
  /\ recovery' = [listed |-> TRUE, left |-> {c \in Candidates : candidate[c].status = "replacing"}]
  /\ UNCHANGED <<tables, torrent, disk, worker, task, stopping, deleting, taken, faults>>

ListIncompleteReplacements ==
  /\ ~recovery.listed
  /\ recovery' = [listed |-> TRUE, left |-> {c \in Candidates :
       candidate[c].status \in {"replacing", "accepted_cleanup_failed"}}]
  /\ UNCHANGED <<tables, torrent, disk, worker, task, stopping, deleting, taken, faults>>

(* Candidates are taken in any order, the code takes them by age and waits *)
(* for those without a download to finish.                                 *)
Recover(c) ==
  /\ c \in recovery.left /\ worker[c].pc = "free"
  /\ IF stopping \/ candidate[c].stage = "done"
     THEN /\ recovery' = [recovery EXCEPT !.left = @ \ {c}]
          /\ UNCHANGED <<worker, task, stopping, deleting, taken>>
     ELSE /\ worker' = [worker EXCEPT ![c] = Busy(AdvanceFrom(candidate[c]), "recovery")]
          /\ UNCHANGED control
  /\ UNCHANGED <<tables, torrent, disk, faults>>

-------------------------------------------------------------------------------
(* Cleanup after the switch.                                               *)
ClaimCleanup(c) ==
  /\ worker[c].pc = "cleanup"
  /\ Stage(c, "cleanup_queued")
  /\ Goes(c, "claimed")
  /\ UNCHANGED <<episode, record, torrent, disk, faults>>

BeginCleanup(c) ==
  /\ worker[c].pc = "claimed"
  /\ IF Cancelled(c)
     THEN Stage(c, "cleaning") /\ Ends(c)
     ELSE Stage(c, "cleanup_active") /\ Goes(c, "remove_torrent")
  /\ UNCHANGED <<episode, record, torrent, disk, faults>>

(* Mutated: the old torrent is removed with its files, and its file has    *)
(* the path of the new one.                                                *)
RemoveOldWithPayload(c) ==
  /\ worker[c].pc = "remove_torrent"
  /\ candidate[c].old # None
  /\ torrent' = [torrent EXCEPT ![candidate[c].old] = "none"]
  /\ place' = IF torrent[candidate[c].old] = "none" THEN place ELSE None
  /\ Goes(c, "remove_rollback")
  /\ UNCHANGED <<tables, staging, rollback, faults>>

RemoveOldTorrent(c) ==
  /\ worker[c].pc = "remove_torrent"
  /\ IF candidate[c].old = None
     THEN UNCHANGED torrent
     ELSE torrent' = [torrent EXCEPT ![candidate[c].old] = "none"]
  /\ Goes(c, "remove_rollback")
  /\ UNCHANGED <<tables, disk, faults>>

RemoveRollback(c) ==
  /\ worker[c].pc = "remove_rollback"
  /\ rollback' = [rollback EXCEPT ![c] = None]
  /\ Goes(c, "remove_record")
  /\ UNCHANGED <<tables, torrent, place, staging, faults>>

(* downloads.Delete detaches the ledger too.                               *)
RemoveOldRecord(c) ==
  /\ worker[c].pc = "remove_record"
  /\ IF candidate[c].old = None
     THEN UNCHANGED <<record, episode>>
     ELSE /\ record' = [record EXCEPT ![candidate[c].old] = None]
          /\ episode' = IF episode.active = candidate[c].old
                        THEN [episode EXCEPT !.active = None] ELSE episode
  /\ Goes(c, "cleaned")
  /\ UNCHANGED <<candidate, torrent, disk, faults>>

FinishCleanup(c) ==
  /\ worker[c].pc = "cleaned"
  /\ Save(c, [candidate[c] EXCEPT !.status = "accepted", !.stage = "done"])
  /\ Ends(c)
  /\ UNCHANGED <<episode, record, torrent, disk, faults>>

(* Mutated: a failed cleanup is a failed replacement.                      *)
CleanupFailsReplacement(c) ==
  /\ worker[c].pc = "remove_torrent" /\ Fault("qb")
  /\ Save(c, [candidate[c] EXCEPT !.status = "failed"])
  /\ Ends(c)
  /\ UNCHANGED <<episode, record, torrent, disk>>

CleanupFails(c) ==
  /\ \/ worker[c].pc = "remove_torrent" /\ Fault("qb")
     \/ worker[c].pc = "remove_rollback" /\ Fault("file")
     \/ worker[c].pc = "remove_record" /\ Fault("refused")
  /\ Stage(c, "cleaning")
  /\ Ends(c)
  /\ UNCHANGED <<episode, record, torrent, disk>>

CleanupSaveRefused(c) ==
  /\ worker[c].pc \in {"cleanup", "claimed", "cleaned"}
  /\ Refused(c)

CleansUp(c) ==
  \/ ClaimCleanup(c) \/ BeginCleanup(c) \/ RemoveOldTorrent(c) \/ RemoveRollback(c)
  \/ RemoveOldRecord(c) \/ FinishCleanup(c) \/ CleanupFails(c) \/ CleanupSaveRefused(c)

-------------------------------------------------------------------------------
TorrentRuns(c) ==
  /\ torrent[c] = "downloading"
  /\ \/ /\ torrent' = [torrent EXCEPT ![c] = "complete"]
        /\ staging' = [staging EXCEPT ![c] = @ \cup {"payload"}]
        /\ UNCHANGED faults
     \/ /\ Fault("torrent")
        /\ torrent' = [torrent EXCEPT ![c] = "error"]
        /\ UNCHANGED staging
  /\ UNCHANGED <<tables, place, rollback, worker, control>>

Shutdown ==
  /\ Fault("shutdown") /\ ~stopping
  /\ stopping' = TRUE
  /\ UNCHANGED <<tables, torrent, disk, worker, task, recovery, deleting, taken>>

(* The process stops and starts again: only the tables, the torrents and   *)
(* the files remain.  A shutdown waits for the recovery, not for a task.   *)
Restart ==
  /\ \/ Fault("crash")
     \/ /\ stopping /\ UNCHANGED faults
        /\ \A c \in Candidates : worker[c].by # "recovery"
  /\ worker' = [c \in Candidates |-> Free]
  /\ task' = NoTask
  /\ recovery' = [listed |-> FALSE, left |-> {}]
  /\ stopping' = FALSE
  /\ deleting' = [d \in Downloads |-> "no"]
  /\ UNCHANGED <<tables, torrent, disk, taken>>

Requests ==
  \/ \E c \in Candidates : PrepareReplace(c) \/ PrepareRetryCleanup(c) \/ KeepCandidate(c)
  \/ CancelTask
  \/ \E d \in Deletable : DeleteDownload(d)
  \/ \E status \in {"missing", "ignored", "marked_downloaded"} : SetUserStatus(status)

Begins(c) == ContinueReplace(c) \/ ContinueRetryCleanup(c) \/ Recover(c)

Works(c) == Begins(c) \/ DownloadsToStage(c) \/ ExchangesFiles(c) \/ CleansUp(c)

Next ==
  \/ Requests
  \/ \E c \in Candidates : Works(c) \/ TorrentRuns(c)
  \/ TaskGivesUp
  \/ ListIncompleteReplacements
  \/ Shutdown
  \/ Restart

Spec == Init /\ [][Next]_replacementVars

(* The goroutine of a task and the recovery keep running, and a torrent    *)
(* that is not disturbed ends its download.                                *)
FairSpec ==
  /\ Spec
  /\ WF_replacementVars(ListIncompleteReplacements)
  /\ \A c \in Candidates : WF_replacementVars(Works(c)) /\ WF_replacementVars(TorrentRuns(c))

-------------------------------------------------------------------------------
ReplacementTypeOK ==
  /\ faults \in [Kinds -> Nat]
  /\ episode.active \in Downloads \cup {None}
  /\ candidate \in [Candidates -> CandidateRow]
  /\ record \in [Downloads -> DownloadRow \cup {None}]
  /\ place \in Downloads \cup {None}
  /\ staging \in [Candidates -> SUBSET {"payload", "file"}]
  /\ rollback \in [Candidates -> Downloads \cup {None}]
  /\ task.of \in Candidates \cup {None}
  /\ deleting \in [Downloads -> {"no", "payload", "row"}]
  /\ taken \in SUBSET Downloads
  /\ recovery.left \in SUBSET Candidates

(* Between the file moves and the transactions of a replacement, and after *)
(* a crash or a failure there, a complete file of the resource the ledger  *)
(* names is at the final path or at the rollback path of a candidate.  The *)
(* exception is a resource whose file the user's deletion of a download    *)
(* took: the handler deletes the files of the torrent first and the row    *)
(* later, or not at all after a crash or a refused transaction, and the    *)
(* files of the old torrent are those at the final path, the new one's     *)
(* too.                                                                    *)
CurrentResourceExists ==
  episode.active # None =>
    \/ place = episode.active \/ \E c \in Candidates : rollback[c] = episode.active
    \/ episode.active \in taken

(* A replacement that failed has given everything back: no row and no      *)
(* torrent of its own, no old file in the rollback path, and the torrent   *)
(* of the old file runs again when no other replacement is under way.      *)
FailureRestoresOld ==
  \A c \in Candidates :
    candidate[c].status = "failed" =>
      /\ rollback[c] = None /\ torrent[c] = "none" /\ record[c] = None
      /\ (\A other \in Candidates : candidate[other].status \in {"pending", "kept_existing", "failed"})
           => torrent[Old] # "paused"

(* The directory cannot be made for an attempt that finds a torrent of one *)
(* before it, added but not recorded as its own: nobody deletes it.        *)
Orphaned ==
  \E c \in Candidates :
    /\ CheckpointDownload(c) /\ worker'[c].pc = "dl_failed"
    /\ torrent[c] # "none" /\ (record[c] # None => ~record[c].owned)

(* After the switch the replacement is never taken back, whatever fails.   *)
NeverRolledBack ==
  [][\A c \in Candidates :
       candidate[c].status \in {"accepted", "accepted_cleanup_failed"} =>
         candidate'[c].status \in {"accepted", "accepted_cleanup_failed"}]_replacementVars

(* A compensation of which a file move is done and not saved, and that     *)
(* will not be: the process stops, the save is refused, or the user        *)
(* deletes the old file just after it was moved back.  The recovery then   *)
(* goes on from a stage that the files have left.  The last disjunct: the  *)
(* new file was deleted, and the old one, moved back, is taken for it.     *)
Undoing == {"unbackup", "unresume", "compensated", "fail"}

Interrupted ==
  \E c \in Candidates :
    \/ /\ worker[c].pc \in Undoing /\ place # c
       /\ \/ candidate[c].stage = "promoted" /\ (Restart \/ FilesSaveRefused(c))
          \/ worker[c].stage = "promoted" /\ ~OldInPlace(c) /\ episode.active # None /\ RecordFailure(c)
    \/ PromotedBefore(c) /\ "file" \notin staging[c] /\ place # c

(* The replacement implements the exchange of resources: its steps never   *)
(* drop the file of the resource the ledger names, and the ledger comes to *)
(* name only a resource that was fetched; files are lost to the user's     *)
(* deletions alone, and of those the abstract specification keeps count.   *)
Copies ==
  {d \in Downloads : \/ place = d
                     \/ \E c \in Candidates : rollback[c] = d
                     \/ d \in Candidates /\ "file" \in staging[d]}

Swap == INSTANCE ResourceSwap WITH
  Resources <- Downloads, current <- episode.active, copies <- Copies, taken <- taken

ImplementsSwap == Swap!Spec

(* A recovery that starts when no fault is left to happen and no deletion  *)
(* is under way settles every candidate it finds, or ends with files the   *)
(* code leaves to the user: two compete for the final path, or the old one *)
(* is gone.                                                                *)
Settled == \A c \in Candidates :
  candidate[c].status \notin {"replacing", "accepted_cleanup_failed"}

LeftToUser ==
  /\ recovery.listed /\ recovery.left = {} /\ \A c \in Candidates : worker[c] = Free
  /\ \E c \in Candidates :
       /\ candidate[c].status = "replacing"
       /\ \/ place # None /\ "file" \in staging[c]
          \/ place = None /\ rollback[c] = None /\ candidate[c].old # None

Calm == ~stopping /\ faults = [k \in Kinds |-> 0] /\ deleting = [d \in Downloads |-> "no"]

RecoverySettles ==
  (~recovery.listed /\ task = NoTask /\ Calm) ~> (Settled \/ LeftToUser)

(* The design: without a tracked old file a replacement still downloads    *)
(* and switches.  The code waits forever before a file nobody tracks.      *)
ReplacementsEnd ==
  \A c \in Candidates :
    (candidate[c].status = "replacing") ~> (candidate[c].status # "replacing")
=============================================================================
