------------------------- MODULE ReplacementDownload -------------------------
(***************************************************************************)
(* Getting the new file: DownloadToStage and what advance does with its    *)
(* errors.  Every checkpoint is a transaction, and the process may stop    *)
(* before and after each of them.                                          *)
(***************************************************************************)
EXTENDS ReplacementTables

Record(c, status, hash, owned, filed) ==
  record' = [record EXCEPT ![c] =
    [status |-> status, hash |-> hash, owned |-> owned, filed |-> filed]]

(* loadResources and the first save of advance.                            *)
StartDownload(c) ==
  LET old == IF candidate[c].old # None THEN candidate[c].old ELSE episode.active
      known == old # None /\ record[old] # None
  IN /\ worker[c].pc = "start"
     /\ ~Cancelled(c)
     /\ Save(c, [candidate[c] EXCEPT !.stage = "downloading",
                                     !.old = IF known THEN old ELSE @])
     /\ Goes(c, "checkpoint")
     /\ UNCHANGED <<episode, record, torrent, disk, faults>>

(* A claim that was not begun is given back, later stages are kept.        *)
StartCancelled(c) ==
  /\ worker[c].pc = "start"
  /\ Cancelled(c)
  /\ IF candidate[c].stage = "queued" /\ candidate[c].status = "replacing"
     THEN Save(c, [candidate[c] EXCEPT !.status = "failed", !.stage = ""])
     ELSE UNCHANGED candidate
  /\ Ends(c)
  /\ UNCHANGED <<episode, record, torrent, disk, faults>>

CheckpointHolds(c) ==
  /\ candidate[c].status = "replacing" /\ candidate[c].stage = "downloading"
  /\ candidate[c].download = (record[c] # None)

(* The staging directory is made right after the transaction; when that    *)
(* fails the download has failed.                                          *)
CheckpointDownload(c) ==
  /\ worker[c].pc = "checkpoint"
  /\ CheckpointHolds(c)
  /\ IF candidate[c].download
     THEN UNCHANGED <<candidate, record>>
     ELSE /\ Record(c, "downloading", FALSE, FALSE, FALSE)
          /\ Save(c, [candidate[c] EXCEPT !.download = TRUE])
  /\ \/ /\ Goes(c, IF candidate[c].download /\ record[c].hash THEN "wait" ELSE "hand_over")
        /\ UNCHANGED faults
     \/ Fault("file") /\ Goes(c, "dl_failed")
  /\ UNCHANGED <<episode, torrent, disk>>

(* The download of the checkpoint is gone, or the candidate was not claimed. *)
CheckpointFails(c) ==
  /\ worker[c].pc = "checkpoint"
  /\ ~CheckpointHolds(c)
  /\ IF candidate[c].download
     THEN Goes(c, "fail")
     ELSE Ends(c)
  /\ UNCHANGED <<tables, torrent, disk, faults>>

(* A torrent of the candidate's category is adopted, else one is added.    *)
AddTorrentExclusive(state) == IF state = "none" THEN "downloading" ELSE state

HandOver(c) ==
  /\ worker[c].pc = "hand_over"
  /\ torrent' = [torrent EXCEPT ![c] = AddTorrentExclusive(@)]
  /\ Goes(c, "own")
  /\ UNCHANGED <<tables, disk, faults>>

(* That the torrent is the candidate's own is saved with its hash; a       *)
(* refused save is ErrReplacementOwnershipUnknown.                         *)
SaveOwnership(c) ==
  /\ worker[c].pc = "own"
  /\ \/ /\ Record(c, "downloading", TRUE, TRUE, FALSE)
        /\ Goes(c, "wait")
        /\ UNCHANGED faults
     \/ /\ Fault("refused")
        /\ Ends(c)
        /\ UNCHANGED record
  /\ UNCHANGED <<episode, candidate, torrent, disk>>

HandOverFails(c) ==
  /\ worker[c].pc = "hand_over"
  /\ Fault("qb")
  /\ \/ torrent[c] = "none" /\ Goes(c, "dl_failed")
     \/ Ends(c)                   \* the category could not be queried
  /\ UNCHANGED <<tables, torrent, disk>>

(* The file was renamed before the process stopped.                        *)
Recovered(c) == record[c] # None /\ record[c].filed /\ "file" \in staging[c]

WaitForCompletion(c) ==
  /\ worker[c].pc = "wait"
  /\ Recovered(c) \/ torrent[c] = "complete"
  /\ Goes(c, IF Recovered(c) THEN "recovered_point" ELSE "file_paths")
  /\ UNCHANGED <<tables, torrent, disk, faults>>

WaitFails(c) ==
  /\ worker[c].pc = "wait"
  /\ ~Recovered(c)
  /\ \/ (torrent[c] \in {"none", "error"} \/ Cancelled(c)) /\ UNCHANGED faults
     \/ Fault("qb")
  /\ Record(c, "failed", TRUE, TRUE, record[c] # None /\ record[c].filed)
  /\ Goes(c, "dl_failed")
  /\ UNCHANGED <<episode, candidate, torrent, disk>>

SaveFilePaths(c) ==
  /\ worker[c].pc = "file_paths"
  /\ "payload" \in staging[c]
  /\ Record(c, "downloading", TRUE, TRUE, TRUE)
  /\ Goes(c, "rename")
  /\ UNCHANGED <<episode, candidate, torrent, disk, faults>>

RenameStaged(c) ==
  /\ worker[c].pc = "rename"
  /\ "payload" \in staging[c] /\ "file" \notin staging[c]
  /\ staging' = [staging EXCEPT ![c] = (@ \ {"payload"}) \cup {"file"}]
  /\ Goes(c, "detach_point")
  /\ UNCHANGED <<tables, torrent, place, rollback, faults>>

(* No file in the staging directory, or one in the way, or a failed call.  *)
StagingFails(c) ==
  /\ \/ /\ worker[c].pc = "file_paths"
        /\ "payload" \notin staging[c] /\ UNCHANGED faults
     \/ /\ worker[c].pc = "rename"
        /\ staging[c] # {"payload"} /\ UNCHANGED faults
     \/ worker[c].pc \in {"file_paths", "detach_point", "recovered_point"} /\ Fault("refused")
     \/ worker[c].pc = "rename" /\ Fault("file")
  /\ Goes(c, "dl_failed")
  /\ UNCHANGED <<tables, torrent, disk>>

(* From here on the staged file belongs to the candidate.                  *)
DetachCheckpoint(c) ==
  /\ worker[c].pc \in {"detach_point", "recovered_point"}
  /\ Save(c, [candidate[c] EXCEPT !.stage = "detaching", !.filed = TRUE, !.download = TRUE])
  /\ Goes(c, IF worker[c].pc = "detach_point" THEN "detach" ELSE "recovered_detach")
  /\ UNCHANGED <<episode, record, torrent, disk, faults>>

(* Only the task is removed, the staged file stays.                        *)
Detach(c) ==
  /\ worker[c].pc \in {"detach", "recovered_detach", "redetach"}
  /\ worker[c].pc = "redetach" => ~Cancelled(c) /\ record[c] # None
  /\ torrent' = [torrent EXCEPT ![c] = "none"]
  /\ Goes(c, IF worker[c].pc = "detach" THEN "mark_staged" ELSE "mark_completed")
  /\ UNCHANGED <<tables, disk, faults>>

DetachFails(c) ==
  /\ worker[c].pc \in {"detach", "recovered_detach", "redetach"}
  /\ \/ Fault("qb")
     \/ /\ worker[c].pc = "redetach" /\ (Cancelled(c) \/ record[c] = None)
        /\ UNCHANGED faults
  /\ Ends(c)
  /\ UNCHANGED <<tables, torrent, disk>>

MarkStaged(c) ==
  /\ worker[c].pc = "mark_staged"
  /\ Stage(c, "staged")
  /\ Goes(c, "mark_completed")
  /\ UNCHANGED <<episode, record, torrent, disk, faults>>

(* Mutated: a status that the table does not have.                         *)
MarkComplete(c) ==
  /\ worker[c].pc = "mark_completed"
  /\ Record(c, "complete", TRUE, FALSE, TRUE)
  /\ Goes(c, "to_staged")
  /\ UNCHANGED <<episode, candidate, torrent, disk, faults>>

MarkCompleted(c) ==
  /\ worker[c].pc = "mark_completed"
  /\ Record(c, "completed", TRUE, FALSE, TRUE)
  /\ Goes(c, "to_staged")
  /\ UNCHANGED <<episode, candidate, torrent, disk, faults>>

(* advance saves the staged file and goes on with the files.               *)
ToStaged(c) ==
  /\ worker[c].pc = "to_staged"
  /\ Stage(c, "staged")
  /\ Goes(c, "staged")
  /\ UNCHANGED <<episode, record, torrent, disk, faults>>

(* CleanupFailedDownload: only a torrent of the candidate is deleted, with *)
(* what qBittorrent knows of its files.                                    *)
DeletePayload(c) ==
  /\ worker[c].pc \in {"dl_failed", "cleanup_payload"}
  /\ record[c] # None
  /\ IF record[c].owned
     THEN /\ torrent' = [torrent EXCEPT ![c] = "none"]
          /\ staging' = [staging EXCEPT ![c] = IF torrent[c] = "none" THEN @ ELSE @ \ {"payload"}]
          /\ Goes(c, "disown")
     ELSE Goes(c, "discard") /\ UNCHANGED <<torrent, staging>>
  /\ UNCHANGED <<tables, place, rollback, faults>>

Disown(c) ==
  /\ worker[c].pc = "disown"
  /\ Record(c, "failed", TRUE, FALSE, record[c] # None /\ record[c].filed)
  /\ Goes(c, "discard")
  /\ UNCHANGED <<episode, candidate, torrent, disk, faults>>

(* What is left of the download is for the next recovery.                  *)
DeletePayloadFails(c) ==
  /\ \/ /\ worker[c].pc \in {"dl_failed", "cleanup_payload"}
        /\ \/ record[c] = None /\ UNCHANGED faults
           \/ record[c] # None /\ record[c].owned /\ Fault("qb")
     \/ worker[c].pc = "disown" /\ Fault("refused")
  /\ Save(c, [candidate[c] EXCEPT !.status = "replacing", !.stage = "download_cleanup"])
  /\ Ends(c)
  /\ UNCHANGED <<episode, record, torrent, disk>>

(* discardFailedReplacementDownload; its failure leaves everything to the  *)
(* next recovery.                                                          *)
Discard(c) ==
  /\ worker[c].pc = "discard"
  /\ record' = [record EXCEPT ![c] = None]
  /\ Save(c, [candidate[c] EXCEPT !.download = FALSE])
  /\ Goes(c, "fail")
  /\ UNCHANGED <<episode, torrent, disk, faults>>

DownloadSaveRefused(c) ==
  /\ worker[c].pc \in {"start", "checkpoint", "mark_staged", "mark_completed", "to_staged", "discard"}
  /\ Refused(c)

DownloadsToStage(c) ==
  \/ StartDownload(c) \/ StartCancelled(c)
  \/ CheckpointDownload(c) \/ CheckpointFails(c)
  \/ HandOver(c) \/ SaveOwnership(c) \/ HandOverFails(c)
  \/ WaitForCompletion(c) \/ WaitFails(c)
  \/ SaveFilePaths(c) \/ RenameStaged(c) \/ StagingFails(c)
  \/ DetachCheckpoint(c) \/ Detach(c) \/ DetachFails(c)
  \/ MarkStaged(c) \/ MarkCompleted(c) \/ ToStaged(c)
  \/ DeletePayload(c) \/ Disown(c) \/ DeletePayloadFails(c) \/ Discard(c)
  \/ DownloadSaveRefused(c)
=============================================================================
