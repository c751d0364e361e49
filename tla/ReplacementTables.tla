-------------------------- MODULE ReplacementTables --------------------------
(***************************************************************************)
(* The state of the replacement of an episode's resource: the ledger row,  *)
(* its candidates, the download rows and torrents, the files, and who      *)
(* works on which candidate.  All paths of a candidate are derived from    *)
(* the path of the episode's file: the file itself (place), its staging    *)
(* directory and its rollback path.                                        *)
(***************************************************************************)
EXTENDS Naturals, FiniteSets

CONSTANTS Candidates,  \* resources the user may choose
          Old,         \* the download that was completed first
          None,        \* NULL, or no file
          Deletable,   \* the downloads the user may delete
          Budgets      \* bound: how often each kind of fault may happen

Downloads == Candidates \cup {Old}

Kinds == {"crash", "refused", "qb", "file", "torrent", "cancel", "shutdown",
          "delete", "status"}

VARIABLES
  episode,    \* the row of subscription_episodes: status and active download
  candidate,  \* rows of episode_resource_candidates
  record,     \* rows of downloads, or None
  torrent,    \* the task of qBittorrent for a download
  place,      \* whose file is at the final path
  staging,    \* files in the staging directory of a candidate
  rollback,   \* whose file is at the rollback path of a candidate
  worker,     \* what the holder of the candidate's lock does next
  task,       \* the task of the task manager
  recovery,   \* the recovery at the start of the process
  stopping,   \* the context of the recovery is cancelled
  deleting,   \* what the user's deletion of a download does next
  taken,      \* resources whose file a deletion removed from the final path
  faults      \* how often each kind of fault may still happen

tables == <<episode, candidate, record>>
disk == <<place, staging, rollback>>
control == <<task, recovery, stopping, deleting, taken>>
replacementVars == <<tables, torrent, disk, worker, control, faults>>

Statuses == {"pending", "kept_existing", "replacing", "accepted",
             "accepted_cleanup_failed", "failed"}
Stages == {"", "queued", "downloading", "download_cleanup", "terminal_cleanup",
           "detaching", "staged", "old_backed_up", "promoted", "switched",
           "cleanup_queued", "cleanup_active", "cleaning", "done"}

(* old stands for old_download_id, old_torrent_hash, old_resource_path and *)
(* rollback_path, which are set and cleared together; filed: staged_path.  *)
CandidateRow == [status : Statuses, stage : Stages, old : Downloads \cup {None},
                 download : BOOLEAN, filed : BOOLEAN]

DownloadRow == [status : {"downloading", "completed", "failed"}, hash : BOOLEAN,
                owned : BOOLEAN, filed : BOOLEAN]

ASSUME ReplacementConstants ==
  /\ None \notin Downloads /\ None \notin DownloadRow
  /\ Old \notin Candidates
  /\ Deletable \subseteq Downloads
  /\ Budgets \subseteq [Kinds -> Nat]

Busy(pc, by) ==
  [pc |-> pc, by |-> by, stage |-> "", new |-> TRUE, restored |-> TRUE, clean |-> TRUE]
Free == Busy("free", "nobody")
NoTask == [kind |-> "none", of |-> None, cancelled |-> FALSE]

(* The lock of the candidate is released; the task or the turn of the      *)
(* recovery is over, with an error or without.                             *)
Ends(c) ==
  /\ worker' = [worker EXCEPT ![c] = Free]
  /\ task' = IF worker[c].by = "task" THEN NoTask ELSE task
  /\ recovery' = IF worker[c].by = "recovery"
                 THEN [recovery EXCEPT !.left = @ \ {c}] ELSE recovery
  /\ UNCHANGED <<stopping, deleting, taken>>

Goes(c, pc) ==
  /\ worker' = [worker EXCEPT ![c].pc = pc]
  /\ UNCHANGED control

(* The whole row is saved; only the holder of the lock writes it.          *)
Save(c, row) == candidate' = [candidate EXCEPT ![c] = row]
Stage(c, stage) == Save(c, [candidate[c] EXCEPT !.stage = stage])

Fault(kind) ==
  /\ faults[kind] > 0
  /\ faults' = [faults EXCEPT ![kind] = @ - 1]

Cancelled(c) == IF worker[c].by = "task" THEN task.cancelled ELSE stopping

(* A refused save: the step returns its error and changes nothing.         *)
Refused(c) ==
  /\ Fault("refused")
  /\ Ends(c)
  /\ UNCHANGED <<tables, torrent, disk>>

(* osFilePromoter.Move refuses a destination that exists.                  *)
MoveBack(c) ==
  IF rollback[c] # None /\ place = None
  THEN place' = rollback[c] /\ rollback' = [rollback EXCEPT ![c] = None]
  ELSE UNCHANGED <<place, rollback>>
=============================================================================
