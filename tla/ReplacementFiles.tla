--------------------------- MODULE ReplacementFiles ---------------------------
(***************************************************************************)
(* The exchange of the files, the switch of the ledger, the compensation   *)
(* when either fails, and the cleanup after the switch.                    *)
(***************************************************************************)
EXTENDS ReplacementTables

Paused(c, state) ==
  torrent' = [torrent EXCEPT ![candidate[c].old] = IF @ = "none" THEN @ ELSE state]

(* Pause the old torrent, then look at the files.                          *)
PauseOld(c) ==
  /\ worker[c].pc = "staged"
  /\ ~Cancelled(c)
  /\ IF candidate[c].old = None
     THEN Goes(c, "promote") /\ UNCHANGED torrent
     ELSE /\ Paused(c, "paused")
          /\ \/ place # None /\ rollback[c] # None /\ Ends(c)
             \/ place = None /\ rollback[c] = None /\ Goes(c, "restore")
             \/ place # None /\ rollback[c] = None /\ Goes(c, "backup")
             \/ place = None /\ rollback[c] # None /\ Goes(c, "backup_save")
  /\ UNCHANGED <<tables, disk, faults>>

PauseFails(c) ==
  /\ worker[c].pc = "staged"
  /\ \/ Cancelled(c) /\ Ends(c) /\ UNCHANGED faults
     \/ ~Cancelled(c) /\ candidate[c].old # None /\ Fault("qb") /\ Goes(c, "fail")
  /\ UNCHANGED <<tables, torrent, disk>>

(* Mutated: the old file is removed at once.                               *)
BackUpByRemoving(c) ==
  /\ worker[c].pc = "backup"
  /\ place' = None
  /\ Goes(c, "backup_save")
  /\ UNCHANGED <<tables, torrent, staging, rollback, faults>>

BackUp(c) ==
  /\ worker[c].pc = "backup"
  /\ \/ /\ place # None
        /\ place' = None
        /\ rollback' = [rollback EXCEPT ![c] = place]
        /\ Goes(c, "backup_save")
        /\ UNCHANGED faults
     \/ /\ (place = None /\ UNCHANGED faults) \/ Fault("file")
        /\ Goes(c, "restore")
        /\ UNCHANGED <<place, rollback>>
  /\ UNCHANGED <<tables, torrent, staging>>

SaveBackUp(c) ==
  /\ worker[c].pc = "backup_save"
  /\ \/ /\ Stage(c, "old_backed_up")
        /\ Goes(c, "promote")
        /\ UNCHANGED <<place, rollback, faults>>
     \/ /\ Fault("refused")
        /\ MoveBack(c)
        /\ worker' = [worker EXCEPT ![c].pc = "restore", ![c].stage = "old_backed_up"]
        /\ UNCHANGED <<candidate, control>>
  /\ UNCHANGED <<episode, record, torrent, staging>>

Promote(c) ==
  /\ worker[c].pc = "promote"
  /\ ~Cancelled(c)
  /\ place = None /\ "file" \in staging[c]
  /\ place' = c
  /\ staging' = [staging EXCEPT ![c] = @ \ {"file"}]
  /\ Goes(c, "promote_save")
  /\ UNCHANGED <<tables, torrent, rollback, faults>>

(* A file at the final path and none in staging: it was promoted before.   *)
PromotedBefore(c) ==
  /\ worker[c].pc = "promote"
  /\ ~Cancelled(c)
  /\ place # None
  /\ IF "file" \in staging[c] THEN Ends(c) ELSE Goes(c, "promoted_save")
  /\ UNCHANGED <<tables, torrent, disk, faults>>

PromoteFails(c) ==
  /\ worker[c].pc = "promote"
  /\ \/ (Cancelled(c) \/ (place = None /\ "file" \notin staging[c])) /\ UNCHANGED faults
     \/ ~Cancelled(c) /\ place = None /\ Fault("file")
  /\ MoveBack(c)
  /\ Goes(c, "restore")
  /\ UNCHANGED <<tables, torrent, staging>>

SavePromoted(c) ==
  /\ worker[c].pc \in {"promote_save", "promoted_save"}
  /\ Stage(c, "promoted")
  /\ Goes(c, "switch")
  /\ UNCHANGED <<episode, record, torrent, disk, faults>>

MaySwitch(c) ==
  /\ candidate[c].status = "replacing" /\ candidate[c].stage = "promoted"
  /\ candidate[c].download /\ record[c] # None
  /\ episode.status \in {"downloaded", "marked_downloaded"}
  /\ episode.active = candidate[c].old

(* switchDatabase: download, ledger and candidate in one transaction.      *)
Switch(c) ==
  /\ worker[c].pc = "switch"
  /\ ~Cancelled(c)
  /\ MaySwitch(c)
  /\ record' = [record EXCEPT ![c] =
       [status |-> "completed", hash |-> record[c].hash, owned |-> FALSE, filed |-> TRUE]]
  /\ episode' = [status |-> "downloaded", active |-> c]
  /\ Save(c, [candidate[c] EXCEPT !.status = "accepted_cleanup_failed", !.stage = "switched"])
  /\ Goes(c, "cleanup")
  /\ UNCHANGED <<torrent, disk, faults>>

SwitchFails(c) ==
  /\ \/ /\ worker[c].pc = "switch"
        /\ (Cancelled(c) \/ ~MaySwitch(c)) /\ UNCHANGED faults
     \/ worker[c].pc \in {"switch", "promote_save"} /\ Fault("refused")
  /\ worker' = [worker EXCEPT ![c].pc = "unpromote", ![c].stage = "promoted"]
  /\ UNCHANGED <<tables, torrent, disk, control>>

(* compensateSwitchFailure: new file back to staging, old file back, old   *)
(* torrent resumed; each part only after the one before succeeded.         *)
Unpromote(c) ==
  /\ worker[c].pc = "unpromote"
  /\ LET movable == place # None /\ "file" \notin staging[c]
     IN \/ /\ movable
           /\ place' = None
           /\ staging' = [staging EXCEPT ![c] = @ \cup {"file"}]
           /\ worker' = [worker EXCEPT ![c].pc = "unbackup", ![c].new = TRUE]
           /\ UNCHANGED faults
        \/ /\ IF movable THEN Fault("file") ELSE UNCHANGED faults
           /\ worker' = [worker EXCEPT ![c].pc = "unbackup", ![c].new = (place = None),
                                       ![c].clean = ~movable]
           /\ UNCHANGED <<place, staging>>
  /\ UNCHANGED <<tables, torrent, rollback, control>>

UnbackUp(c) ==
  /\ worker[c].pc = "unbackup"
  /\ LET movable == worker[c].new /\ rollback[c] # None /\ place = None
     IN \/ /\ movable
           /\ MoveBack(c)
           /\ worker' = [worker EXCEPT ![c].pc = "unresume", ![c].restored = TRUE]
           /\ UNCHANGED faults
        \/ /\ IF movable THEN Fault("file") ELSE UNCHANGED faults
           /\ worker' = [worker EXCEPT ![c].pc = "unresume",
                ![c].restored = candidate[c].old = None \/ (worker[c].new /\ place # None),
                ![c].clean = @ /\ ~movable]
           /\ UNCHANGED <<place, rollback>>
  /\ UNCHANGED <<tables, torrent, staging, control>>

(* failAndResume: the old file back, if it is not there.                   *)
Restore(c) ==
  /\ worker[c].pc = "restore"
  /\ LET there == candidate[c].old = None \/ place # None
         movable == ~there /\ rollback[c] # None
     IN \/ /\ movable
           /\ MoveBack(c)
           /\ worker' = [worker EXCEPT ![c].pc = "resume", ![c].restored = TRUE]
           /\ UNCHANGED faults
        \/ /\ IF movable THEN Fault("file") ELSE UNCHANGED faults
           /\ worker' = [worker EXCEPT ![c].pc = "resume", ![c].restored = there,
                                       ![c].clean = there]
           /\ UNCHANGED <<place, rollback>>
  /\ UNCHANGED <<tables, torrent, staging, control>>

ResumeOld(c) ==
  /\ worker[c].pc \in {"resume", "unresume"}
  /\ LET due == worker[c].new /\ worker[c].restored /\ candidate[c].old # None
     IN \/ /\ IF due THEN Paused(c, "seeding") ELSE UNCHANGED torrent
           /\ worker' = [worker EXCEPT ![c].pc =
                IF worker[c].clean /\ worker[c].new /\ worker[c].restored
                THEN "fail" ELSE "compensated"]
           /\ UNCHANGED faults
        \/ /\ due /\ Fault("qb")
           /\ worker' = [worker EXCEPT ![c].pc = "compensated"]
           /\ UNCHANGED torrent
  /\ UNCHANGED <<tables, disk, control>>

(* The stage from which the next recovery goes on.                         *)
SaveCompensation(c) ==
  /\ worker[c].pc = "compensated"
  /\ Save(c, [candidate[c] EXCEPT !.status = "replacing", !.stage =
       IF ~worker[c].new THEN "promoted"
       ELSE IF ~worker[c].restored THEN "old_backed_up" ELSE "staged"])
  /\ Ends(c)
  /\ UNCHANGED <<episode, record, torrent, disk, faults>>

(* Mutated: the rollback path is not looked at.                            *)
OldAssumedInPlace(c) == TRUE

OldInPlace(c) == candidate[c].old # None => place # None /\ rollback[c] = None

(* recordFailure: only with the old file in place.                         *)
RecordFailure(c) ==
  /\ worker[c].pc = "fail"
  /\ IF OldInPlace(c)
     THEN /\ Save(c, [candidate[c] EXCEPT !.status = "replacing", !.stage = "terminal_cleanup"])
          /\ Goes(c, "terminal")
     ELSE /\ Save(c, [candidate[c] EXCEPT !.status = "replacing",
                        !.stage = IF worker[c].stage = "" THEN @ ELSE worker[c].stage])
          /\ Ends(c)
  /\ UNCHANGED <<episode, record, torrent, disk, faults>>

(* cleanupTerminalFailure: the torrent of the candidate, if it is owned.   *)
RemoveOwnTorrent(c) ==
  /\ worker[c].pc = "terminal"
  /\ IF OldInPlace(c)
     THEN /\ IF candidate[c].download /\ record[c] # None /\ record[c].owned
             THEN /\ torrent' = [torrent EXCEPT ![c] = "none"]
                  /\ \/ /\ record' = [record EXCEPT ![c].owned = FALSE]
                        /\ Goes(c, "terminal_file") /\ UNCHANGED faults
                     \/ UNCHANGED record /\ Fault("refused") /\ Ends(c)
             ELSE Goes(c, "terminal_file") /\ UNCHANGED <<torrent, record, faults>>
     ELSE Ends(c) /\ UNCHANGED <<torrent, record, faults>>
  /\ UNCHANGED <<episode, candidate, disk>>

RemoveStaged(c) ==
  /\ worker[c].pc = "terminal_file"
  /\ IF candidate[c].filed
     THEN staging' = [staging EXCEPT ![c] = @ \ {"file"}]
     ELSE UNCHANGED staging
  /\ Goes(c, "terminal_row")
  /\ UNCHANGED <<tables, torrent, place, rollback, faults>>

DiscardDownload(c) ==
  /\ worker[c].pc = "terminal_row"
  /\ record' = [record EXCEPT ![c] = None]
  /\ Save(c, [candidate[c] EXCEPT !.download = FALSE])
  /\ Goes(c, "terminal_done")
  /\ UNCHANGED <<episode, torrent, disk, faults>>

Failed(c) ==
  /\ worker[c].pc = "terminal_done"
  /\ Save(c, [status |-> "failed", stage |-> "", old |-> None, download |-> FALSE, filed |-> FALSE])
  /\ Ends(c)
  /\ UNCHANGED <<episode, record, torrent, disk, faults>>

TerminalFails(c) ==
  /\ \/ /\ worker[c].pc = "terminal"
        /\ candidate[c].download /\ record[c] # None /\ record[c].owned /\ Fault("qb")
     \/ worker[c].pc = "terminal_file" /\ candidate[c].filed /\ Fault("file")
  /\ Ends(c)
  /\ UNCHANGED <<tables, torrent, disk>>

FilesSaveRefused(c) ==
  /\ worker[c].pc \in {"promoted_save", "compensated", "fail", "terminal_row", "terminal_done"}
  /\ Refused(c)

ExchangesFiles(c) ==
  \/ PauseOld(c) \/ PauseFails(c) \/ BackUp(c) \/ SaveBackUp(c)
  \/ Promote(c) \/ PromotedBefore(c) \/ PromoteFails(c) \/ SavePromoted(c)
  \/ Switch(c) \/ SwitchFails(c) \/ Unpromote(c) \/ UnbackUp(c)
  \/ Restore(c) \/ ResumeOld(c) \/ SaveCompensation(c)
  \/ RecordFailure(c) \/ RemoveOwnTorrent(c) \/ RemoveStaged(c)
  \/ DiscardDownload(c) \/ Failed(c) \/ TerminalFails(c) \/ FilesSaveRefused(c)
=============================================================================
