-------------------------- MODULE ReplacementProofs --------------------------
(***************************************************************************)
(* What is proved of the replacement, for every set of candidates, every   *)
(* choice of what the user may delete and every budget of faults: the      *)
(* types, that an accepted replacement is never taken back, that the       *)
(* resource the ledger names is on disk as long as the user does not       *)
(* delete its file and no compensation is interrupted after it moved the   *)
(* new one, that a replacement is an exchange of resources, and that one   *)
(* that fails gives everything back.                                       *)
(***************************************************************************)
EXTENDS Replacement, TLAPS

USE ReplacementConstants

DownloadPcs == {"start", "checkpoint", "hand_over", "own", "wait", "recovered_point", "file_paths", "rename",
  "detach_point", "detach", "recovered_detach", "redetach", "mark_staged", "mark_completed", "to_staged",
  "dl_failed", "cleanup_payload", "disown", "discard"}
TerminalPcs == {"terminal", "terminal_file", "terminal_row", "terminal_done"}
FilePcs == {"staged", "backup", "backup_save", "promote", "promote_save", "promoted_save", "switch",
  "unpromote", "unbackup", "unresume", "restore", "resume", "compensated", "fail"} \cup TerminalPcs
CleanupPcs == {"cleanup", "claimed", "remove_torrent", "remove_rollback", "remove_record", "cleaned"}
Pcs == {"free"} \cup DownloadPcs \cup FilePcs \cup CleanupPcs

Worker == [pc : Pcs, by : {"nobody", "task", "recovery"}, stage : {"", "old_backed_up", "promoted"},
           new : BOOLEAN, restored : BOOLEAN, clean : BOOLEAN]

DataTyped ==
  /\ episode \in [status : {"missing", "ignored", "marked_downloaded", "downloaded"},
                  active : Downloads \cup {None}]
  /\ record \in [Downloads -> DownloadRow \cup {None}]
  /\ torrent \in [Downloads -> {"none", "downloading", "complete", "error", "paused", "seeding"}]
  /\ place \in Downloads \cup {None}
  /\ staging \in [Candidates -> SUBSET {"payload", "file"}]
  /\ rollback \in [Candidates -> Downloads \cup {None}]

Recoveries == [listed : BOOLEAN, left : SUBSET Candidates]

ControlTyped ==
  /\ task \in [kind : {"none", "replace", "cleanup"}, of : Candidates \cup {None}, cancelled : BOOLEAN]
  /\ task # NoTask => task.of \in Candidates
  /\ recovery \in Recoveries
  /\ stopping \in BOOLEAN
  /\ faults \in [Kinds -> Nat]
  /\ deleting \in [Downloads -> {"no", "payload", "row"}]
  /\ taken \in SUBSET Downloads

Types ==
  /\ DataTyped /\ ControlTyped
  /\ candidate \in [Candidates -> CandidateRow]
  /\ worker \in [Candidates -> Worker]

Accepted(c) == candidate[c].status \in {"accepted", "accepted_cleanup_failed"}
Replacing(c) == candidate[c].status = "replacing"

-----------------------------------------------------------------------------
(* The rows and the work of a candidate fit each other.                    *)

(* The stages a row of this status may have, and what belongs to them.     *)
RowFits(status, stage, old, download) ==
  /\ status = "replacing" => stage \in {"queued", "downloading", "download_cleanup", "terminal_cleanup",
                                        "detaching", "staged", "old_backed_up", "promoted"}
  /\ status = "accepted_cleanup_failed" => stage \in {"switched", "cleanup_queued", "cleanup_active", "cleaning"}
  /\ status = "accepted" => stage = "done"
  /\ status \in {"pending", "kept_existing", "failed"} => stage \in {"", "downloading"} /\ ~download
  /\ status = "replacing" /\ stage = "queued" => ~download /\ old = None

(* Where the holder of the lock may stand with such a row.                 *)
PcFits(status, stage, old, pc) ==
  /\ pc \in {"start", "checkpoint"} => status \notin {"accepted", "accepted_cleanup_failed"}
  /\ pc \in (DownloadPcs \cup FilePcs) \ {"start", "checkpoint"} => status = "replacing"
  /\ pc \in CleanupPcs => status = "accepted_cleanup_failed"
  /\ pc = "start" => stage \in {"", "queued", "downloading"}
  /\ pc \in {"checkpoint", "hand_over", "own", "wait", "recovered_point", "file_paths", "rename",
             "detach_point", "dl_failed"} => stage = "downloading"
  /\ pc \in {"detach", "recovered_detach", "redetach", "mark_staged"} => stage = "detaching"
  /\ pc \in {"mark_completed", "to_staged"} => stage \in {"detaching", "staged"}
  /\ pc = "cleanup_payload" => stage = "download_cleanup"
  /\ pc \in {"disown", "discard"} => stage \in {"downloading", "download_cleanup"}
  /\ pc \in {"staged", "backup", "backup_save"} => stage = "staged"
  /\ pc \in {"backup", "backup_save"} => old # None
  /\ pc \in {"promote", "promote_save", "promoted_save", "restore", "resume"} =>
       stage \in {"staged", "old_backed_up"}
  /\ pc = "switch" => stage = "promoted"
  /\ pc \in {"unpromote", "unbackup", "unresume", "compensated"} =>
       stage \in {"staged", "old_backed_up", "promoted"}
  /\ pc = "fail" => stage \in {"downloading", "download_cleanup", "staged", "old_backed_up", "promoted"}
  /\ pc \in TerminalPcs => stage = "terminal_cleanup"

(* The stage a failure is to be recorded with.                             *)
FailureFits(stage, pc, failed) ==
  /\ failed = "promoted" =>
       pc \in {"unpromote", "unbackup", "unresume", "compensated", "fail"} \cup TerminalPcs
  /\ failed = "old_backed_up" => pc \in {"restore", "resume", "compensated", "fail"} \cup TerminalPcs
  /\ pc \in {"unpromote", "unbackup", "unresume"} => failed = "promoted"
  /\ pc \in {"compensated", "fail"} /\ stage = "promoted" => failed = "promoted"
  /\ pc = "fail" /\ stage \in {"downloading", "download_cleanup"} => failed = ""

Fits(status, stage, old, download, pc, failed) ==
  /\ RowFits(status, stage, old, download)
  /\ PcFits(status, stage, old, pc)
  /\ FailureFits(stage, pc, failed)

RowInv(c) == Fits(candidate[c].status, candidate[c].stage, candidate[c].old, candidate[c].download,
                  worker[c].pc, worker[c].stage)

(* One candidate of the episode is replaced at a time (Claimable).         *)
OneReplacing == \A c, d \in Candidates : Replacing(c) /\ Replacing(d) => c = d

ClaimInv == Types /\ OneReplacing /\ \A c \in Candidates : RowInv(c)

-----------------------------------------------------------------------------
(* A step of the holder of the lock of c leaves this row, and this place   *)
(* in the work.                                                            *)
Saved(c, status, stage, old, download, filed) ==
  /\ candidate' \in [Candidates -> CandidateRow]
  /\ \A d \in Candidates \ {c} : candidate'[d] = candidate[d]
  /\ candidate'[c].status = status /\ candidate'[c].stage = stage
  /\ candidate'[c].old = old /\ candidate'[c].download = download /\ candidate'[c].filed = filed

Turned(c, pc, failed, new, restored) ==
  /\ worker' \in [Candidates -> Worker]
  /\ \A d \in Candidates \ {c} : worker'[d] = worker[d]
  /\ worker'[c].pc = pc /\ worker'[c].stage = failed
  /\ worker'[c].new = new /\ worker'[c].restored = restored

LEMMA RowFields ==
  ASSUME NEW r \in CandidateRow
  PROVE  /\ r.status \in Statuses /\ r.stage \in Stages /\ r.old \in Downloads \cup {None}
         /\ r.download \in BOOLEAN /\ r.filed \in BOOLEAN
BY DEF CandidateRow

LEMMA WorkerFields ==
  ASSUME NEW w \in Worker
  PROVE  /\ w.pc \in Pcs /\ w.by \in {"nobody", "task", "recovery"}
         /\ w.stage \in {"", "old_backed_up", "promoted"}
         /\ w.new \in BOOLEAN /\ w.restored \in BOOLEAN /\ w.clean \in BOOLEAN
BY DEF Worker

LEMMA Unsaved ==
  ASSUME Types, NEW c \in Candidates, UNCHANGED candidate
  PROVE  Saved(c, candidate[c].status, candidate[c].stage, candidate[c].old, candidate[c].download,
               candidate[c].filed)
BY DEF Types, Saved

LEMMA Unturned ==
  ASSUME Types, NEW c \in Candidates, UNCHANGED worker
  PROVE  Turned(c, worker[c].pc, worker[c].stage, worker[c].new, worker[c].restored)
BY DEF Types, Turned

LEMMA SaveRow ==
  ASSUME Types, NEW c \in Candidates, NEW row \in CandidateRow, Save(c, row)
  PROVE  Saved(c, row.status, row.stage, row.old, row.download, row.filed)
BY DEF Types, Save, Saved

LEMMA StageRow ==
  ASSUME Types, NEW c \in Candidates, NEW stage \in Stages, Stage(c, stage)
  PROVE  Saved(c, candidate[c].status, stage, candidate[c].old, candidate[c].download, candidate[c].filed)
<1> DEFINE row == [candidate[c] EXCEPT !.stage = stage]
<1>1. candidate[c] \in CandidateRow
  BY DEF Types
<1>2. row \in CandidateRow
  BY <1>1 DEF CandidateRow
<1>3. row.status = candidate[c].status /\ row.stage = stage /\ row.old = candidate[c].old
      /\ row.download = candidate[c].download /\ row.filed = candidate[c].filed
  BY <1>1 DEF CandidateRow
<1>4. Save(c, row)
  BY DEF Stage
<1> HIDE DEF row
<1> QED
  BY <1>2, <1>3, <1>4, SaveRow

LEMMA DownloadSaved ==
  ASSUME Types, NEW c \in Candidates, NEW download \in BOOLEAN,
         Save(c, [candidate[c] EXCEPT !.download = download])
  PROVE  Saved(c, candidate[c].status, candidate[c].stage, candidate[c].old, download, candidate[c].filed)
<1> DEFINE row == [candidate[c] EXCEPT !.download = download]
<1>1. candidate[c] \in CandidateRow
  BY DEF Types
<1>2. row \in CandidateRow
  BY <1>1 DEF CandidateRow
<1>3. row.status = candidate[c].status /\ row.stage = candidate[c].stage /\ row.old = candidate[c].old
      /\ row.download = download /\ row.filed = candidate[c].filed
  BY <1>1 DEF CandidateRow
<1>4. Save(c, row)
  OBVIOUS
<1> HIDE DEF row
<1> QED
  BY <1>2, <1>3, <1>4, SaveRow

LEMMA StatusSaved ==
  ASSUME Types, NEW c \in Candidates, NEW status \in Statuses, NEW stage \in Stages,
         Save(c, [candidate[c] EXCEPT !.status = status, !.stage = stage])
  PROVE  Saved(c, status, stage, candidate[c].old, candidate[c].download, candidate[c].filed)
<1> DEFINE row == [candidate[c] EXCEPT !.status = status, !.stage = stage]
<1>1. candidate[c] \in CandidateRow
  BY DEF Types
<1>2. row \in CandidateRow
  BY <1>1 DEF CandidateRow
<1>3. row.status = status /\ row.stage = stage /\ row.old = candidate[c].old
      /\ row.download = candidate[c].download /\ row.filed = candidate[c].filed
  BY <1>1 DEF CandidateRow
<1>4. Save(c, row)
  OBVIOUS
<1> HIDE DEF row
<1> QED
  BY <1>2, <1>3, <1>4, SaveRow

LEMMA OldSaved ==
  ASSUME Types, NEW c \in Candidates, NEW stage \in Stages, NEW old \in Downloads \cup {None},
         Save(c, [candidate[c] EXCEPT !.stage = stage, !.old = old])
  PROVE  Saved(c, candidate[c].status, stage, old, candidate[c].download, candidate[c].filed)
<1> DEFINE row == [candidate[c] EXCEPT !.stage = stage, !.old = old]
<1>1. candidate[c] \in CandidateRow
  BY DEF Types
<1>2. row \in CandidateRow
  BY <1>1 DEF CandidateRow
<1>3. row.status = candidate[c].status /\ row.stage = stage /\ row.old = old
      /\ row.download = candidate[c].download /\ row.filed = candidate[c].filed
  BY <1>1 DEF CandidateRow
<1>4. Save(c, row)
  OBVIOUS
<1> HIDE DEF row
<1> QED
  BY <1>2, <1>3, <1>4, SaveRow

LEMMA StagedSaved ==
  ASSUME Types, NEW c \in Candidates, NEW stage \in Stages,
         Save(c, [candidate[c] EXCEPT !.stage = stage, !.filed = TRUE, !.download = TRUE])
  PROVE  Saved(c, candidate[c].status, stage, candidate[c].old, TRUE, TRUE)
<1> DEFINE row == [candidate[c] EXCEPT !.stage = stage, !.filed = TRUE, !.download = TRUE]
<1>1. candidate[c] \in CandidateRow
  BY DEF Types
<1>2. row \in CandidateRow
  BY <1>1 DEF CandidateRow
<1>3. row.status = candidate[c].status /\ row.stage = stage /\ row.old = candidate[c].old
      /\ row.download = TRUE /\ row.filed = TRUE
  BY <1>1 DEF CandidateRow
<1>4. Save(c, row)
  OBVIOUS
<1> HIDE DEF row
<1> QED
  BY <1>2, <1>3, <1>4, SaveRow

LEMMA WorkerAt ==
  ASSUME NEW w \in Worker, NEW pc \in Pcs
  PROVE  /\ [w EXCEPT !.pc = pc] \in Worker
         /\ [w EXCEPT !.pc = pc].pc = pc /\ [w EXCEPT !.pc = pc].stage = w.stage
         /\ [w EXCEPT !.pc = pc].new = w.new /\ [w EXCEPT !.pc = pc].restored = w.restored
BY DEF Worker

LEMMA FailedTurned ==
  ASSUME Types, NEW c \in Candidates, NEW pc \in Pcs, NEW failed \in {"", "old_backed_up", "promoted"},
         worker' = [worker EXCEPT ![c].pc = pc, ![c].stage = failed]
  PROVE  Turned(c, pc, failed, worker[c].new, worker[c].restored)
<1> DEFINE w == [worker[c] EXCEPT !.pc = pc, !.stage = failed]
<1>1. worker[c] \in Worker
  BY DEF Types
<1>2. w \in Worker /\ w.pc = pc /\ w.stage = failed /\ w.new = worker[c].new /\ w.restored = worker[c].restored
  BY <1>1 DEF Worker
<1>3. worker' = [worker EXCEPT ![c] = w]
  BY DEF Types
<1> HIDE DEF w
<1> QED
  BY <1>2, <1>3 DEF Turned, Types

LEMMA NewTurned ==
  ASSUME Types, NEW c \in Candidates, NEW pc \in Pcs, NEW new \in BOOLEAN,
         \/ worker' = [worker EXCEPT ![c].pc = pc, ![c].new = new]
         \/ \E clean \in BOOLEAN : worker' = [worker EXCEPT ![c].pc = pc, ![c].new = new, ![c].clean = clean]
  PROVE  Turned(c, pc, worker[c].stage, new, worker[c].restored)
<1>1. worker[c] \in Worker
  BY DEF Types
<1>2. PICK w \in Worker : /\ worker' = [worker EXCEPT ![c] = w]
                          /\ w.pc = pc /\ w.stage = worker[c].stage /\ w.new = new /\ w.restored = worker[c].restored
  <2>1. CASE worker' = [worker EXCEPT ![c].pc = pc, ![c].new = new]
    <3> DEFINE w == [worker[c] EXCEPT !.pc = pc, !.new = new]
    <3>1. w \in Worker /\ w.pc = pc /\ w.stage = worker[c].stage /\ w.new = new /\ w.restored = worker[c].restored
      BY <1>1 DEF Worker
    <3>2. worker' = [worker EXCEPT ![c] = w]
      BY <2>1 DEF Types
    <3> HIDE DEF w
    <3> QED
      BY <3>1, <3>2
  <2>2. ASSUME NEW clean \in BOOLEAN, worker' = [worker EXCEPT ![c].pc = pc, ![c].new = new, ![c].clean = clean]
        PROVE  \E w \in Worker : /\ worker' = [worker EXCEPT ![c] = w] /\ w.pc = pc
                 /\ w.stage = worker[c].stage /\ w.new = new /\ w.restored = worker[c].restored
    <3> DEFINE w == [worker[c] EXCEPT !.pc = pc, !.new = new, !.clean = clean]
    <3>1. w \in Worker /\ w.pc = pc /\ w.stage = worker[c].stage /\ w.new = new /\ w.restored = worker[c].restored
      BY <1>1 DEF Worker
    <3>2. worker' = [worker EXCEPT ![c] = w]
      BY <2>2 DEF Types
    <3> HIDE DEF w
    <3> QED
      BY <3>1, <3>2
  <2> QED
    BY <2>1, <2>2
<1> QED
  BY <1>2 DEF Turned, Types

LEMMA RestoredTurned ==
  ASSUME Types, NEW c \in Candidates, NEW pc \in Pcs, NEW restored \in BOOLEAN,
         \/ worker' = [worker EXCEPT ![c].pc = pc, ![c].restored = restored]
         \/ \E clean \in BOOLEAN :
              worker' = [worker EXCEPT ![c].pc = pc, ![c].restored = restored, ![c].clean = clean]
  PROVE  Turned(c, pc, worker[c].stage, worker[c].new, restored)
<1>1. worker[c] \in Worker
  BY DEF Types
<1>2. PICK w \in Worker : /\ worker' = [worker EXCEPT ![c] = w]
                          /\ w.pc = pc /\ w.stage = worker[c].stage /\ w.new = worker[c].new /\ w.restored = restored
  <2>1. CASE worker' = [worker EXCEPT ![c].pc = pc, ![c].restored = restored]
    <3> DEFINE w == [worker[c] EXCEPT !.pc = pc, !.restored = restored]
    <3>1. w \in Worker /\ w.pc = pc /\ w.stage = worker[c].stage /\ w.new = worker[c].new /\ w.restored = restored
      BY <1>1 DEF Worker
    <3>2. worker' = [worker EXCEPT ![c] = w]
      BY <2>1 DEF Types
    <3> HIDE DEF w
    <3> QED
      BY <3>1, <3>2
  <2>2. ASSUME NEW clean \in BOOLEAN,
               worker' = [worker EXCEPT ![c].pc = pc, ![c].restored = restored, ![c].clean = clean]
        PROVE  \E w \in Worker : /\ worker' = [worker EXCEPT ![c] = w] /\ w.pc = pc
                 /\ w.stage = worker[c].stage /\ w.new = worker[c].new /\ w.restored = restored
    <3> DEFINE w == [worker[c] EXCEPT !.pc = pc, !.restored = restored, !.clean = clean]
    <3>1. w \in Worker /\ w.pc = pc /\ w.stage = worker[c].stage /\ w.new = worker[c].new /\ w.restored = restored
      BY <1>1 DEF Worker
    <3>2. worker' = [worker EXCEPT ![c] = w]
      BY <2>2 DEF Types
    <3> HIDE DEF w
    <3> QED
      BY <3>1, <3>2
  <2> QED
    BY <2>1, <2>2
<1> QED
  BY <1>2 DEF Turned, Types

LEMMA PcTurned ==
  ASSUME Types, NEW c \in Candidates, NEW pc \in Pcs, worker' = [worker EXCEPT ![c].pc = pc]
  PROVE  Turned(c, pc, worker[c].stage, worker[c].new, worker[c].restored)
<1> DEFINE w == [worker[c] EXCEPT !.pc = pc]
<1>1. worker[c] \in Worker
  BY DEF Types
<1>2. w \in Worker /\ w.pc = pc /\ w.stage = worker[c].stage /\ w.new = worker[c].new
      /\ w.restored = worker[c].restored
  BY <1>1, WorkerAt
<1>3. worker' = [worker EXCEPT ![c] = w]
  OBVIOUS
<1> HIDE DEF w
<1> QED
  BY <1>2, <1>3 DEF Turned, Types

LEMMA GoesTurned ==
  ASSUME Types, NEW c \in Candidates, NEW pc \in Pcs, Goes(c, pc)
  PROVE  /\ Turned(c, pc, worker[c].stage, worker[c].new, worker[c].restored)
         /\ task' = task /\ recovery' = recovery /\ UNCHANGED <<stopping, deleting, taken>>
BY PcTurned DEF Goes, control

LEMMA BusyWorker ==
  ASSUME NEW pc \in Pcs, NEW by \in {"nobody", "task", "recovery"}
  PROVE  /\ Busy(pc, by) \in Worker /\ Busy(pc, by).pc = pc
         /\ Busy(pc, by).stage = "" /\ Busy(pc, by).new /\ Busy(pc, by).restored
BY DEF Busy, Worker

LEMMA FreeWorker ==
  Free \in Worker /\ Free.pc = "free" /\ Free.stage = "" /\ Free.new /\ Free.restored
BY BusyWorker DEF Free, Pcs

LEMMA EndsTurned ==
  ASSUME Types, NEW c \in Candidates, Ends(c)
  PROVE  /\ Turned(c, "free", "", TRUE, TRUE)
         /\ task' \in {task, NoTask} /\ recovery' \in Recoveries /\ UNCHANGED <<stopping, deleting, taken>>
<1>1. recovery' = recovery \/ recovery' = [recovery EXCEPT !.left = @ \ {c}]
  BY DEF Ends
<1>2. recovery' \in Recoveries
  BY <1>1 DEF Types, ControlTyped, Recoveries
<1>3. Turned(c, "free", "", TRUE, TRUE)
  BY FreeWorker DEF Turned, Ends, Types
<1> QED
  BY <1>2, <1>3 DEF Ends

LEMMA FaultLeft ==
  ASSUME Types, NEW kind \in Kinds, Fault(kind)
  PROVE  faults' \in [Kinds -> Nat]
BY DEF Types, ControlTyped, Fault

LEMMA RecordTyped ==
  ASSUME Types, NEW c \in Candidates, NEW status \in {"downloading", "completed", "failed"},
         NEW hash \in BOOLEAN, NEW owned \in BOOLEAN, NEW filed \in BOOLEAN,
         Record(c, status, hash, owned, filed)
  PROVE  record' \in [Downloads -> DownloadRow \cup {None}]
BY DEF Types, DataTyped, Record, DownloadRow

LEMMA RecordFiled == ASSUME Types, NEW c \in Candidates, record[c] # None PROVE record[c].filed \in BOOLEAN
BY DEF Types, DataTyped, DownloadRow, Downloads

LEMMA PausedTyped ==
  ASSUME Types, NEW c \in Candidates, NEW state \in {"paused", "seeding"}, Paused(c, state)
  PROVE  torrent' \in [Downloads -> {"none", "downloading", "complete", "error", "paused", "seeding"}]
<1>1. torrent \in [Downloads -> {"none", "downloading", "complete", "error", "paused", "seeding"}]
  BY DEF Types, DataTyped
<1> DEFINE old == candidate[c].old
           now == IF torrent[old] = "none" THEN torrent[old] ELSE state
<1>2. torrent' = [torrent EXCEPT ![old] = now]
  BY DEF Paused
<1>3. old \in Downloads => now \in {"none", "downloading", "complete", "error", "paused", "seeding"}
  BY <1>1
<1> HIDE DEF old, now
<1> QED
  BY <1>1, <1>2, <1>3

LEMMA StagingTyped ==
  ASSUME Types, NEW c \in Candidates, NEW left \in SUBSET {"payload", "file"},
         staging' = [staging EXCEPT ![c] = left]
  PROVE  staging' \in [Candidates -> SUBSET {"payload", "file"}]
<1>1. staging \in [Candidates -> SUBSET {"payload", "file"}]
  BY DEF Types, DataTyped
<1> QED
  BY <1>1

LEMMA MovedBack ==
  ASSUME Types, NEW c \in Candidates, MoveBack(c)
  PROVE  /\ place' \in Downloads \cup {None}
         /\ rollback' \in [Candidates -> Downloads \cup {None}]
         /\ \A d \in Candidates \ {c} : rollback'[d] = rollback[d]
         /\ IF rollback[c] # None /\ place = None
            THEN place' = rollback[c] /\ rollback'[c] = None
            ELSE place' = place /\ rollback' = rollback
BY DEF Types, DataTyped, MoveBack

-----------------------------------------------------------------------------
(* What a step of the holder of a lock has to leave behind.                *)
LEMMA Keeps ==
  ASSUME ClaimInv, NEW c \in Candidates,
         NEW status, NEW stage, NEW old, NEW download, NEW filed, NEW pc, NEW failed, NEW new, NEW restored,
         Saved(c, status, stage, old, download, filed), Turned(c, pc, failed, new, restored),
         task' \in {task, NoTask}, recovery' \in Recoveries, UNCHANGED <<stopping, deleting, taken>>,
         faults' \in [Kinds -> Nat], DataTyped',
         Fits(status, stage, old, download, pc, failed),
         status = "replacing" => \A d \in Candidates \ {c} : ~Replacing(d)
  PROVE  ClaimInv'
<1>1. ASSUME NEW d \in Candidates \ {c} PROVE RowInv(d)' /\ (Replacing(d)' <=> Replacing(d))
  BY DEF ClaimInv, Saved, Turned, RowInv, Replacing
<1>2. RowInv(c)' /\ (Replacing(c)' => \A d \in Candidates \ {c} : ~Replacing(d))
  BY DEF Saved, Turned, RowInv, Replacing
<1>3. OneReplacing'
  BY <1>1, <1>2 DEF OneReplacing, ClaimInv
<1>4. NoTask \in [kind : {"none", "replace", "cleanup"}, of : Candidates \cup {None}, cancelled : BOOLEAN]
  BY DEF NoTask
<1>5. Types'
  BY <1>4 DEF ClaimInv, Types, ControlTyped, Saved, Turned
<1> QED
  BY <1>1, <1>2, <1>3, <1>5 DEF ClaimInv

LEMMA OthersNot ==
  ASSUME ClaimInv, NEW c \in Candidates, Replacing(c) PROVE \A d \in Candidates \ {c} : ~Replacing(d)
BY DEF ClaimInv, OneReplacing

LEMMA GoesKeeps ==
  ASSUME ClaimInv, NEW c \in Candidates, NEW pc \in Pcs, UNCHANGED candidate, Goes(c, pc),
         faults' \in [Kinds -> Nat], DataTyped',
         PcFits(candidate[c].status, candidate[c].stage, candidate[c].old, pc),
         FailureFits(candidate[c].stage, pc, worker[c].stage)
  PROVE  ClaimInv'
<1>1. RowInv(c) /\ Types
  BY DEF ClaimInv
<1>2. recovery \in Recoveries
  BY <1>1 DEF Types, ControlTyped
<1> QED
  BY <1>1, <1>2, Unsaved, GoesTurned, Keeps, OthersNot DEF RowInv, Fits, Replacing

LEMMA EndsKeeps ==
  ASSUME ClaimInv, NEW c \in Candidates, UNCHANGED candidate, Ends(c),
         faults' \in [Kinds -> Nat], DataTyped'
  PROVE  ClaimInv'
<1>1. RowInv(c) /\ Types
  BY DEF ClaimInv
<1>2. /\ PcFits(candidate[c].status, candidate[c].stage, candidate[c].old, "free")
      /\ FailureFits(candidate[c].stage, "free", "")
  BY DEF PcFits, FailureFits, DownloadPcs, FilePcs, CleanupPcs, TerminalPcs
<1> QED
  BY <1>1, <1>2, Unsaved, EndsTurned, Keeps, OthersNot DEF RowInv, Fits, Replacing

LEMMA SavedGoesKeeps ==
  ASSUME ClaimInv, NEW c \in Candidates, NEW pc \in Pcs,
         NEW status, NEW stage, NEW old, NEW download, NEW filed,
         Saved(c, status, stage, old, download, filed), Goes(c, pc),
         faults' \in [Kinds -> Nat], DataTyped',
         Fits(status, stage, old, download, pc, worker[c].stage),
         status = "replacing" => Replacing(c)
  PROVE  ClaimInv'
<1>1. Types /\ recovery \in Recoveries
  BY DEF ClaimInv, Types, ControlTyped
<1> QED
  BY <1>1, GoesTurned, Keeps, OthersNot

LEMMA SavedEndsKeeps ==
  ASSUME ClaimInv, NEW c \in Candidates,
         NEW status, NEW stage, NEW old, NEW download, NEW filed,
         Saved(c, status, stage, old, download, filed), Ends(c),
         faults' \in [Kinds -> Nat], DataTyped',
         RowFits(status, stage, old, download),
         status = "replacing" => Replacing(c)
  PROVE  ClaimInv'
<1>1. Types
  BY DEF ClaimInv
<1>2. PcFits(status, stage, old, "free") /\ FailureFits(stage, "free", "")
  BY DEF PcFits, FailureFits, DownloadPcs, FilePcs, CleanupPcs, TerminalPcs
<1> QED
  BY <1>1, <1>2, EndsTurned, Keeps, OthersNot DEF Fits

LEMMA RefusedKeeps == ASSUME ClaimInv, NEW c \in Candidates, Refused(c) PROVE ClaimInv'
<1>1. Types /\ DataTyped
  BY DEF ClaimInv, Types
<1>2. DataTyped' /\ UNCHANGED candidate
  BY <1>1 DEF Refused, tables, disk, DataTyped
<1> QED
  BY <1>1, <1>2, EndsKeeps, FaultLeft DEF Refused, Kinds

-----------------------------------------------------------------------------
(* Every step of the download keeps the claims.                            *)
LEMMA DownloadKeepsClaims == ASSUME ClaimInv, NEW c \in Candidates, DownloadsToStage(c) PROVE ClaimInv'
<1> USE DEF Pcs, DownloadPcs, FilePcs, CleanupPcs, TerminalPcs, Kinds, Stages
<1>0. /\ Types /\ DataTyped /\ candidate[c] \in CandidateRow /\ faults \in [Kinds -> Nat]
      /\ RowFits(candidate[c].status, candidate[c].stage, candidate[c].old, candidate[c].download)
      /\ PcFits(candidate[c].status, candidate[c].stage, candidate[c].old, worker[c].pc)
      /\ FailureFits(candidate[c].stage, worker[c].pc, worker[c].stage)
      /\ worker[c].stage \in {"", "old_backed_up", "promoted"}
  BY WorkerFields DEF ClaimInv, Types, ControlTyped, RowInv, Fits
<1>f. \A r \in CandidateRow : /\ r.status \in Statuses /\ r.stage \in Stages
                              /\ r.old \in Downloads \cup {None} /\ r.download \in BOOLEAN
  BY RowFields
<1>1. ASSUME StartDownload(c) PROVE ClaimInv'
  <2> DEFINE old == IF candidate[c].old # None THEN candidate[c].old ELSE episode.active
             kept == IF old # None /\ record[old] # None THEN old ELSE candidate[c].old
  <2>1. kept \in Downloads \cup {None}
    BY <1>0, <1>f DEF DataTyped
  <2>2. Save(c, [candidate[c] EXCEPT !.stage = "downloading", !.old = kept])
    BY <1>1 DEF StartDownload
  <2> HIDE DEF kept
  <2>3. Saved(c, candidate[c].status, "downloading", kept, candidate[c].download, candidate[c].filed)
    BY <1>0, <2>1, <2>2, OldSaved
  <2>4. DataTyped' /\ faults' = faults /\ Goes(c, "checkpoint") /\ worker[c].pc = "start"
    BY <1>0, <1>1 DEF StartDownload, DataTyped, disk
  <2>5. Fits(candidate[c].status, "downloading", kept, candidate[c].download, "checkpoint", worker[c].stage)
    BY <1>0, <2>4 DEF Fits, RowFits, PcFits, FailureFits
  <2> QED
    BY <1>0, <2>3, <2>4, <2>5, SavedGoesKeeps DEF Replacing
<1>2. ASSUME StartCancelled(c) PROVE ClaimInv'
  <2>1. DataTyped' /\ faults' = faults /\ Ends(c)
    BY <1>0, <1>2 DEF StartCancelled, DataTyped, disk
  <2>2. CASE UNCHANGED candidate
    BY <1>0, <2>1, <2>2, EndsKeeps
  <2>3. CASE /\ candidate[c].stage = "queued" /\ candidate[c].status = "replacing"
             /\ Save(c, [candidate[c] EXCEPT !.status = "failed", !.stage = ""])
    <3>1. Saved(c, "failed", "", candidate[c].old, candidate[c].download, candidate[c].filed)
      BY <1>0, <2>3, StatusSaved DEF Statuses
    <3> QED
      BY <1>0, <2>1, <2>3, <3>1, SavedEndsKeeps DEF RowFits
  <2> QED
    BY <1>2, <2>2, <2>3 DEF StartCancelled
<1>3. ASSUME CheckpointDownload(c) PROVE ClaimInv'
  <2>1. DataTyped' /\ faults' \in [Kinds -> Nat]
    BY <1>0, <1>3, RecordTyped, FaultLeft DEF CheckpointDownload, DataTyped, disk
  <2>2. PICK pc \in {"wait", "hand_over", "dl_failed"} : Goes(c, pc)
    BY <1>3 DEF CheckpointDownload
  <2>3. candidate[c].status = "replacing" /\ worker[c].pc = "checkpoint"
    BY <1>3 DEF CheckpointDownload, CheckpointHolds
  <2>4. CASE UNCHANGED candidate
    BY <1>0, <2>1, <2>2, <2>3, <2>4, GoesKeeps DEF PcFits, FailureFits
  <2>5. CASE Save(c, [candidate[c] EXCEPT !.download = TRUE])
    <3>1. Saved(c, candidate[c].status, candidate[c].stage, candidate[c].old, TRUE, candidate[c].filed)
      BY <1>0, <2>5, DownloadSaved
    <3>2. Fits(candidate[c].status, candidate[c].stage, candidate[c].old, TRUE, pc, worker[c].stage)
      BY <1>0, <2>2, <2>3 DEF Fits, RowFits, PcFits, FailureFits
    <3> QED
      BY <1>0, <2>1, <2>2, <3>1, <3>2, SavedGoesKeeps DEF Replacing
  <2> QED
    BY <1>3, <2>4, <2>5 DEF CheckpointDownload
<1>4. ASSUME CheckpointFails(c) PROVE ClaimInv'
  <2>1. DataTyped' /\ faults' = faults /\ candidate' = candidate
    BY <1>0, <1>4 DEF CheckpointFails, DataTyped, tables, disk
  <2>2. CASE candidate[c].download
    <3>1. candidate[c].status = "replacing" /\ candidate[c].stage = "downloading"
      BY <1>0, <1>f, <1>4, <2>2 DEF CheckpointFails, RowFits, PcFits, Statuses
    <3> QED
      BY <1>0, <1>4, <2>1, <2>2, <3>1, GoesKeeps DEF CheckpointFails, PcFits, FailureFits
  <2> QED
    BY <1>0, <1>4, <2>1, <2>2, EndsKeeps DEF CheckpointFails
<1>5. ASSUME HandOver(c) PROVE ClaimInv'
  <2>1. DataTyped' /\ candidate' = candidate
    BY <1>0, <1>5 DEF HandOver, AddTorrentExclusive, DataTyped, tables, disk, Downloads
  <2> QED
    BY <1>0, <1>5, <2>1, GoesKeeps DEF HandOver, PcFits, FailureFits
<1>22. ASSUME SaveOwnership(c) PROVE ClaimInv'
  <2>1. DataTyped' /\ candidate' = candidate
    BY <1>0, <1>22, RecordTyped DEF SaveOwnership, DataTyped, disk
  <2> QED
    BY <1>0, <1>22, <2>1, GoesKeeps, EndsKeeps, FaultLeft DEF SaveOwnership, PcFits, FailureFits
<1>6. ASSUME HandOverFails(c) PROVE ClaimInv'
  <2>1. DataTyped' /\ candidate' = candidate
    BY <1>0, <1>6 DEF HandOverFails, DataTyped, disk, tables
  <2> QED
    BY <1>0, <1>6, <2>1, GoesKeeps, EndsKeeps, FaultLeft DEF HandOverFails, PcFits, FailureFits
<1>7. ASSUME WaitForCompletion(c) PROVE ClaimInv'
  <2>1. DataTyped' /\ candidate' = candidate
    BY <1>0, <1>7 DEF WaitForCompletion, DataTyped, disk, tables
  <2> QED
    BY <1>0, <1>7, <2>1, GoesKeeps DEF WaitForCompletion, PcFits, FailureFits
<1>8. ASSUME WaitFails(c) PROVE ClaimInv'
  <2>1. DataTyped' /\ candidate' = candidate
    <3>1. (record[c] # None /\ record[c].filed) \in BOOLEAN
      OBVIOUS
    <3> QED
      BY <1>0, <1>8, <3>1, RecordTyped DEF WaitFails, DataTyped, disk
  <2> QED
    BY <1>0, <1>8, <2>1, GoesKeeps, FaultLeft DEF WaitFails, PcFits, FailureFits
<1>9. ASSUME SaveFilePaths(c) PROVE ClaimInv'
  <2>1. DataTyped' /\ candidate' = candidate
    BY <1>0, <1>9, RecordTyped DEF SaveFilePaths, DataTyped, disk
  <2> QED
    BY <1>0, <1>9, <2>1, GoesKeeps DEF SaveFilePaths, PcFits, FailureFits
<1>10. ASSUME RenameStaged(c) PROVE ClaimInv'
  <2>1. DataTyped' /\ candidate' = candidate
    BY <1>0, <1>10 DEF RenameStaged, DataTyped, tables
  <2> QED
    BY <1>0, <1>10, <2>1, GoesKeeps DEF RenameStaged, PcFits, FailureFits
<1>11. ASSUME StagingFails(c) PROVE ClaimInv'
  <2>1. DataTyped' /\ candidate' = candidate
    BY <1>0, <1>11 DEF StagingFails, DataTyped, tables, disk
  <2> QED
    BY <1>0, <1>11, <2>1, GoesKeeps, FaultLeft DEF StagingFails, PcFits, FailureFits
<1>12. ASSUME DetachCheckpoint(c) PROVE ClaimInv'
  <2>1. DataTyped' /\ faults' = faults
    BY <1>0, <1>12 DEF DetachCheckpoint, DataTyped, disk
  <2>2. Saved(c, candidate[c].status, "detaching", candidate[c].old, TRUE, TRUE)
    BY <1>0, <1>12, StagedSaved DEF DetachCheckpoint
  <2>3. PICK pc \in {"detach", "recovered_detach"} : Goes(c, pc)
    BY <1>12 DEF DetachCheckpoint
  <2>4. Fits(candidate[c].status, "detaching", candidate[c].old, TRUE, pc, worker[c].stage)
    BY <1>0, <1>12, <2>3 DEF DetachCheckpoint, Fits, RowFits, PcFits, FailureFits
  <2> QED
    BY <1>0, <2>1, <2>2, <2>3, <2>4, SavedGoesKeeps DEF Replacing
<1>13. ASSUME Detach(c) PROVE ClaimInv'
  <2>1. DataTyped' /\ candidate' = candidate
    BY <1>0, <1>13 DEF Detach, DataTyped, tables, disk
  <2> QED
    BY <1>0, <1>13, <2>1, GoesKeeps DEF Detach, PcFits, FailureFits
<1>14. ASSUME DetachFails(c) PROVE ClaimInv'
  <2>1. DataTyped' /\ candidate' = candidate
    BY <1>0, <1>14 DEF DetachFails, DataTyped, tables, disk
  <2> QED
    BY <1>0, <1>14, <2>1, EndsKeeps, FaultLeft DEF DetachFails
<1>15. ASSUME MarkStaged(c) PROVE ClaimInv'
  <2>1. DataTyped' /\ faults' = faults
    BY <1>0, <1>15 DEF MarkStaged, DataTyped, disk
  <2>2. Saved(c, candidate[c].status, "staged", candidate[c].old, candidate[c].download, candidate[c].filed)
    BY <1>0, <1>15, StageRow DEF MarkStaged
  <2>3. Fits(candidate[c].status, "staged", candidate[c].old, candidate[c].download, "mark_completed", worker[c].stage)
    BY <1>0, <1>15 DEF MarkStaged, Fits, RowFits, PcFits, FailureFits
  <2> QED
    BY <1>0, <1>15, <2>1, <2>2, <2>3, SavedGoesKeeps DEF MarkStaged, Replacing
<1>16. ASSUME MarkCompleted(c) PROVE ClaimInv'
  <2>1. DataTyped' /\ candidate' = candidate
    BY <1>0, <1>16, RecordTyped DEF MarkCompleted, DataTyped, disk
  <2> QED
    BY <1>0, <1>16, <2>1, GoesKeeps DEF MarkCompleted, PcFits, FailureFits
<1>17. ASSUME ToStaged(c) PROVE ClaimInv'
  <2>1. DataTyped' /\ faults' = faults
    BY <1>0, <1>17 DEF ToStaged, DataTyped, disk
  <2>2. Saved(c, candidate[c].status, "staged", candidate[c].old, candidate[c].download, candidate[c].filed)
    BY <1>0, <1>17, StageRow DEF ToStaged
  <2>3. Fits(candidate[c].status, "staged", candidate[c].old, candidate[c].download, "staged", worker[c].stage)
    BY <1>0, <1>17 DEF ToStaged, Fits, RowFits, PcFits, FailureFits
  <2> QED
    BY <1>0, <1>17, <2>1, <2>2, <2>3, SavedGoesKeeps DEF ToStaged, Replacing
<1>18. ASSUME DeletePayload(c) PROVE ClaimInv'
  <2>2. torrent' \in [Downloads -> {"none", "downloading", "complete", "error", "paused", "seeding"}]
    BY <1>0, <1>18 DEF DeletePayload, DataTyped
  <2>3. staging' \in [Candidates -> SUBSET {"payload", "file"}]
    <3> DEFINE left == IF torrent[c] = "none" THEN staging[c] ELSE staging[c] \ {"payload"}
    <3>1. left \in SUBSET {"payload", "file"}
      BY <1>0 DEF DataTyped
    <3>2. staging' = staging \/ staging' = [staging EXCEPT ![c] = left]
      BY <1>18 DEF DeletePayload
    <3>3. staging \in [Candidates -> SUBSET {"payload", "file"}]
      BY <1>0 DEF DataTyped
    <3> HIDE DEF left
    <3> QED
      BY <3>1, <3>2, <3>3
  <2>4. DataTyped' /\ candidate' = candidate
    BY <1>0, <1>18, <2>2, <2>3 DEF DeletePayload, DataTyped, tables
  <2> QED
    BY <1>0, <1>18, <2>4, GoesKeeps DEF DeletePayload, PcFits, FailureFits
<1>23. ASSUME Disown(c) PROVE ClaimInv'
  <2>1. DataTyped' /\ candidate' = candidate
    <3>1. (record[c] # None /\ record[c].filed) \in BOOLEAN
      OBVIOUS
    <3> QED
      BY <1>0, <1>23, <3>1, RecordTyped DEF Disown, DataTyped, disk
  <2> QED
    BY <1>0, <1>23, <2>1, GoesKeeps DEF Disown, PcFits, FailureFits
<1>19. ASSUME DeletePayloadFails(c) PROVE ClaimInv'
  <2>1. DataTyped' /\ Ends(c) /\ faults' \in [Kinds -> Nat]
    BY <1>0, <1>19, FaultLeft DEF DeletePayloadFails, DataTyped, disk
  <2>2. Replacing(c)
    BY <1>0, <1>19 DEF DeletePayloadFails, PcFits, Replacing
  <2>3. Saved(c, "replacing", "download_cleanup", candidate[c].old, candidate[c].download, candidate[c].filed)
    BY <1>0, <1>19, StatusSaved DEF DeletePayloadFails, Statuses
  <2>4. RowFits("replacing", "download_cleanup", candidate[c].old, candidate[c].download)
    BY DEF RowFits
  <2> QED
    BY <1>0, <2>1, <2>2, <2>3, <2>4, SavedEndsKeeps
<1>20. ASSUME Discard(c) PROVE ClaimInv'
  <2>1. DataTyped' /\ faults' = faults
    BY <1>0, <1>20 DEF Discard, DataTyped, disk
  <2>2. Saved(c, candidate[c].status, candidate[c].stage, candidate[c].old, FALSE, candidate[c].filed)
    BY <1>0, <1>20, DownloadSaved DEF Discard
  <2>3. Fits(candidate[c].status, candidate[c].stage, candidate[c].old, FALSE, "fail", worker[c].stage)
    BY <1>0, <1>20 DEF Discard, Fits, RowFits, PcFits, FailureFits, CandidateRow, Statuses
  <2> QED
    BY <1>0, <1>20, <2>1, <2>2, <2>3, SavedGoesKeeps DEF Discard, Replacing
<1>21. ASSUME DownloadSaveRefused(c) PROVE ClaimInv'
  BY <1>21, RefusedKeeps DEF DownloadSaveRefused
<1> QED
  BY <1>1, <1>2, <1>3, <1>4, <1>5, <1>6, <1>7, <1>8, <1>9, <1>10, <1>11, <1>12, <1>13, <1>14, <1>15,
     <1>16, <1>17, <1>18, <1>19, <1>20, <1>21, <1>22, <1>23 DEF DownloadsToStage

(* Every step of the exchange of the files keeps the claims.               *)
LEMMA FilesKeepClaims == ASSUME ClaimInv, NEW c \in Candidates, ExchangesFiles(c) PROVE ClaimInv'
<1> USE DEF Pcs, DownloadPcs, FilePcs, CleanupPcs, TerminalPcs, Kinds, Stages
<1>0. /\ Types /\ DataTyped /\ candidate[c] \in CandidateRow /\ faults \in [Kinds -> Nat]
      /\ RowFits(candidate[c].status, candidate[c].stage, candidate[c].old, candidate[c].download)
      /\ PcFits(candidate[c].status, candidate[c].stage, candidate[c].old, worker[c].pc)
      /\ FailureFits(candidate[c].stage, worker[c].pc, worker[c].stage)
      /\ worker[c].stage \in {"", "old_backed_up", "promoted"}
      /\ worker[c].new \in BOOLEAN /\ worker[c].restored \in BOOLEAN /\ worker[c].clean \in BOOLEAN
      /\ recovery \in Recoveries
  BY WorkerFields DEF ClaimInv, Types, ControlTyped, RowInv, Fits
<1>1. ASSUME PauseOld(c) PROVE ClaimInv'
  <2>0. torrent' \in [Downloads -> {"none", "downloading", "complete", "error", "paused", "seeding"}]
    <3>1. CASE Paused(c, "paused")
      BY <1>0, <3>1, PausedTyped
    <3>2. CASE UNCHANGED torrent
      BY <1>0, <3>2 DEF DataTyped
    <3> QED
      BY <1>1, <3>1, <3>2 DEF PauseOld
  <2>1. DataTyped' /\ candidate' = candidate
    BY <1>0, <1>1, <2>0 DEF PauseOld, DataTyped, tables, disk
  <2> QED
    BY <1>0, <1>1, <2>1, GoesKeeps, EndsKeeps DEF PauseOld, PcFits, FailureFits
<1>2. ASSUME PauseFails(c) PROVE ClaimInv'
  <2>1. DataTyped' /\ candidate' = candidate
    BY <1>0, <1>2 DEF PauseFails, DataTyped, tables, disk
  <2> QED
    BY <1>0, <1>2, <2>1, GoesKeeps, EndsKeeps, FaultLeft DEF PauseFails, PcFits, FailureFits
<1>3. ASSUME BackUp(c) PROVE ClaimInv'
  <2>0. place' \in Downloads \cup {None} /\ rollback' \in [Candidates -> Downloads \cup {None}]
    <3>1. place \in Downloads \cup {None} /\ rollback \in [Candidates -> Downloads \cup {None}]
      BY <1>0 DEF DataTyped
    <3>2. \/ place' = None /\ rollback' = [rollback EXCEPT ![c] = place]
          \/ place' = place /\ rollback' = rollback
      BY <1>3 DEF BackUp
    <3> QED
      BY <3>1, <3>2
  <2>1. DataTyped' /\ candidate' = candidate
    BY <1>0, <1>3, <2>0 DEF BackUp, DataTyped, tables
  <2> QED
    BY <1>0, <1>3, <2>1, GoesKeeps, FaultLeft DEF BackUp, PcFits, FailureFits
<1>4. ASSUME SaveBackUp(c) PROVE ClaimInv'
  <2>0. /\ worker[c].pc = "backup_save" /\ candidate[c].status = "replacing" /\ candidate[c].stage = "staged"
        /\ worker[c].stage = ""
    BY <1>0, <1>4 DEF SaveBackUp, PcFits, FailureFits
  <2>1. CASE Stage(c, "old_backed_up") /\ Goes(c, "promote") /\ UNCHANGED <<place, rollback, faults>>
    <3>1. DataTyped'
      BY <1>0, <1>4, <2>1 DEF SaveBackUp, DataTyped
    <3>2. Fits("replacing", "old_backed_up", candidate[c].old, candidate[c].download, "promote", worker[c].stage)
      BY <2>0 DEF Fits, RowFits, PcFits, FailureFits
    <3>3. Saved(c, "replacing", "old_backed_up", candidate[c].old, candidate[c].download, candidate[c].filed)
      BY <1>0, <2>0, <2>1, StageRow
    <3> QED
      BY <1>0, <2>0, <2>1, <3>1, <3>2, <3>3, SavedGoesKeeps DEF Replacing
  <2>2. CASE /\ Fault("refused") /\ MoveBack(c) /\ UNCHANGED <<candidate, control>>
             /\ worker' = [worker EXCEPT ![c].pc = "restore", ![c].stage = "old_backed_up"]
    <3>1. DataTyped'
      BY <1>0, <1>4, <2>2, MovedBack DEF SaveBackUp, DataTyped
    <3>2. Turned(c, "restore", "old_backed_up", worker[c].new, worker[c].restored)
      BY <1>0, <2>2, FailedTurned
    <3>3. Fits("replacing", "staged", candidate[c].old, candidate[c].download, "restore", "old_backed_up")
      BY <1>0, <2>0 DEF Fits, RowFits, PcFits, FailureFits
    <3>4. Saved(c, "replacing", "staged", candidate[c].old, candidate[c].download, candidate[c].filed)
      BY <1>0, <2>0, <2>2, Unsaved
    <3>5. faults' \in [Kinds -> Nat]
      BY <1>0, <2>2, FaultLeft
    <3>6. \A d \in Candidates \ {c} : ~Replacing(d)
      BY <2>0, OthersNot DEF Replacing
    <3> QED
      BY <1>0, <2>2, <3>1, <3>2, <3>3, <3>4, <3>5, <3>6, Keeps DEF control
  <2> QED
    BY <1>4, <2>1, <2>2 DEF SaveBackUp
<1>5. ASSUME Promote(c) PROVE ClaimInv'
  <2>1. DataTyped' /\ candidate' = candidate
    BY <1>0, <1>5 DEF Promote, DataTyped, tables, Downloads
  <2> QED
    BY <1>0, <1>5, <2>1, GoesKeeps DEF Promote, PcFits, FailureFits
<1>6. ASSUME PromotedBefore(c) PROVE ClaimInv'
  <2>1. DataTyped' /\ candidate' = candidate
    BY <1>0, <1>6 DEF PromotedBefore, DataTyped, tables, disk
  <2> QED
    BY <1>0, <1>6, <2>1, GoesKeeps, EndsKeeps DEF PromotedBefore, PcFits, FailureFits
<1>7. ASSUME PromoteFails(c) PROVE ClaimInv'
  <2>1. DataTyped' /\ candidate' = candidate
    BY <1>0, <1>7, MovedBack DEF PromoteFails, DataTyped, tables
  <2> QED
    BY <1>0, <1>7, <2>1, GoesKeeps, FaultLeft DEF PromoteFails, PcFits, FailureFits
<1>8. ASSUME SavePromoted(c) PROVE ClaimInv'
  <2>1. DataTyped' /\ faults' = faults
    BY <1>0, <1>8 DEF SavePromoted, DataTyped, disk
  <2>2. candidate[c].status = "replacing"
    BY <1>0, <1>8 DEF SavePromoted, PcFits
  <2>3. Fits("replacing", "promoted", candidate[c].old, candidate[c].download, "switch", worker[c].stage)
    BY <1>0, <1>8 DEF SavePromoted, Fits, RowFits, PcFits, FailureFits
  <2>4. Saved(c, "replacing", "promoted", candidate[c].old, candidate[c].download, candidate[c].filed)
    BY <1>0, <1>8, <2>2, StageRow DEF SavePromoted
  <2>5. Goes(c, "switch")
    BY <1>8 DEF SavePromoted
  <2> QED
    BY <1>0, <2>1, <2>2, <2>3, <2>4, <2>5, SavedGoesKeeps DEF Replacing
<1>9. ASSUME Switch(c) PROVE ClaimInv'
  <2>1. DataTyped' /\ faults' = faults
    <3>1. record[c] \in DownloadRow
      BY <1>0, <1>9 DEF Switch, MaySwitch, DataTyped, Downloads
    <3>2. record[c].hash \in BOOLEAN
      BY <3>1 DEF DownloadRow
    <3>3. Record(c, "completed", record[c].hash, FALSE, TRUE)
      BY <1>9 DEF Switch, Record
    <3>4. record' \in [Downloads -> DownloadRow \cup {None}]
      BY <1>0, <3>2, <3>3, RecordTyped
    <3>5. episode' = [status |-> "downloaded", active |-> c]
      BY <1>9 DEF Switch
    <3>6. episode' \in [status : {"missing", "ignored", "marked_downloaded", "downloaded"},
                        active : Downloads \cup {None}]
      BY <3>5 DEF Downloads
    <3>7. UNCHANGED <<torrent, disk, faults>>
      BY <1>9 DEF Switch
    <3> QED
      BY <1>0, <3>4, <3>6, <3>7 DEF DataTyped, disk
  <2>2. Saved(c, "accepted_cleanup_failed", "switched", candidate[c].old, candidate[c].download, candidate[c].filed)
    BY <1>0, <1>9, StatusSaved DEF Switch, Statuses
  <2>3. Fits("accepted_cleanup_failed", "switched", candidate[c].old, candidate[c].download, "cleanup", worker[c].stage)
    BY <1>0, <1>9 DEF Switch, Fits, RowFits, PcFits, FailureFits
  <2>4. Goes(c, "cleanup")
    BY <1>9 DEF Switch
  <2>5. "cleanup" \in Pcs /\ faults' \in [Kinds -> Nat]
    BY <1>0, <2>1
  <2> QED
    BY <2>1, <2>2, <2>3, <2>4, <2>5, SavedGoesKeeps
<1>10. ASSUME SwitchFails(c) PROVE ClaimInv'
  <2>1. DataTyped' /\ candidate' = candidate /\ faults' \in [Kinds -> Nat]
    BY <1>0, <1>10, FaultLeft DEF SwitchFails, DataTyped, tables, disk
  <2>2. Turned(c, "unpromote", "promoted", worker[c].new, worker[c].restored)
    BY <1>0, <1>10, FailedTurned DEF SwitchFails
  <2>3. candidate[c].status = "replacing"
    BY <1>0, <1>10 DEF SwitchFails, PcFits
  <2>4. Fits(candidate[c].status, candidate[c].stage, candidate[c].old, candidate[c].download, "unpromote", "promoted")
    BY <1>0, <1>10 DEF SwitchFails, Fits, RowFits, PcFits, FailureFits
  <2> QED
    BY <1>0, <1>10, <2>1, <2>2, <2>3, <2>4, Unsaved, Keeps, OthersNot DEF SwitchFails, Replacing, control
<1>11. ASSUME Unpromote(c) PROVE ClaimInv'
  <2>0. place' \in Downloads \cup {None} /\ staging' \in [Candidates -> SUBSET {"payload", "file"}]
    <3> DEFINE files == staging[c] \cup {"file"}
    <3>1. /\ place \in Downloads \cup {None} /\ staging \in [Candidates -> SUBSET {"payload", "file"}]
          /\ files \in SUBSET {"payload", "file"}
      BY <1>0 DEF DataTyped
    <3>2. \/ place' = None /\ staging' = [staging EXCEPT ![c] = files]
          \/ place' = place /\ staging' = staging
      BY <1>11 DEF Unpromote
    <3> HIDE DEF files
    <3> QED
      BY <1>0, <3>1, <3>2, StagingTyped
  <2>1. DataTyped' /\ candidate' = candidate
    BY <1>0, <1>11, <2>0 DEF Unpromote, DataTyped, tables
  <2>2. faults' \in [Kinds -> Nat]
    BY <1>0, <1>11, FaultLeft DEF Unpromote
  <2>3. PICK new \in BOOLEAN : Turned(c, "unbackup", worker[c].stage, new, worker[c].restored)
    BY <1>0, <1>11, NewTurned DEF Unpromote
  <2>4. candidate[c].status = "replacing" /\ worker[c].pc = "unpromote"
    BY <1>0, <1>11 DEF Unpromote, PcFits
  <2>5. Fits(candidate[c].status, candidate[c].stage, candidate[c].old, candidate[c].download, "unbackup", worker[c].stage)
    BY <1>0, <2>4 DEF Fits, RowFits, PcFits, FailureFits
  <2> QED
    BY <1>0, <1>11, <2>1, <2>2, <2>3, <2>4, <2>5, Unsaved, Keeps, OthersNot DEF Unpromote, Replacing, control
<1>12. ASSUME UnbackUp(c) PROVE ClaimInv'
  <2>1. DataTyped' /\ candidate' = candidate
    BY <1>0, <1>12, MovedBack DEF UnbackUp, DataTyped, tables
  <2>2. faults' \in [Kinds -> Nat]
    BY <1>0, <1>12, FaultLeft DEF UnbackUp
  <2>3. PICK restored \in BOOLEAN : Turned(c, "unresume", worker[c].stage, worker[c].new, restored)
    BY <1>0, <1>12, RestoredTurned DEF UnbackUp
  <2>4. candidate[c].status = "replacing" /\ worker[c].pc = "unbackup"
    BY <1>0, <1>12 DEF UnbackUp, PcFits
  <2>5. Fits(candidate[c].status, candidate[c].stage, candidate[c].old, candidate[c].download, "unresume", worker[c].stage)
    BY <1>0, <2>4 DEF Fits, RowFits, PcFits, FailureFits
  <2> QED
    BY <1>0, <1>12, <2>1, <2>2, <2>3, <2>4, <2>5, Unsaved, Keeps, OthersNot DEF UnbackUp, Replacing, control
<1>13. ASSUME Restore(c) PROVE ClaimInv'
  <2>1. DataTyped' /\ candidate' = candidate
    BY <1>0, <1>13, MovedBack DEF Restore, DataTyped, tables
  <2>2. faults' \in [Kinds -> Nat]
    BY <1>0, <1>13, FaultLeft DEF Restore
  <2>3. PICK restored \in BOOLEAN : Turned(c, "resume", worker[c].stage, worker[c].new, restored)
    BY <1>0, <1>13, RestoredTurned DEF Restore
  <2>4. candidate[c].status = "replacing" /\ worker[c].pc = "restore"
    BY <1>0, <1>13 DEF Restore, PcFits
  <2>5. Fits(candidate[c].status, candidate[c].stage, candidate[c].old, candidate[c].download, "resume", worker[c].stage)
    BY <1>0, <2>4 DEF Fits, RowFits, PcFits, FailureFits
  <2> QED
    BY <1>0, <1>13, <2>1, <2>2, <2>3, <2>4, <2>5, Unsaved, Keeps, OthersNot DEF Restore, Replacing, control
<1>14. ASSUME ResumeOld(c) PROVE ClaimInv'
  <2>0. torrent' \in [Downloads -> {"none", "downloading", "complete", "error", "paused", "seeding"}]
    <3>1. CASE Paused(c, "seeding")
      BY <1>0, <3>1, PausedTyped
    <3>2. CASE UNCHANGED torrent
      BY <1>0, <3>2 DEF DataTyped
    <3> QED
      BY <1>14, <3>1, <3>2 DEF ResumeOld
  <2>1. DataTyped' /\ candidate' = candidate
    BY <1>0, <1>14, <2>0 DEF ResumeOld, DataTyped, tables, disk
  <2>2. faults' \in [Kinds -> Nat]
    BY <1>0, <1>14, FaultLeft DEF ResumeOld
  <2>3. PICK pc \in {"fail", "compensated"} : worker' = [worker EXCEPT ![c].pc = pc]
    BY <1>14 DEF ResumeOld
  <2>4. candidate[c].status = "replacing" /\ worker[c].pc \in {"resume", "unresume"}
    BY <1>0, <1>14 DEF ResumeOld, PcFits
  <2>5. Fits(candidate[c].status, candidate[c].stage, candidate[c].old, candidate[c].download, pc, worker[c].stage)
    BY <1>0, <2>3, <2>4 DEF Fits, RowFits, PcFits, FailureFits
  <2>6. Turned(c, pc, worker[c].stage, worker[c].new, worker[c].restored)
    BY <1>0, <2>3, PcTurned
  <2>7. UNCHANGED control
    BY <1>14 DEF ResumeOld
  <2> QED
    BY <1>0, <2>1, <2>2, <2>4, <2>5, <2>6, <2>7, Unsaved, Keeps, OthersNot DEF Replacing, control
<1>15. ASSUME SaveCompensation(c) PROVE ClaimInv'
  <2>1. DataTyped' /\ faults' = faults
    BY <1>0, <1>15 DEF SaveCompensation, DataTyped, disk
  <2>2. PICK stage \in {"promoted", "old_backed_up", "staged"} :
          Save(c, [candidate[c] EXCEPT !.status = "replacing", !.stage = stage])
    BY <1>15 DEF SaveCompensation
  <2>3. Saved(c, "replacing", stage, candidate[c].old, candidate[c].download, candidate[c].filed)
    BY <1>0, <2>2, StatusSaved DEF Statuses
  <2>4. candidate[c].status = "replacing"
    BY <1>0, <1>15 DEF SaveCompensation, PcFits
  <2>5. RowFits("replacing", stage, candidate[c].old, candidate[c].download)
    BY <1>0 DEF RowFits
  <2> QED
    BY <1>0, <1>15, <2>1, <2>3, <2>4, <2>5, SavedEndsKeeps DEF SaveCompensation, Replacing
<1>16. ASSUME RecordFailure(c) PROVE ClaimInv'
  <2>1. DataTyped' /\ faults' = faults
    BY <1>0, <1>16 DEF RecordFailure, DataTyped, disk
  <2>2. candidate[c].status = "replacing" /\ worker[c].pc = "fail"
    BY <1>0, <1>16 DEF RecordFailure, PcFits
  <2>3. CASE OldInPlace(c)
    <3>1. Saved(c, "replacing", "terminal_cleanup", candidate[c].old, candidate[c].download, candidate[c].filed)
      BY <1>0, <1>16, <2>3, StatusSaved DEF RecordFailure, Statuses
    <3>2. Fits("replacing", "terminal_cleanup", candidate[c].old, candidate[c].download, "terminal", worker[c].stage)
      BY <1>0 DEF Fits, RowFits, PcFits, FailureFits
    <3> QED
      BY <1>0, <1>16, <2>1, <2>2, <2>3, <3>1, <3>2, SavedGoesKeeps DEF RecordFailure, Replacing
  <2>4. CASE ~OldInPlace(c)
    <3> DEFINE stage == IF worker[c].stage = "" THEN candidate[c].stage ELSE worker[c].stage
    <3>1. Save(c, [candidate[c] EXCEPT !.status = "replacing", !.stage = stage]) /\ Ends(c)
      BY <1>16, <2>4 DEF RecordFailure
    <3>2. stage \in Stages /\ RowFits("replacing", stage, candidate[c].old, candidate[c].download)
      BY <1>0, <2>2, RowFields DEF RowFits
    <3> HIDE DEF stage
    <3> QED
      BY <1>0, <2>1, <2>2, <3>1, <3>2, StatusSaved, SavedEndsKeeps DEF Replacing, Statuses
  <2> QED
    BY <2>3, <2>4
<1>17. ASSUME RemoveOwnTorrent(c) PROVE ClaimInv'
  <2>1. record' \in [Downloads -> DownloadRow \cup {None}]
    <3>1. CASE record' = record
      BY <1>0, <3>1 DEF DataTyped
    <3>2. CASE record[c] # None /\ record' = [record EXCEPT ![c].owned = FALSE]
      <4>1. record[c] \in DownloadRow
        BY <1>0, <3>2 DEF DataTyped, Downloads
      <4>2. [record[c] EXCEPT !.owned = FALSE] \in DownloadRow
        BY <4>1 DEF DownloadRow
      <4> QED
        BY <1>0, <3>2, <4>2 DEF DataTyped
    <3> QED
      BY <1>17, <3>1, <3>2 DEF RemoveOwnTorrent
  <2>2. DataTyped' /\ candidate' = candidate
    BY <1>0, <1>17, <2>1 DEF RemoveOwnTorrent, DataTyped, disk
  <2> QED
    BY <1>0, <1>17, <2>2, GoesKeeps, EndsKeeps, FaultLeft DEF RemoveOwnTorrent, PcFits, FailureFits
<1>18. ASSUME RemoveStaged(c) PROVE ClaimInv'
  <2>0. staging' \in [Candidates -> SUBSET {"payload", "file"}]
    <3> DEFINE files == staging[c] \ {"file"}
    <3>1. staging \in [Candidates -> SUBSET {"payload", "file"}] /\ files \in SUBSET {"payload", "file"}
      BY <1>0 DEF DataTyped
    <3>2. staging' = staging \/ staging' = [staging EXCEPT ![c] = files]
      BY <1>18 DEF RemoveStaged
    <3> HIDE DEF files
    <3> QED
      BY <1>0, <3>1, <3>2, StagingTyped
  <2>1. DataTyped' /\ candidate' = candidate
    BY <1>0, <1>18, <2>0 DEF RemoveStaged, DataTyped, tables
  <2> QED
    BY <1>0, <1>18, <2>1, GoesKeeps DEF RemoveStaged, PcFits, FailureFits
<1>19. ASSUME DiscardDownload(c) PROVE ClaimInv'
  <2>1. DataTyped' /\ faults' = faults
    BY <1>0, <1>19 DEF DiscardDownload, DataTyped, disk
  <2>2. Saved(c, candidate[c].status, candidate[c].stage, candidate[c].old, FALSE, candidate[c].filed)
    BY <1>0, <1>19, DownloadSaved DEF DiscardDownload
  <2>3. candidate[c].status = "replacing" /\ candidate[c].stage = "terminal_cleanup"
    BY <1>0, <1>19 DEF DiscardDownload, PcFits
  <2>4. Fits(candidate[c].status, candidate[c].stage, candidate[c].old, FALSE, "terminal_done", worker[c].stage)
    BY <1>0, <2>3 DEF Fits, RowFits, PcFits, FailureFits
  <2> QED
    BY <1>0, <1>19, <2>1, <2>2, <2>3, <2>4, SavedGoesKeeps DEF DiscardDownload, Replacing
<1>20. ASSUME Failed(c) PROVE ClaimInv'
  <2> DEFINE row == [status |-> "failed", stage |-> "", old |-> None, download |-> FALSE, filed |-> FALSE]
  <2>1. DataTyped' /\ faults' = faults /\ Ends(c) /\ Save(c, row)
    BY <1>0, <1>20 DEF Failed, DataTyped, disk
  <2>2. row \in CandidateRow
    BY DEF CandidateRow, Statuses
  <2>3. Saved(c, "failed", "", None, FALSE, FALSE)
    BY <1>0, <2>1, <2>2, SaveRow
  <2> QED
    BY <1>0, <2>1, <2>3, SavedEndsKeeps DEF RowFits
<1>21. ASSUME TerminalFails(c) PROVE ClaimInv'
  <2>1. DataTyped' /\ candidate' = candidate
    BY <1>0, <1>21 DEF TerminalFails, DataTyped, tables, disk
  <2> QED
    BY <1>0, <1>21, <2>1, EndsKeeps, FaultLeft DEF TerminalFails
<1>22. ASSUME FilesSaveRefused(c) PROVE ClaimInv'
  BY <1>22, RefusedKeeps DEF FilesSaveRefused
<1> QED
  BY <1>1, <1>2, <1>3, <1>4, <1>5, <1>6, <1>7, <1>8, <1>9, <1>10, <1>11, <1>12, <1>13, <1>14, <1>15,
     <1>16, <1>17, <1>18, <1>19, <1>20, <1>21, <1>22 DEF ExchangesFiles

(* Every step of the cleanup keeps the claims.                             *)
LEMMA CleanupKeepsClaims == ASSUME ClaimInv, NEW c \in Candidates, CleansUp(c) PROVE ClaimInv'
<1> USE DEF Pcs, DownloadPcs, FilePcs, CleanupPcs, TerminalPcs, Kinds, Stages
<1>0. /\ Types /\ DataTyped /\ candidate[c] \in CandidateRow /\ faults \in [Kinds -> Nat]
      /\ RowFits(candidate[c].status, candidate[c].stage, candidate[c].old, candidate[c].download)
      /\ PcFits(candidate[c].status, candidate[c].stage, candidate[c].old, worker[c].pc)
      /\ FailureFits(candidate[c].stage, worker[c].pc, worker[c].stage)
  BY DEF ClaimInv, Types, ControlTyped, RowInv, Fits
<1>1. ASSUME ClaimCleanup(c) PROVE ClaimInv'
  <2>1. DataTyped' /\ faults' = faults /\ Goes(c, "claimed")
    BY <1>0, <1>1 DEF ClaimCleanup, DataTyped, disk
  <2>2. Saved(c, candidate[c].status, "cleanup_queued", candidate[c].old, candidate[c].download, candidate[c].filed)
    BY <1>0, <1>1, StageRow DEF ClaimCleanup
  <2>3. Fits(candidate[c].status, "cleanup_queued", candidate[c].old, candidate[c].download, "claimed", worker[c].stage)
    BY <1>0, <1>1 DEF ClaimCleanup, Fits, RowFits, PcFits, FailureFits
  <2> QED
    BY <1>0, <2>1, <2>2, <2>3, SavedGoesKeeps DEF Replacing
<1>2. ASSUME BeginCleanup(c) PROVE ClaimInv'
  <2>1. DataTyped' /\ faults' = faults
    BY <1>0, <1>2 DEF BeginCleanup, DataTyped, disk
  <2>2. candidate[c].status = "accepted_cleanup_failed" /\ worker[c].pc = "claimed"
    BY <1>0, <1>2 DEF BeginCleanup, PcFits
  <2>3. CASE Stage(c, "cleaning") /\ Ends(c)
    <3>1. Saved(c, candidate[c].status, "cleaning", candidate[c].old, candidate[c].download, candidate[c].filed)
      BY <1>0, <2>3, StageRow
    <3>2. RowFits(candidate[c].status, "cleaning", candidate[c].old, candidate[c].download)
      BY <2>2 DEF RowFits
    <3> QED
      BY <1>0, <2>1, <2>3, <3>1, <3>2, SavedEndsKeeps DEF Replacing
  <2>4. CASE Stage(c, "cleanup_active") /\ Goes(c, "remove_torrent")
    <3>1. Saved(c, candidate[c].status, "cleanup_active", candidate[c].old, candidate[c].download, candidate[c].filed)
      BY <1>0, <2>4, StageRow
    <3>2. Fits(candidate[c].status, "cleanup_active", candidate[c].old, candidate[c].download, "remove_torrent",
               worker[c].stage)
      BY <1>0, <2>2 DEF Fits, RowFits, PcFits, FailureFits
    <3> QED
      BY <1>0, <2>1, <2>4, <3>1, <3>2, SavedGoesKeeps DEF Replacing
  <2> QED
    BY <1>2, <2>3, <2>4 DEF BeginCleanup
<1>3. ASSUME RemoveOldTorrent(c) PROVE ClaimInv'
  <2>1. DataTyped' /\ candidate' = candidate
    BY <1>0, <1>3 DEF RemoveOldTorrent, DataTyped, tables, disk
  <2> QED
    BY <1>0, <1>3, <2>1, GoesKeeps DEF RemoveOldTorrent, PcFits, FailureFits
<1>4. ASSUME RemoveRollback(c) PROVE ClaimInv'
  <2>1. DataTyped' /\ candidate' = candidate
    BY <1>0, <1>4 DEF RemoveRollback, DataTyped, tables
  <2> QED
    BY <1>0, <1>4, <2>1, GoesKeeps DEF RemoveRollback, PcFits, FailureFits
<1>5. ASSUME RemoveOldRecord(c) PROVE ClaimInv'
  <2>1. record' \in [Downloads -> DownloadRow \cup {None}]
    BY <1>0, <1>5 DEF RemoveOldRecord, DataTyped
  <2>2. episode' \in [status : {"missing", "ignored", "marked_downloaded", "downloaded"},
                      active : Downloads \cup {None}]
    BY <1>0, <1>5 DEF RemoveOldRecord, DataTyped
  <2>3. DataTyped' /\ candidate' = candidate
    BY <1>0, <1>5, <2>1, <2>2 DEF RemoveOldRecord, DataTyped, disk
  <2> QED
    BY <1>0, <1>5, <2>3, GoesKeeps DEF RemoveOldRecord, PcFits, FailureFits
<1>6. ASSUME FinishCleanup(c) PROVE ClaimInv'
  <2>1. DataTyped' /\ faults' = faults /\ Ends(c)
    BY <1>0, <1>6 DEF FinishCleanup, DataTyped, disk
  <2>2. Saved(c, "accepted", "done", candidate[c].old, candidate[c].download, candidate[c].filed)
    BY <1>0, <1>6, StatusSaved DEF FinishCleanup, Statuses
  <2>3. RowFits("accepted", "done", candidate[c].old, candidate[c].download)
    BY DEF RowFits
  <2> QED
    BY <1>0, <2>1, <2>2, <2>3, SavedEndsKeeps
<1>7. ASSUME CleanupFails(c) PROVE ClaimInv'
  <2>1. DataTyped' /\ Ends(c) /\ faults' \in [Kinds -> Nat]
    BY <1>0, <1>7, FaultLeft DEF CleanupFails, DataTyped, disk
  <2>2. Saved(c, candidate[c].status, "cleaning", candidate[c].old, candidate[c].download, candidate[c].filed)
    BY <1>0, <1>7, StageRow DEF CleanupFails
  <2>3. RowFits(candidate[c].status, "cleaning", candidate[c].old, candidate[c].download)
    BY <1>0, <1>7 DEF CleanupFails, RowFits, PcFits
  <2> QED
    BY <1>0, <2>1, <2>2, <2>3, SavedEndsKeeps DEF Replacing
<1>8. ASSUME CleanupSaveRefused(c) PROVE ClaimInv'
  BY <1>8, RefusedKeeps DEF CleanupSaveRefused
<1> QED
  BY <1>1, <1>2, <1>3, <1>4, <1>5, <1>6, <1>7, <1>8 DEF CleansUp

-----------------------------------------------------------------------------
(* Requests, the begin of the work, and what happens around it.            *)

(* A task is claimed, and nobody works on its candidate yet.               *)
LEMMA ClaimKeeps ==
  ASSUME ClaimInv, NEW c \in Candidates, NEW status, NEW stage, NEW old, NEW download, NEW filed,
         Saved(c, status, stage, old, download, filed), worker[c].pc = "free",
         UNCHANGED <<worker, recovery, stopping, deleting, faults>>, taken' \in SUBSET Downloads, DataTyped',
         task' \in [kind : {"replace", "cleanup", "none"}, of : Candidates \cup {None}, cancelled : BOOLEAN],
         task' # NoTask => task'.of \in Candidates,
         RowFits(status, stage, old, download),
         status = "replacing" => \A d \in Candidates \ {c} : ~Replacing(d)
  PROVE  ClaimInv'
<1>1. /\ Types /\ RowInv(c) /\ OneReplacing
      /\ \A d \in Candidates : RowInv(d)
  BY DEF ClaimInv
<1>2. Types'
  BY <1>1 DEF Types, ControlTyped, Saved
<1>3. ASSUME NEW d \in Candidates \ {c} PROVE RowInv(d)' /\ (Replacing(d)' <=> Replacing(d))
  BY <1>1 DEF Saved, RowInv, Replacing
<1>4. PcFits(status, stage, old, "free") /\ FailureFits(stage, "free", worker[c].stage)
  BY <1>1 DEF PcFits, FailureFits, RowInv, Fits, DownloadPcs, FilePcs, CleanupPcs, TerminalPcs
<1>5. RowInv(c)' /\ (Replacing(c)' => \A d \in Candidates \ {c} : ~Replacing(d))
  BY <1>4 DEF Saved, RowInv, Replacing, Fits
<1>6. OneReplacing'
  BY <1>1, <1>3, <1>5 DEF OneReplacing
<1> QED
  BY <1>2, <1>3, <1>5, <1>6 DEF ClaimInv

(* No row and no place in the work changes, or work only ends or begins    *)
(* where advance begins.                                                   *)
LEMMA RowsKept ==
  ASSUME ClaimInv, UNCHANGED candidate, DataTyped', ControlTyped', worker' \in [Candidates -> Worker],
         \A c \in Candidates : \/ worker'[c] = worker[c]
                               \/ /\ PcFits(candidate[c].status, candidate[c].stage, candidate[c].old, worker'[c].pc)
                                  /\ FailureFits(candidate[c].stage, worker'[c].pc, worker'[c].stage)
  PROVE  ClaimInv'
<1>1. Types' /\ OneReplacing'
  BY DEF ClaimInv, Types, OneReplacing, Replacing
<1>2. ASSUME NEW c \in Candidates PROVE RowInv(c)'
  BY DEF ClaimInv, RowInv, Fits
<1> QED
  BY <1>1, <1>2 DEF ClaimInv

LEMMA FreeFits ==
  ASSUME NEW status, NEW stage, NEW old
  PROVE  PcFits(status, stage, old, "free") /\ FailureFits(stage, "free", "")
BY DEF PcFits, FailureFits, DownloadPcs, FilePcs, CleanupPcs, TerminalPcs

(* advance starts where the row allows it.                                 *)
LEMMA AdvanceFits ==
  ASSUME NEW row \in CandidateRow, RowFits(row.status, row.stage, row.old, row.download), row.stage # "done"
  PROVE  /\ AdvanceFrom(row) \in Pcs
         /\ PcFits(row.status, row.stage, row.old, AdvanceFrom(row))
         /\ FailureFits(row.stage, AdvanceFrom(row), "")
BY RowFields DEF AdvanceFrom, RowFits, PcFits, FailureFits, Pcs, DownloadPcs, FilePcs, CleanupPcs, TerminalPcs,
     Statuses, Stages

(* The three steps of the deletion of a download.                          *)
LEMMA DeletionKeepsClaims == ASSUME ClaimInv, NEW d \in Downloads, DeleteDownload(d) PROVE ClaimInv'
<1>0. /\ Types /\ DataTyped /\ ControlTyped /\ worker \in [Candidates -> Worker]
  BY DEF ClaimInv, Types
<1>1. CASE RequestDelete(d)
  <2>1. faults' \in [Kinds -> Nat]
    BY <1>0, <1>1, FaultLeft DEF RequestDelete, Kinds
  <2>2. deleting' \in [Downloads -> {"no", "payload", "row"}]
    BY <1>0, <1>1 DEF RequestDelete, ControlTyped
  <2>3. DataTyped' /\ ControlTyped' /\ UNCHANGED <<candidate, worker>>
    BY <1>0, <1>1, <2>1, <2>2 DEF RequestDelete, DataTyped, ControlTyped, tables, disk
  <2> QED
    BY <1>0, <2>3, RowsKept
<1>2. CASE DeleteTorrentWithPayload(d)
  <2>1. faults' \in [Kinds -> Nat]
    BY <1>0, <1>2, FaultLeft DEF DeleteTorrentWithPayload, ControlTyped, Kinds
  <2>2. deleting' \in [Downloads -> {"no", "payload", "row"}]
    BY <1>0, <1>2 DEF DeleteTorrentWithPayload, ControlTyped
  <2>3. /\ torrent' \in [Downloads -> {"none", "downloading", "complete", "error", "paused", "seeding"}]
        /\ place' \in Downloads \cup {None} /\ taken' \in SUBSET Downloads
    BY <1>0, <1>2 DEF DeleteTorrentWithPayload, DeletePayloadOf, DataTyped, ControlTyped
  <2>4. staging' \in [Candidates -> SUBSET {"payload", "file"}]
    <3>1. staging \in [Candidates -> SUBSET {"payload", "file"}]
      BY <1>0 DEF DataTyped
    <3> QED
      BY <1>2, <3>1 DEF DeleteTorrentWithPayload, DeletePayloadOf
  <2>5. UNCHANGED <<tables, rollback, worker, task, recovery, stopping>>
    BY <1>2 DEF DeleteTorrentWithPayload
  <2>6. DataTyped' /\ ControlTyped'
    BY <1>0, <2>1, <2>2, <2>3, <2>4, <2>5 DEF DataTyped, ControlTyped, tables
  <2> QED
    BY <1>0, <2>5, <2>6, RowsKept DEF tables
<1>3. CASE DeleteRow(d)
  <2>1. faults' \in [Kinds -> Nat]
    BY <1>0, <1>3, FaultLeft DEF DeleteRow, ControlTyped, Kinds
  <2>2. deleting' \in [Downloads -> {"no", "payload", "row"}]
    BY <1>0, <1>3 DEF DeleteRow, ControlTyped
  <2>3. record' \in [Downloads -> DownloadRow \cup {None}]
    BY <1>0, <1>3 DEF DeleteRow, DataTyped
  <2>4. episode' \in [status : {"missing", "ignored", "marked_downloaded", "downloaded"},
                      active : Downloads \cup {None}]
    <3>1. episode \in [status : {"missing", "ignored", "marked_downloaded", "downloaded"},
                       active : Downloads \cup {None}]
      BY <1>0 DEF DataTyped
    <3> QED
      BY <1>3, <3>1 DEF DeleteRow
  <2>5. UNCHANGED <<candidate, torrent, disk, worker, task, recovery, stopping, taken>>
    BY <1>3 DEF DeleteRow
  <2>6. DataTyped' /\ ControlTyped'
    BY <1>0, <2>1, <2>2, <2>3, <2>4, <2>5 DEF DataTyped, ControlTyped, disk
  <2> QED
    BY <1>0, <2>5, <2>6, RowsKept
<1> QED
  BY <1>1, <1>2, <1>3 DEF DeleteDownload

LEMMA RequestsKeepClaims == ASSUME ClaimInv, Requests PROVE ClaimInv'
<1>0. /\ Types /\ DataTyped /\ ControlTyped /\ worker \in [Candidates -> Worker]
      /\ \A c \in Candidates : candidate[c] \in CandidateRow
  BY DEF ClaimInv, Types
<1>1. ASSUME NEW c \in Candidates, PrepareReplace(c) PROVE ClaimInv'
  <2> DEFINE row == [status |-> "replacing", stage |-> "queued", old |-> None, download |-> FALSE, filed |-> FALSE]
             claim == [kind |-> "replace", of |-> c, cancelled |-> FALSE]
  <2>1. row \in CandidateRow /\ Save(c, row)
    BY <1>1 DEF PrepareReplace, CandidateRow, Statuses, Stages
  <2>2. Saved(c, "replacing", "queued", None, FALSE, FALSE)
    BY <1>0, <2>1, SaveRow
  <2>3. DataTyped' /\ worker[c].pc = "free" /\ UNCHANGED <<worker, recovery, stopping, deleting, faults>>
        /\ task' = claim /\ taken' \in SUBSET Downloads
    BY <1>0, <1>1 DEF PrepareReplace, Requested, DataTyped, ControlTyped, disk
  <2>4. RowFits("replacing", "queued", None, FALSE)
    BY DEF RowFits
  <2>5. \A d \in Candidates \ {c} : ~Replacing(d)
    BY <1>1 DEF PrepareReplace, Claimable, Replacing
  <2> QED
    BY <2>2, <2>3, <2>4, <2>5, ClaimKeeps
<1>2. ASSUME NEW c \in Candidates, PrepareRetryCleanup(c) PROVE ClaimInv'
  <2> DEFINE claim == [kind |-> "cleanup", of |-> c, cancelled |-> FALSE]
  <2>1. candidate[c].status = "accepted_cleanup_failed"
    BY <1>2 DEF PrepareRetryCleanup
  <2>2. Saved(c, candidate[c].status, "cleanup_queued", candidate[c].old, candidate[c].download, candidate[c].filed)
    BY <1>0, <1>2, StageRow DEF PrepareRetryCleanup, Stages
  <2>3. DataTyped' /\ worker[c].pc = "free" /\ UNCHANGED <<worker, recovery, stopping, deleting, faults>>
        /\ task' = claim /\ taken' \in SUBSET Downloads
    BY <1>0, <1>2 DEF PrepareRetryCleanup, Requested, DataTyped, ControlTyped, disk
  <2>4. RowFits(candidate[c].status, "cleanup_queued", candidate[c].old, candidate[c].download)
    BY <2>1 DEF RowFits
  <2> QED
    BY <2>1, <2>2, <2>3, <2>4, ClaimKeeps
<1>3. ASSUME NEW c \in Candidates, KeepCandidate(c) PROVE ClaimInv'
  <2> DEFINE row == [candidate[c] EXCEPT !.status = "kept_existing"]
  <2>1. row \in CandidateRow /\ Save(c, row) /\ candidate[c].status = "pending"
    BY <1>0, <1>3 DEF KeepCandidate, CandidateRow, Statuses
  <2>2. /\ row.status = "kept_existing" /\ row.stage = candidate[c].stage /\ row.old = candidate[c].old
        /\ row.download = candidate[c].download /\ row.filed = candidate[c].filed
    BY <1>0 DEF CandidateRow
  <2> HIDE DEF row
  <2>3. Saved(c, "kept_existing", candidate[c].stage, candidate[c].old, candidate[c].download, candidate[c].filed)
    BY <1>0, <2>1, <2>2, SaveRow
  <2>4. RowInv(c)
    BY DEF ClaimInv
  <2>5. UNCHANGED <<worker, control, faults>> /\ DataTyped'
    BY <1>0, <1>3 DEF KeepCandidate, DataTyped, disk
  <2>6. Fits("kept_existing", candidate[c].stage, candidate[c].old, candidate[c].download, worker[c].pc, worker[c].stage)
    BY <2>1, <2>4 DEF RowInv, Fits, RowFits, PcFits
  <2>7. Turned(c, worker[c].pc, worker[c].stage, worker[c].new, worker[c].restored)
    BY <1>0, <2>5, Unturned
  <2>8. recovery' \in Recoveries /\ faults' \in [Kinds -> Nat]
    BY <1>0, <2>5 DEF ControlTyped, control
  <2> QED
    BY <2>3, <2>5, <2>6, <2>7, <2>8, Keeps DEF control
<1>4. ASSUME CancelTask PROVE ClaimInv'
  <2>1. faults' \in [Kinds -> Nat]
    BY <1>0, <1>4, FaultLeft DEF CancelTask, Kinds
  <2>2. task' \in [kind : {"none", "replace", "cleanup"}, of : Candidates \cup {None}, cancelled : BOOLEAN]
        /\ task'.of = task.of /\ task # NoTask
    BY <1>0, <1>4 DEF CancelTask, ControlTyped
  <2>3. ControlTyped'
    BY <1>0, <1>4, <2>1, <2>2 DEF CancelTask, ControlTyped
  <2>4. DataTyped' /\ UNCHANGED <<candidate, worker>>
    BY <1>0, <1>4 DEF CancelTask, DataTyped, tables, disk
  <2> QED
    BY <1>0, <2>3, <2>4, RowsKept
<1>5. ASSUME NEW d \in Downloads, DeleteDownload(d) PROVE ClaimInv'
  BY <1>5, DeletionKeepsClaims
<1>6. ASSUME NEW status \in {"missing", "ignored", "marked_downloaded"}, SetUserStatus(status) PROVE ClaimInv'
  <2>1. faults' \in [Kinds -> Nat]
    BY <1>0, <1>6, FaultLeft DEF SetUserStatus, Kinds
  <2>2. DataTyped' /\ ControlTyped' /\ UNCHANGED <<candidate, worker>>
    BY <1>0, <1>6, <2>1 DEF SetUserStatus, DataTyped, ControlTyped, control, disk
  <2> QED
    BY <1>0, <2>2, RowsKept
<1> QED
  BY <1>1, <1>2, <1>3, <1>4, <1>5, <1>6 DEF Requests

LEMMA BeginsKeepClaims == ASSUME ClaimInv, NEW c \in Candidates, Begins(c) PROVE ClaimInv'
<1>0. /\ Types /\ DataTyped /\ ControlTyped /\ worker \in [Candidates -> Worker]
      /\ candidate[c] \in CandidateRow /\ RowInv(c)
  BY DEF ClaimInv, Types
<1>r. RowFits(candidate[c].status, candidate[c].stage, candidate[c].old, candidate[c].download)
  BY <1>0 DEF RowInv, Fits
<1>n. NoTask \in [kind : {"replace", "cleanup", "none"}, of : Candidates \cup {None}, cancelled : BOOLEAN]
  BY DEF NoTask
<1>b. ASSUME NEW pc \in Pcs, NEW by \in {"task", "recovery"}, worker' = [worker EXCEPT ![c] = Busy(pc, by)],
             UNCHANGED <<tables, torrent, disk, control, faults>>,
             PcFits(candidate[c].status, candidate[c].stage, candidate[c].old, pc),
             FailureFits(candidate[c].stage, pc, "")
      PROVE  ClaimInv'
  <2>1. Busy(pc, by) \in Worker /\ Busy(pc, by).pc = pc /\ Busy(pc, by).stage = ""
    BY BusyWorker
  <2>2. worker' \in [Candidates -> Worker] /\ worker'[c] = Busy(pc, by)
        /\ \A d \in Candidates \ {c} : worker'[d] = worker[d]
    BY <1>0, <1>b, <2>1
  <2>3. DataTyped' /\ ControlTyped' /\ candidate' = candidate
    BY <1>0, <1>b DEF DataTyped, ControlTyped, tables, disk, control
  <2>4. \A d \in Candidates : \/ worker'[d] = worker[d]
                              \/ /\ PcFits(candidate[d].status, candidate[d].stage, candidate[d].old, worker'[d].pc)
                                 /\ FailureFits(candidate[d].stage, worker'[d].pc, worker'[d].stage)
    <3> TAKE d \in Candidates
    <3>1. CASE d = c
      BY <1>b, <2>1, <2>2, <3>1
    <3> QED
      BY <2>2, <3>1
  <2> QED
    BY <2>2, <2>3, <2>4, RowsKept
<1>1. ASSUME ContinueReplace(c) PROVE ClaimInv'
  <2>1. worker[c].pc = "free" /\ UNCHANGED <<episode, record, torrent, disk, faults>>
    BY <1>1 DEF ContinueReplace
  <2>2. CASE candidate[c].status = "replacing" /\ Takes(c, AdvanceFrom(candidate[c]), "task")
    <3>1. candidate[c].stage # "done"
      BY <1>r, <2>2 DEF RowFits
    <3> QED
      BY <1>0, <1>r, <1>b, <2>1, <2>2, <3>1, AdvanceFits DEF Takes, tables
  <2>3. CASE /\ candidate' = [candidate EXCEPT ![c] =
                  IF task.cancelled /\ @.status = "replacing" /\ @.stage = "queued"
                  THEN [@ EXCEPT !.status = "failed", !.stage = ""] ELSE @]
             /\ task' = NoTask
             /\ UNCHANGED <<worker, recovery, stopping, deleting, taken>>
    <3>1. DataTyped'
      BY <1>0, <2>1 DEF DataTyped, disk
    <3>2. CASE task.cancelled /\ candidate[c].status = "replacing" /\ candidate[c].stage = "queued"
      <4>1. Save(c, [candidate[c] EXCEPT !.status = "failed", !.stage = ""])
        BY <2>3, <3>2 DEF Save
      <4>2. Saved(c, "failed", "", candidate[c].old, candidate[c].download, candidate[c].filed)
        BY <1>0, <4>1, StatusSaved DEF Statuses, Stages
      <4>3. RowFits("failed", "", candidate[c].old, candidate[c].download)
        BY <1>r, <3>2 DEF RowFits
      <4> QED
        BY <1>0, <1>n, <2>1, <2>3, <3>1, <4>2, <4>3, ClaimKeeps DEF ControlTyped
    <3>3. CASE ~(task.cancelled /\ candidate[c].status = "replacing" /\ candidate[c].stage = "queued")
      <4>1. candidate' = candidate
        BY <1>0, <2>3, <3>3 DEF Types
      <4> QED
        BY <1>0, <1>n, <2>1, <2>3, <3>1, <4>1, RowsKept DEF ControlTyped
    <3> QED
      BY <3>2, <3>3
  <2> QED
    BY <1>1, <2>2, <2>3 DEF ContinueReplace
<1>2. ASSUME ContinueRetryCleanup(c) PROVE ClaimInv'
  <2>1. worker[c].pc = "free" /\ UNCHANGED <<episode, record, torrent, disk, faults>>
    BY <1>2 DEF ContinueRetryCleanup
  <2>0. DataTyped'
    BY <1>0, <2>1 DEF DataTyped, disk
  <2>2. candidate[c].stage = "cleanup_queued" => candidate[c].status = "accepted_cleanup_failed"
    BY <1>0, <1>r, RowFields DEF RowFits, Statuses
  <2>3. CASE candidate[c].stage = "cleanup_queued" /\ Takes(c, "claimed", "task")
    <3>1. PcFits(candidate[c].status, candidate[c].stage, candidate[c].old, "claimed")
          /\ FailureFits(candidate[c].stage, "claimed", "") /\ "claimed" \in Pcs
      BY <2>2, <2>3 DEF PcFits, FailureFits, Pcs, DownloadPcs, FilePcs, CleanupPcs, TerminalPcs
    <3> QED
      BY <1>b, <2>1, <2>3, <3>1 DEF Takes, tables
  <2>4. CASE /\ candidate[c].stage = "cleanup_queued" /\ Stage(c, "cleaning") /\ task' = NoTask
             /\ UNCHANGED <<worker, recovery, stopping, deleting, taken>>
    <3>1. Saved(c, candidate[c].status, "cleaning", candidate[c].old, candidate[c].download, candidate[c].filed)
      BY <1>0, <2>4, StageRow DEF Stages
    <3>2. RowFits(candidate[c].status, "cleaning", candidate[c].old, candidate[c].download)
      BY <2>2, <2>4 DEF RowFits
    <3> QED
      BY <1>0, <1>n, <2>0, <2>1, <2>2, <2>4, <3>1, <3>2, ClaimKeeps DEF ControlTyped
  <2>5. CASE UNCHANGED candidate /\ task' = NoTask /\ UNCHANGED <<worker, recovery, stopping, deleting, taken>>
    BY <1>0, <1>n, <2>0, <2>1, <2>5, RowsKept DEF ControlTyped
  <2> QED
    BY <1>2, <2>3, <2>4, <2>5 DEF ContinueRetryCleanup
<1>3. ASSUME Recover(c) PROVE ClaimInv'
  <2>1. worker[c].pc = "free" /\ UNCHANGED <<tables, torrent, disk, faults>>
    BY <1>3 DEF Recover
  <2>2. CASE /\ candidate[c].stage # "done" /\ UNCHANGED control
             /\ worker' = [worker EXCEPT ![c] = Busy(AdvanceFrom(candidate[c]), "recovery")]
    BY <1>0, <1>r, <1>b, <2>1, <2>2, AdvanceFits
  <2>3. CASE recovery' = [recovery EXCEPT !.left = @ \ {c}] /\ UNCHANGED <<worker, task, stopping, deleting, taken>>
    <3>1. recovery' \in Recoveries
      BY <1>0, <2>3 DEF ControlTyped, Recoveries
    <3>2. DataTyped' /\ ControlTyped' /\ candidate' = candidate
      BY <1>0, <2>1, <2>3, <3>1 DEF DataTyped, ControlTyped, tables, disk
    <3> QED
      BY <1>0, <2>3, <3>2, RowsKept
  <2> QED
    BY <1>3, <2>2, <2>3 DEF Recover
<1> QED
  BY <1>1, <1>2, <1>3 DEF Begins

LEMMA StepKeepsClaims == ASSUME ClaimInv, [Next]_replacementVars PROVE ClaimInv'
<1>0. /\ Types /\ DataTyped /\ ControlTyped /\ worker \in [Candidates -> Worker]
  BY DEF ClaimInv, Types
<1>n. NoTask \in [kind : {"replace", "cleanup", "none"}, of : Candidates \cup {None}, cancelled : BOOLEAN]
  BY DEF NoTask
<1>1. ASSUME NEW c \in Candidates, Works(c) PROVE ClaimInv'
  BY <1>1, BeginsKeepClaims, DownloadKeepsClaims, FilesKeepClaims, CleanupKeepsClaims DEF Works
<1>2. ASSUME NEW c \in Candidates, TorrentRuns(c) PROVE ClaimInv'
  <2>1. faults' \in [Kinds -> Nat]
    BY <1>0, <1>2, FaultLeft DEF TorrentRuns, Kinds, ControlTyped
  <2>2. torrent' \in [Downloads -> {"none", "downloading", "complete", "error", "paused", "seeding"}]
    BY <1>0, <1>2 DEF TorrentRuns, DataTyped
  <2>3. staging' \in [Candidates -> SUBSET {"payload", "file"}]
    <3> DEFINE files == staging[c] \cup {"payload"}
    <3>1. staging \in [Candidates -> SUBSET {"payload", "file"}] /\ files \in SUBSET {"payload", "file"}
      BY <1>0 DEF DataTyped
    <3>2. staging' = staging \/ staging' = [staging EXCEPT ![c] = files]
      BY <1>2 DEF TorrentRuns
    <3> HIDE DEF files
    <3> QED
      BY <1>0, <3>1, <3>2, StagingTyped
  <2>4. DataTyped' /\ ControlTyped' /\ UNCHANGED <<candidate, worker>>
    BY <1>0, <1>2, <2>1, <2>2, <2>3 DEF TorrentRuns, DataTyped, ControlTyped, tables, control
  <2> QED
    BY <1>0, <2>4, RowsKept
<1>3. ASSUME TaskGivesUp PROVE ClaimInv'
  <2>1. DataTyped' /\ ControlTyped' /\ UNCHANGED <<candidate, worker>>
    BY <1>0, <1>n, <1>3 DEF TaskGivesUp, DataTyped, ControlTyped, tables, disk
  <2> QED
    BY <1>0, <2>1, RowsKept
<1>4. ASSUME ListIncompleteReplacements PROVE ClaimInv'
  <2>1. recovery' \in Recoveries
    BY <1>4 DEF ListIncompleteReplacements, Recoveries
  <2>2. DataTyped' /\ ControlTyped' /\ UNCHANGED <<candidate, worker>>
    BY <1>0, <1>4, <2>1 DEF ListIncompleteReplacements, DataTyped, ControlTyped, tables, disk
  <2> QED
    BY <1>0, <2>2, RowsKept
<1>5. ASSUME Shutdown PROVE ClaimInv'
  <2>1. faults' \in [Kinds -> Nat]
    BY <1>0, <1>5, FaultLeft DEF Shutdown, Kinds
  <2>2. DataTyped' /\ ControlTyped' /\ UNCHANGED <<candidate, worker>>
    BY <1>0, <1>5, <2>1 DEF Shutdown, DataTyped, ControlTyped, tables, disk
  <2> QED
    BY <1>0, <2>2, RowsKept
<1>6. ASSUME Restart PROVE ClaimInv'
  <2>1. faults' \in [Kinds -> Nat]
    BY <1>0, <1>6, FaultLeft DEF Restart, Kinds, ControlTyped
  <2>2. recovery' \in Recoveries /\ task' = NoTask /\ stopping' = FALSE
    BY <1>6 DEF Restart, Recoveries
  <2>3. DataTyped' /\ ControlTyped' /\ candidate' = candidate
    BY <1>0, <1>n, <1>6, <2>1, <2>2 DEF Restart, DataTyped, ControlTyped, tables, disk
  <2>4. worker' = [c \in Candidates |-> Free]
    BY <1>6 DEF Restart
  <2> QED
    BY <2>3, <2>4, RowsKept, FreeWorker, FreeFits
<1>7. ASSUME UNCHANGED replacementVars PROVE ClaimInv'
  <2>1. DataTyped' /\ ControlTyped' /\ UNCHANGED <<candidate, worker>>
    BY <1>0, <1>7 DEF replacementVars, DataTyped, ControlTyped, tables, disk, control
  <2> QED
    BY <1>0, <2>1, RowsKept
<1>8. \A d \in Deletable : d \in Downloads
  OBVIOUS
<1>9. ASSUME Requests PROVE ClaimInv'
  BY <1>9, RequestsKeepClaims
<1> QED
  BY <1>1, <1>2, <1>3, <1>4, <1>5, <1>6, <1>7, <1>9 DEF Next

LEMMA InitClaims == Init => ClaimInv
<1> SUFFICES ASSUME Init PROVE ClaimInv
  OBVIOUS
<1>1. faults \in [Kinds -> Nat]
  BY DEF Init
<1>2. episode \in [status : {"missing", "ignored", "marked_downloaded", "downloaded"}, active : Downloads \cup {None}]
      /\ place \in Downloads \cup {None}
  <2>1. Old \in Downloads
    BY DEF Downloads
  <2>2. \/ episode = [status |-> "downloaded", active |-> Old] /\ place = Old
        \/ episode = [status |-> "marked_downloaded", active |-> None] /\ place = None
    BY DEF Init
  <2> QED
    BY <2>1, <2>2
<1>3. record \in [Downloads -> DownloadRow \cup {None}]
  <2> DEFINE owned == [status |-> "completed", hash |-> TRUE, owned |-> FALSE, filed |-> TRUE]
  <2>1. owned \in DownloadRow
    BY DEF DownloadRow
  <2>2. \/ record = [d \in Downloads |-> IF d = Old THEN owned ELSE None]
        \/ record = [d \in Downloads |-> None]
    BY DEF Init
  <2> HIDE DEF owned
  <2> QED
    BY <2>1, <2>2
<1>4. torrent \in [Downloads -> {"none", "downloading", "complete", "error", "paused", "seeding"}]
  BY DEF Init
<1>5. staging \in [Candidates -> SUBSET {"payload", "file"}] /\ rollback \in [Candidates -> Downloads \cup {None}]
  BY DEF Init
<1>6. ControlTyped
  BY <1>1 DEF Init, ControlTyped, NoTask, Recoveries
<1>7. candidate \in [Candidates -> CandidateRow]
      /\ \A c \in Candidates : /\ candidate[c].status = "pending" /\ candidate[c].stage = "" /\ ~candidate[c].download
  BY DEF Init, CandidateRow, Statuses, Stages
<1>8. worker \in [Candidates -> Worker] /\ \A c \in Candidates : worker[c] = Free
  BY FreeWorker DEF Init
<1>9. Types /\ OneReplacing
  BY <1>2, <1>3, <1>4, <1>5, <1>6, <1>7, <1>8 DEF Types, DataTyped, OneReplacing, Replacing
<1>10. ASSUME NEW c \in Candidates PROVE RowInv(c)
  <2>1. RowFits(candidate[c].status, candidate[c].stage, candidate[c].old, candidate[c].download)
    BY <1>7 DEF RowFits
  <2>2. worker[c].pc = "free" /\ worker[c].stage = ""
    BY <1>8, FreeWorker
  <2>3. /\ PcFits(candidate[c].status, candidate[c].stage, candidate[c].old, "free")
        /\ FailureFits(candidate[c].stage, "free", "")
    BY FreeFits
  <2> QED
    BY <2>1, <2>2, <2>3 DEF RowInv, Fits
<1> QED
  BY <1>9, <1>10 DEF ClaimInv

(* Whatever happens, at most one candidate of the episode is being         *)
(* replaced, and the stage of every row is one from which advance goes on  *)
(* where the files stand.                                                  *)
THEOREM ClaimsHold == Spec => []ClaimInv
BY InitClaims, StepKeepsClaims, PTL DEF Spec

(* Every row, torrent, file and worker stays of its type.                  *)
THEOREM ReplacementTyped == Spec => []ReplacementTypeOK
<1>1. ClaimInv => ReplacementTypeOK
  BY DEF ClaimInv, Types, DataTyped, ControlTyped, Recoveries, ReplacementTypeOK
<1> QED
  BY <1>1, ClaimsHold, PTL

-----------------------------------------------------------------------------
(* A step of the holder of a lock leaves the other candidates alone.       *)
LEMMA DownloadOthers ==
  ASSUME Types, NEW c \in Candidates, NEW d \in Candidates \ {c}, DownloadsToStage(c)
  PROVE  /\ candidate'[d] = candidate[d] /\ worker'[d] = worker[d] /\ rollback'[d] = rollback[d]
         /\ staging'[d] = staging[d] /\ torrent'[d] = torrent[d]
<1>1. candidate'[d] = candidate[d]
  BY DEF Types, DownloadsToStage, StartDownload, StartCancelled, CheckpointDownload, CheckpointFails, HandOver, SaveOwnership,
         HandOverFails, WaitForCompletion, WaitFails, SaveFilePaths, RenameStaged, StagingFails, DetachCheckpoint,
         Detach, DetachFails, MarkStaged, MarkCompleted, ToStaged, DeletePayload, Disown, DeletePayloadFails, Discard,
         DownloadSaveRefused, Refused, Save, Stage, tables
<1>2. worker'[d] = worker[d]
  BY DEF Types, DownloadsToStage, StartDownload, StartCancelled, CheckpointDownload, CheckpointFails, HandOver, SaveOwnership,
         HandOverFails, WaitForCompletion, WaitFails, SaveFilePaths, RenameStaged, StagingFails, DetachCheckpoint,
         Detach, DetachFails, MarkStaged, MarkCompleted, ToStaged, DeletePayload, Disown, DeletePayloadFails, Discard,
         DownloadSaveRefused, Refused, Goes, Ends
<1>3. rollback' = rollback /\ staging'[d] = staging[d] /\ torrent'[d] = torrent[d]
  BY DEF Types, DataTyped, DownloadsToStage, StartDownload, StartCancelled, CheckpointDownload, CheckpointFails, HandOver, SaveOwnership,
         HandOverFails, WaitForCompletion, WaitFails, SaveFilePaths, RenameStaged, StagingFails, DetachCheckpoint,
         Detach, DetachFails, MarkStaged, MarkCompleted, ToStaged, DeletePayload, Disown, DeletePayloadFails, Discard,
         DownloadSaveRefused, Refused, disk, Downloads
<1> QED
  BY <1>1, <1>2, <1>3

LEMMA FilesOthers ==
  ASSUME Types, NEW c \in Candidates, NEW d \in Candidates \ {c}, ExchangesFiles(c)
  PROVE  /\ candidate'[d] = candidate[d] /\ worker'[d] = worker[d] /\ rollback'[d] = rollback[d]
         /\ staging'[d] = staging[d]
<1>1. candidate'[d] = candidate[d]
  BY DEF Types, ExchangesFiles, PauseOld, PauseFails, BackUp, SaveBackUp, Promote, PromotedBefore, PromoteFails,
         SavePromoted, Switch, SwitchFails, Unpromote, UnbackUp, Restore, ResumeOld, SaveCompensation, RecordFailure,
         RemoveOwnTorrent, RemoveStaged, DiscardDownload, Failed, TerminalFails, FilesSaveRefused, Refused,
         Save, Stage, tables
<1>2. worker'[d] = worker[d]
  BY DEF Types, ExchangesFiles, PauseOld, PauseFails, BackUp, SaveBackUp, Promote, PromotedBefore, PromoteFails,
         SavePromoted, Switch, SwitchFails, Unpromote, UnbackUp, Restore, ResumeOld, SaveCompensation, RecordFailure,
         RemoveOwnTorrent, RemoveStaged, DiscardDownload, Failed, TerminalFails, FilesSaveRefused, Refused,
         Goes, Ends
<1>3. rollback'[d] = rollback[d] /\ staging'[d] = staging[d]
  BY DEF Types, DataTyped, ExchangesFiles, PauseOld, PauseFails, BackUp, SaveBackUp, Promote, PromotedBefore, PromoteFails,
         SavePromoted, Switch, SwitchFails, Unpromote, UnbackUp, Restore, ResumeOld, SaveCompensation, RecordFailure,
         RemoveOwnTorrent, RemoveStaged, DiscardDownload, Failed, TerminalFails, FilesSaveRefused, Refused,
         MoveBack, disk
<1> QED
  BY <1>1, <1>2, <1>3

LEMMA CleanupOthers ==
  ASSUME Types, NEW c \in Candidates, NEW d \in Candidates \ {c}, CleansUp(c)
  PROVE  /\ candidate'[d] = candidate[d] /\ worker'[d] = worker[d] /\ rollback'[d] = rollback[d]
         /\ staging' = staging
BY DEF Types, DataTyped, CleansUp, ClaimCleanup, BeginCleanup, RemoveOldTorrent, RemoveRollback, RemoveOldRecord,
       FinishCleanup, CleanupFails, CleanupSaveRefused, Refused, Goes, Ends, Save, Stage, disk, tables

LEMMA BeginsOthers ==
  ASSUME Types, NEW c \in Candidates, NEW d \in Candidates \ {c}, Begins(c)
  PROVE  candidate'[d] = candidate[d] /\ worker'[d] = worker[d]
BY DEF Types, Begins, ContinueReplace, ContinueRetryCleanup, Recover, Takes, Stage, Save, tables

(* An accepted candidate is not worked on but for the cleanup.             *)
LEMMA AcceptedAt ==
  ASSUME ClaimInv, NEW c \in Candidates, Accepted(c) PROVE worker[c].pc \in {"free"} \cup CleanupPcs
<1>1. RowInv(c) /\ worker[c].pc \in Pcs
  BY WorkerFields DEF ClaimInv, Types
<1> QED
  BY <1>1 DEF RowInv, Fits, PcFits, Accepted, Pcs, DownloadPcs, FilePcs

LEMMA DownloadsAt == ASSUME NEW c, DownloadsToStage(c) PROVE worker[c].pc \in DownloadPcs
BY DEF DownloadsToStage, StartDownload, StartCancelled, CheckpointDownload, CheckpointFails, HandOver, SaveOwnership,
       HandOverFails, WaitForCompletion, WaitFails, SaveFilePaths, RenameStaged, StagingFails, DetachCheckpoint,
       Detach, DetachFails, MarkStaged, MarkCompleted, ToStaged, DeletePayload, Disown, DeletePayloadFails, Discard,
       DownloadSaveRefused, DownloadPcs

LEMMA ExchangesAt == ASSUME NEW c, ExchangesFiles(c) PROVE worker[c].pc \in FilePcs
BY DEF ExchangesFiles, PauseOld, PauseFails, BackUp, SaveBackUp, Promote, PromotedBefore, PromoteFails,
       SavePromoted, Switch, SwitchFails, Unpromote, UnbackUp, Restore, ResumeOld, SaveCompensation, RecordFailure,
       RemoveOwnTorrent, RemoveStaged, DiscardDownload, Failed, TerminalFails, FilesSaveRefused, FilePcs, TerminalPcs

(* The cleanup keeps its candidate accepted.                               *)
LEMMA CleanupAccepted ==
  ASSUME ClaimInv, NEW c \in Candidates, CleansUp(c) PROVE Accepted(c) /\ Accepted(c)'
<1>0. Types /\ RowInv(c) /\ candidate[c] \in CandidateRow /\ candidate \in [Candidates -> CandidateRow]
  BY DEF ClaimInv, Types
<1>1. worker[c].pc \in CleanupPcs
  BY DEF CleansUp, ClaimCleanup, BeginCleanup, RemoveOldTorrent, RemoveRollback, RemoveOldRecord,
         FinishCleanup, CleanupFails, CleanupSaveRefused, CleanupPcs
<1>2. candidate[c].status = "accepted_cleanup_failed"
  BY <1>0, <1>1 DEF RowInv, Fits, PcFits
<1>3. \/ candidate' = candidate
      \/ \E stage \in Stages : Stage(c, stage)
      \/ Save(c, [candidate[c] EXCEPT !.status = "accepted", !.stage = "done"])
  BY DEF CleansUp, ClaimCleanup, BeginCleanup, RemoveOldTorrent, RemoveRollback, RemoveOldRecord, tables,
         FinishCleanup, CleanupFails, CleanupSaveRefused, Refused, Stages
<1>4. candidate'[c].status \in {"accepted", "accepted_cleanup_failed"}
  <2>1. ASSUME NEW stage \in Stages, Stage(c, stage) PROVE candidate'[c].status = candidate[c].status
    BY <1>0, <2>1, StageRow DEF Saved
  <2>2. ASSUME Save(c, [candidate[c] EXCEPT !.status = "accepted", !.stage = "done"])
        PROVE  candidate'[c].status = "accepted"
    BY <1>0, <2>2, StatusSaved DEF Saved, Statuses, Stages
  <2> QED
    BY <1>2, <1>3, <2>1, <2>2
<1> QED
  BY <1>2, <1>4 DEF Accepted

(* A request or the begin of the work changes the row of no accepted       *)
(* candidate but its stage.                                                *)
LEMMA StaysAccepted ==
  ASSUME ClaimInv, [Next]_replacementVars, NEW d \in Candidates, Accepted(d) PROVE Accepted(d)'
<1>0. Types /\ candidate \in [Candidates -> CandidateRow] /\ candidate[d] \in CandidateRow
  BY DEF ClaimInv, Types
<1>p. worker[d].pc \in {"free"} \cup CleanupPcs
  BY AcceptedAt
<1>s. ASSUME NEW stage \in Stages, Stage(d, stage) PROVE Accepted(d)'
  BY <1>0, <1>s, StageRow DEF Saved, Accepted
<1>1. ASSUME NEW c \in Candidates, DownloadsToStage(c) PROVE Accepted(d)'
  BY <1>0, <1>p, <1>1, DownloadsAt, DownloadOthers DEF Accepted, DownloadPcs, CleanupPcs
<1>2. ASSUME NEW c \in Candidates, ExchangesFiles(c) PROVE Accepted(d)'
  BY <1>0, <1>p, <1>2, ExchangesAt, FilesOthers DEF Accepted, FilePcs, TerminalPcs, CleanupPcs
<1>3. ASSUME NEW c \in Candidates, CleansUp(c) PROVE Accepted(d)'
  BY <1>0, <1>3, CleanupAccepted, CleanupOthers DEF Accepted
<1>4. ASSUME NEW c \in Candidates, Begins(c) PROVE Accepted(d)'
  <2>1. CASE c # d
    BY <1>0, <1>4, <2>1, BeginsOthers DEF Accepted
  <2>2. CASE c = d
    <3>1. candidate' = candidate \/ Stage(d, "cleaning")
      BY <1>0, <1>4, <2>2 DEF Begins, ContinueReplace, ContinueRetryCleanup, Recover, Takes, Accepted, tables
    <3> QED
      BY <1>s, <3>1 DEF Accepted, Stages
  <2> QED
    BY <2>1, <2>2
<1>5. ASSUME Requests PROVE Accepted(d)'
  <2>1. \/ candidate'[d] = candidate[d]
        \/ Stage(d, "cleanup_queued")
    BY <1>0, <1>5 DEF Requests, PrepareReplace, Claimable, PrepareRetryCleanup, KeepCandidate, CancelTask, DeleteDownload,
           RequestDelete, DeleteTorrentWithPayload, DeleteRow, SetUserStatus, Requested, Save, Stage, tables, Accepted
  <2> QED
    BY <1>s, <2>1 DEF Accepted, Stages
<1>6. ASSUME \/ \E c \in Candidates : TorrentRuns(c)
             \/ TaskGivesUp \/ ListIncompleteReplacements \/ Shutdown \/ Restart \/ UNCHANGED replacementVars
      PROVE Accepted(d)'
  BY <1>6 DEF TorrentRuns, TaskGivesUp, ListIncompleteReplacements, Shutdown, Restart, replacementVars, tables, Accepted
<1> QED
  BY <1>1, <1>2, <1>3, <1>4, <1>5, <1>6 DEF Next, Works

(* After the switch of the ledger a replacement is never taken back: no    *)
(* failure, cancelled task, crash or recovery makes an accepted candidate  *)
(* anything else.                                                          *)
THEOREM AcceptanceIsFinal == Spec => NeverRolledBack
<1>1. ClaimInv /\ [Next]_replacementVars =>
        [\A c \in Candidates :
           candidate[c].status \in {"accepted", "accepted_cleanup_failed"} =>
             candidate'[c].status \in {"accepted", "accepted_cleanup_failed"}]_replacementVars
  BY StaysAccepted DEF Accepted
<1> QED
  BY <1>1, ClaimsHold, PTL DEF Spec, NeverRolledBack

-----------------------------------------------------------------------------
(* The files.  While a candidate is replaced, its row, its place in the    *)
(* work and the files fit each other; when it is not, all it may have is   *)
(* the file of an earlier resource at its rollback path.                   *)

(* A resource that was the current one.                                    *)
Owned(d) == d = Old \/ (d \in Candidates /\ Accepted(d))

InFiles(c) == candidate[c].stage \in {"staged", "old_backed_up", "promoted"}

(* The file to back up is that of the current resource.                    *)
OldIsCurrent(c) == candidate[c].stage # "queued" => episode.active \in {None, candidate[c].old}

(* Nobody but the process has the staged file.                             *)
Detached(c) ==
  /\ InFiles(c) \/ worker[c].pc \in {"mark_staged", "mark_completed", "to_staged"} => torrent[c] = "none"
  /\ candidate[c].stage = "detaching" \/ worker[c].pc \in {"detach_point", "recovered_point"} =>
       "file" \in staging[c]

(* The new file is at the final path, or was until a deletion took it.     *)
InPlace(c) == place = c \/ (place = None /\ c \in taken)

(* Where the new file is.                                                  *)
NewFile(c) ==
  /\ candidate[c].stage \in {"staged", "old_backed_up"} =>
       "file" \in staging[c] \/ place = c \/ (place = None /\ rollback[c] = c) \/ c \in taken
  /\ candidate[c].stage = "promoted" =>
       \/ InPlace(c)
       \/ "file" \in staging[c] /\ place = None /\ candidate[c].old # None /\ episode.active = None
       \/ ("file" \in staging[c] \/ c \in taken) /\ worker[c].pc \in Undoing /\ worker[c].new

(* What the holder of the lock has moved so far.                           *)
Moved(c) ==
  /\ worker[c].pc \in {"promote_save", "promoted_save"} => InPlace(c)
  /\ worker[c].pc = "unpromote" => InPlace(c) \/ (place = None /\ candidate[c].stage = "promoted")
  /\ ~worker[c].new => worker[c].pc \in {"unbackup", "unresume", "compensated"} /\ InPlace(c)
  /\ worker[c].pc = "unbackup" /\ worker[c].new => place = None
  /\ worker[c].pc = "backup" => rollback[c] = None
  /\ \/ worker[c].pc = "unresume" /\ worker[c].new /\ worker[c].restored
     \/ worker[c].pc = "fail" /\ worker[c].stage = "promoted"
     => \/ candidate[c].old = None
        \/ rollback[c] = None /\ (place # None \/ episode.active = None \/ episode.active \in taken)

(* When a file may be at the rollback path.                                *)
SetAside(c) == rollback[c] # None => InFiles(c) /\ candidate[c].old # None

Exchange(c) == OldIsCurrent(c) /\ Detached(c) /\ NewFile(c) /\ Moved(c) /\ SetAside(c)

Idle(c) ==
  /\ worker[c].new
  /\ rollback[c] # None => Accepted(c)

ActiveKept ==
  episode.active # None => Owned(episode.active) /\ record[episode.active] # None

ActiveExists ==
  episode.active # None =>
    \/ place = episode.active \/ \E c \in Candidates : Replacing(c) /\ rollback[c] = episode.active
    \/ episode.active \in taken

FileInv ==
  /\ ClaimInv
  /\ ActiveKept /\ ActiveExists
  /\ \A c \in Candidates : IF Replacing(c) THEN Exchange(c) ELSE Idle(c)

LEMMA StaysOwned ==
  ASSUME ClaimInv, [Next]_replacementVars, NEW d, Owned(d) PROVE Owned(d)'
BY StaysAccepted DEF Owned

(* A step for the candidate that is replaced: the others are idle.         *)
LEMMA FilesKept ==
  ASSUME FileInv, ClaimInv', [Next]_replacementVars, NEW c \in Candidates, Replacing(c),
         \A d \in Candidates \ {c} :
           candidate'[d] = candidate[d] /\ worker'[d] = worker[d] /\ rollback'[d] = rollback[d],
         ActiveKept', ActiveExists',
         IF Replacing(c)' THEN Exchange(c)' ELSE Idle(c)'
  PROVE  FileInv'
<1>0. ClaimInv
  BY DEF FileInv
<1>1. ASSUME NEW d \in Candidates \ {c} PROVE ~Replacing(d)' /\ Idle(d)'
  <2>1. ~Replacing(d)
    BY <1>0, OthersNot
  <2>2. Idle(d)
    BY <2>1 DEF FileInv
  <2>3. ~Replacing(d)'
    BY <2>1 DEF Replacing
  <2> QED
    BY <2>2, <2>3 DEF Idle, Accepted
<1> QED
  BY <1>1 DEF FileInv

(* ... and one that moves no file and leaves the ledger.                   *)
LEMMA QuietKept ==
  ASSUME FileInv, ClaimInv', [Next]_replacementVars, NEW c \in Candidates, Replacing(c), Replacing(c)',
         \A d \in Candidates \ {c} : candidate'[d] = candidate[d] /\ worker'[d] = worker[d],
         UNCHANGED <<episode, place, rollback, taken>>, candidate'[c].old = candidate[c].old,
         \A d \in Downloads \ {c} : record'[d] = record[d],
         Exchange(c)'
  PROVE  FileInv'
<1>0. ClaimInv /\ ActiveKept /\ ActiveExists
  BY DEF FileInv
<1>1. \A d \in Candidates : /\ Replacing(d)' <=> Replacing(d)
                            /\ Accepted(d)' <=> Accepted(d)
                            /\ candidate'[d].old = candidate[d].old
  BY DEF Replacing, Accepted
<1>2. ActiveKept'
  BY <1>0, <1>1 DEF ActiveKept, Owned, Accepted, Replacing, Downloads
<1>3. ActiveExists'
  BY <1>0, <1>1 DEF ActiveExists
<1> QED
  BY <1>2, <1>3, FilesKept

(* A step for a candidate that is not replaced, before and after it.       *)
LEMMA IdleKept ==
  ASSUME FileInv, ClaimInv', [Next]_replacementVars, NEW c \in Candidates, ~Replacing(c), ~Replacing(c)',
         \A d \in Candidates \ {c} :
           /\ candidate'[d] = candidate[d] /\ worker'[d] = worker[d] /\ rollback'[d] = rollback[d]
           /\ staging'[d] = staging[d] /\ torrent'[d] \in {torrent[d], "none"},
         UNCHANGED <<place, taken>>, rollback'[c] \in {rollback[c], None}, worker'[c].new,
         episode'.active \in {None, episode.active},
         episode'.active # None => record'[episode.active] = record[episode.active]
  PROVE  FileInv'
<1>0. ClaimInv /\ ActiveKept /\ ActiveExists /\ Idle(c)
  BY DEF FileInv
<1>1. /\ \A d \in Candidates : Replacing(d)' <=> Replacing(d)
      /\ \A d \in Candidates \ {c} : candidate'[d].old = candidate[d].old
  BY DEF Replacing
<1>a. \A d \in Candidates : Accepted(d) => Accepted(d)'
  BY <1>0, StaysAccepted
<1>o. ASSUME NEW d, Owned(d) PROVE d = Old \/ (d \in Candidates /\ candidate'[d].status \in {"accepted", "accepted_cleanup_failed"})
  BY <1>a, <1>o DEF Owned, Accepted
<1>2. ActiveKept'
  BY <1>0, <1>o DEF ActiveKept, Owned, Accepted
<1>4. ActiveExists'
  BY <1>0, <1>1 DEF ActiveExists
<1>5. Idle(c)'
  <2>1. Accepted(c) => Accepted(c)'
    BY <1>a
  <2> QED
    BY <1>0, <2>1 DEF Idle, Accepted
<1>6. ASSUME NEW d \in Candidates \ {c} PROVE IF Replacing(d)' THEN Exchange(d)' ELSE Idle(d)'
  <2>1. CASE Replacing(d)
    <3>1. Exchange(d)
      BY <2>1 DEF FileInv
    <3>2. OldIsCurrent(d)' /\ Detached(d)' /\ NewFile(d)' /\ Moved(d)'
      BY <3>1 DEF Exchange, OldIsCurrent, Detached, NewFile, Moved, InFiles, InPlace
    <3>3. SetAside(d)'
      BY <3>1 DEF Exchange, SetAside, InFiles
    <3> QED
      BY <1>1, <2>1, <3>2, <3>3 DEF Exchange
  <2>2. CASE ~Replacing(d)
    <3>1. Idle(d)
      BY <2>2 DEF FileInv
    <3> QED
      BY <1>1, <1>o, <2>2, <3>1 DEF Idle, Owned, Accepted
  <2> QED
    BY <2>1, <2>2
<1> QED
  BY <1>1, <1>2, <1>4, <1>5, <1>6 DEF FileInv


(* Accepted candidates stay accepted, in the form in which it is used.     *)
LEMMA OwnedLater ==
  ASSUME ClaimInv, [Next]_replacementVars, NEW e, Owned(e)
  PROVE  e = Old \/ (e \in Candidates /\ candidate'[e].status \in {"accepted", "accepted_cleanup_failed"})
BY StaysAccepted DEF Owned, Accepted

(* A step to a place in the work where nothing has been moved: what is     *)
(* left to show of the files of its candidate.                             *)
LEMMA StandsAt ==
  ASSUME FileInv, [Next]_replacementVars, NEW c \in Candidates, Replacing(c),
         UNCHANGED <<episode, place, rollback, taken>>, NEW stage, NEW pc,
         candidate'[c].stage = stage, candidate'[c].old = candidate[c].old,
         worker'[c].pc = pc, worker'[c].new,
         pc \notin {"promote_save", "promoted_save", "unpromote", "unbackup", "backup", "unresume"},
         pc = "fail" => worker'[c].stage # "promoted",
         candidate[c].stage # "queued" \/ stage = "queued",
         stage \in {"staged", "old_backed_up", "promoted"} \/ pc \in {"mark_staged", "mark_completed", "to_staged"} =>
           torrent'[c] = "none",
         stage = "detaching" \/ pc \in {"detach_point", "recovered_point"} => "file" \in staging'[c],
         InFiles(c) => stage \in {"staged", "old_backed_up", "promoted"},
         stage \in {"staged", "old_backed_up", "promoted"} =>
           \/ /\ \/ candidate[c].stage = stage
                 \/ candidate[c].stage \in {"staged", "old_backed_up"} /\ stage \in {"staged", "old_backed_up"}
              /\ staging'[c] = staging[c] /\ worker[c].pc \notin Undoing
           \/ stage = "staged" /\ "file" \in staging'[c]
  PROVE  Exchange(c)'
<1>0. ClaimInv /\ Exchange(c)
  BY DEF FileInv
<1>1. OldIsCurrent(c)' /\ Detached(c)'
  BY <1>0 DEF Exchange, OldIsCurrent, Detached, InFiles
<1>2. NewFile(c)'
  BY <1>0 DEF Exchange, NewFile, InPlace
<1>3. Moved(c)'
  BY DEF Moved
<1>4. SetAside(c)'
  BY <1>0 DEF Exchange, SetAside, InFiles
<1> QED
  BY <1>1, <1>2, <1>3, <1>4 DEF Exchange

LEMMA DownloadQuiet ==
  ASSUME Types, NEW c \in Candidates, DownloadsToStage(c)
  PROVE  UNCHANGED <<episode, place, rollback, taken>> /\ \A d \in Downloads \ {c} : record'[d] = record[d]
BY DEF Types, DataTyped, DownloadsToStage, StartDownload, StartCancelled, CheckpointDownload, CheckpointFails, HandOver, SaveOwnership,
       HandOverFails, WaitForCompletion, WaitFails, SaveFilePaths, RenameStaged, StagingFails, DetachCheckpoint,
       Detach, DetachFails, MarkStaged, MarkCompleted, ToStaged, DeletePayload, Disown, DeletePayloadFails, Discard,
       DownloadSaveRefused, Refused, Record, disk, tables, Downloads, Goes, Ends, control

(* A step of a download that is not, or no longer, claimed.                *)
LEMMA UnclaimedDownload ==
  ASSUME FileInv, ClaimInv', [Next]_replacementVars, NEW c \in Candidates, ~Replacing(c), DownloadsToStage(c)
  PROVE  FileInv'
<1>0. ClaimInv /\ Types /\ RowInv(c) /\ Idle(c) /\ candidate[c] \in CandidateRow /\ ActiveKept
  BY DEF FileInv, ClaimInv, Types
<1>1. worker[c].pc \in {"start", "checkpoint"}
  BY <1>0, DownloadsAt DEF RowInv, Fits, PcFits, Replacing
<1>r. ~candidate[c].download
  BY <1>0, <1>1, RowFields DEF RowInv, Fits, PcFits, RowFits, Replacing, Statuses
<1>2. StartDownload(c) \/ StartCancelled(c) \/ CheckpointFails(c) \/ DownloadSaveRefused(c)
  BY <1>1 DEF DownloadsToStage, StartDownload, StartCancelled, CheckpointDownload, CheckpointFails, HandOver, SaveOwnership, Replacing,
              HandOverFails, WaitForCompletion, WaitFails, SaveFilePaths, RenameStaged, StagingFails, DetachCheckpoint,
              Detach, DetachFails, MarkStaged, MarkCompleted, ToStaged, DeletePayload, Disown, DeletePayloadFails, Discard,
              CheckpointHolds
<1>3. worker'[c].new
  <2>1. CASE StartDownload(c)
    BY <1>0, <2>1, GoesTurned DEF StartDownload, Turned, Idle, Pcs, DownloadPcs
  <2>2. CASE Ends(c)
    BY <1>0, <2>2, EndsTurned DEF Turned
  <2> QED
    BY <1>r, <1>2, <2>1, <2>2 DEF StartCancelled, CheckpointFails, DownloadSaveRefused, Refused
<1>4. UNCHANGED record
  BY <1>2 DEF StartDownload, StartCancelled, CheckpointFails, DownloadSaveRefused, Refused, tables
<1>5. ~Replacing(c)'
  <2>1. candidate' = candidate \/ (\E stage, old : Save(c, [candidate[c] EXCEPT !.stage = stage, !.old = old]))
    BY <1>2 DEF StartDownload, StartCancelled, CheckpointFails, DownloadSaveRefused, Refused, tables, Replacing
  <2> QED
    BY <1>0, <2>1 DEF Replacing, Save, Types, CandidateRow
<1> QED
  BY <1>0, <1>3, <1>4, <1>5, DownloadOthers, DownloadQuiet, IdleKept


(* A step of the download of the candidate that is replaced.               *)
LEMMA ClaimedDownload ==
  ASSUME FileInv, ClaimInv', [Next]_replacementVars, NEW c \in Candidates, Replacing(c), DownloadsToStage(c)
  PROVE  FileInv'
<1> USE DEF Pcs, DownloadPcs, Stages
<1>0. /\ ClaimInv /\ Types /\ RowInv(c) /\ Exchange(c) /\ RowInv(c)' /\ ActiveKept /\ ActiveExists
      /\ candidate[c] \in CandidateRow /\ worker[c] \in Worker
      /\ torrent \in [Downloads -> {"none", "downloading", "complete", "error", "paused", "seeding"}]
      /\ staging \in [Candidates -> SUBSET {"payload", "file"}] /\ c \in Downloads
  BY DEF FileInv, ClaimInv, Types, DataTyped, Downloads
<1>p. /\ PcFits(candidate[c].status, candidate[c].stage, candidate[c].old, worker[c].pc)
      /\ RowFits(candidate[c].status, candidate[c].stage, candidate[c].old, candidate[c].download)
      /\ candidate[c].status = "replacing"
  BY <1>0 DEF RowInv, Fits, Replacing
<1>n. worker[c].new
  <2>1. worker[c].pc \in DownloadPcs
    BY DownloadsAt
  <2> QED
    BY <1>0, <2>1 DEF Exchange, Moved, Worker
<1>q. /\ UNCHANGED <<episode, place, rollback, taken>> /\ \A d \in Downloads \ {c} : record'[d] = record[d]
      /\ \A d \in Candidates \ {c} : candidate'[d] = candidate[d] /\ worker'[d] = worker[d] /\ rollback'[d] = rollback[d]
  BY <1>0, DownloadQuiet, DownloadOthers
<1>e. ASSUME Ends(c) PROVE worker'[c].pc = "free" /\ worker'[c].new /\ worker'[c].stage = ""
  BY <1>0, <1>e, EndsTurned DEF Turned
<1>g. ASSUME NEW pc \in Pcs, Goes(c, pc) PROVE worker'[c].pc = pc /\ worker'[c].new /\ worker'[c].stage = worker[c].stage
  BY <1>0, <1>n, <1>g, GoesTurned DEF Turned
<1>w. ASSUME NEW stage \in {"downloading", "download_cleanup"}, candidate[c].stage \in {"downloading", "download_cleanup"},
             candidate'[c].status = "replacing", candidate'[c].stage = stage, candidate'[c].old = candidate[c].old,
             \/ Ends(c)
             \/ \E pc \in {"checkpoint", "hand_over", "own", "wait", "file_paths", "rename", "dl_failed", "disown", "discard", "fail"} :
               Goes(c, pc)
      PROVE  FileInv'
  <2>1. worker'[c].new /\ worker'[c].pc \in {"free", "checkpoint", "hand_over", "own", "wait", "file_paths", "rename",
                                             "dl_failed", "disown", "discard", "fail"}
    BY <1>e, <1>g, <1>w DEF FilePcs
  <2>2. worker'[c].pc = "fail" => worker'[c].stage # "promoted"
    BY <1>0, <1>w DEF RowInv, Fits, FailureFits
  <2>3. Exchange(c)'
    BY <1>q, <1>w, <2>1, <2>2, StandsAt DEF InFiles
  <2> QED
    BY <1>q, <1>w, <2>3, QuietKept DEF Replacing
<1>1. ASSUME StartDownload(c) PROVE FileInv'
  <2> DEFINE old == IF candidate[c].old # None THEN candidate[c].old ELSE episode.active
             kept == IF old # None /\ record[old] # None THEN old ELSE candidate[c].old
  <2>1. kept \in Downloads \cup {None} /\ candidate[c].stage \in {"queued", "downloading"}
    BY <1>0, <1>1, <1>p, RowFields DEF Types, DataTyped, StartDownload, PcFits, RowFits
  <2>2. Save(c, [candidate[c] EXCEPT !.stage = "downloading", !.old = kept])
    BY <1>1 DEF StartDownload
  <2>a. /\ episode.active \in {None, kept} /\ (episode.active = None => kept = candidate[c].old)
        /\ rollback[c] = None
    BY <1>0, <1>p, <2>1 DEF Exchange, OldIsCurrent, SetAside, InFiles, RowFits, ActiveKept
  <2> HIDE DEF kept
  <2>3. /\ candidate'[c].status = "replacing" /\ candidate'[c].stage = "downloading" /\ candidate'[c].old = kept
    BY <1>0, <1>p, <2>1, <2>2, OldSaved DEF Saved
  <2>4. worker'[c].pc = "checkpoint" /\ worker'[c].new
    BY <1>1, <1>g DEF StartDownload
  <2>5. Exchange(c)'
    BY <1>q, <2>3, <2>4, <2>a DEF Exchange, OldIsCurrent, Detached, NewFile, Moved, SetAside, InFiles
  <2>6. \A d \in Candidates : (Replacing(d)' <=> Replacing(d)) /\ (Accepted(d)' <=> Accepted(d))
    BY <1>p, <1>q, <2>3 DEF Replacing, Accepted
  <2>7. ActiveKept'
    BY <1>0, <1>1, <1>q, <2>6 DEF ActiveKept, Owned, StartDownload, Accepted
  <2>8. ActiveExists'
    BY <1>0, <1>q, <2>6 DEF ActiveExists
  <2> QED
    BY <1>q, <2>3, <2>5, <2>7, <2>8, FilesKept DEF Replacing
<1>2. ASSUME StartCancelled(c) PROVE FileInv'
  <2>1. candidate[c].stage \in {"queued", "downloading"}
    BY <1>2, <1>p DEF StartCancelled, PcFits, RowFits
  <2>2. CASE UNCHANGED candidate
    <3>1. Exchange(c)'
      BY <1>2, <1>e, <1>q, <2>1, <2>2, StandsAt DEF StartCancelled, InFiles
    <3> QED
      BY <1>q, <2>2, <3>1, QuietKept DEF Replacing
  <2>3. CASE Save(c, [candidate[c] EXCEPT !.status = "failed", !.stage = ""])
    <3>1. candidate'[c].status = "failed" /\ candidate'[c].old = candidate[c].old
      BY <1>0, <2>3, StatusSaved DEF Saved, Statuses
    <3>2. rollback[c] = None
      BY <1>0, <2>1 DEF Exchange, SetAside, InFiles
    <3>3. Idle(c)' /\ ~Replacing(c)'
      BY <1>2, <1>e, <1>q, <3>1, <3>2 DEF StartCancelled, Idle, Replacing
    <3>4. \A d \in Candidates \ {c} : Replacing(d)' <=> Replacing(d)
      BY <1>q DEF Replacing
    <3>5. \A d \in Candidates : Accepted(d)' <=> Accepted(d)
      BY <1>p, <1>q, <3>1 DEF Accepted
    <3>6. ActiveKept'
      BY <1>0, <1>2, <1>q, <3>5 DEF ActiveKept, Owned, StartCancelled, Accepted
    <3>7. ActiveExists'
      BY <1>0, <1>q, <3>2, <3>3, <3>4 DEF ActiveExists
    <3> QED
      BY <1>q, <3>3, <3>6, <3>7, FilesKept
  <2> QED
    BY <1>2, <2>2, <2>3 DEF StartCancelled
<1>3. ASSUME \/ CheckpointDownload(c) \/ CheckpointFails(c) \/ HandOver(c) \/ SaveOwnership(c) \/ HandOverFails(c)
             \/ (WaitForCompletion(c) /\ ~Recovered(c)) \/ WaitFails(c) \/ SaveFilePaths(c) \/ StagingFails(c)
             \/ DeletePayload(c) \/ Disown(c) \/ DeletePayloadFails(c) \/ Discard(c)
      PROVE  FileInv'
  <2>1. candidate[c].stage \in {"downloading", "download_cleanup"}
    BY <1>3, <1>p DEF PcFits, CheckpointDownload, CheckpointFails, HandOver, SaveOwnership, HandOverFails, WaitForCompletion, WaitFails,
                      SaveFilePaths, StagingFails, DeletePayload, Disown, DeletePayloadFails, Discard
  <2>2. \/ Ends(c)
        \/ \E pc \in {"checkpoint", "hand_over", "own", "wait", "file_paths", "rename", "dl_failed", "disown", "discard", "fail"} :
               Goes(c, pc)
    BY <1>3 DEF CheckpointDownload, CheckpointFails, HandOver, SaveOwnership, HandOverFails, WaitForCompletion, WaitFails,
                SaveFilePaths, StagingFails, DeletePayload, Disown, DeletePayloadFails, Discard
  <2>3. \/ candidate' = candidate
        \/ \E download \in BOOLEAN : Save(c, [candidate[c] EXCEPT !.download = download])
        \/ Save(c, [candidate[c] EXCEPT !.status = "replacing", !.stage = "download_cleanup"])
    BY <1>3 DEF CheckpointDownload, CheckpointFails, HandOver, SaveOwnership, HandOverFails, WaitForCompletion, WaitFails,
                SaveFilePaths, StagingFails, DeletePayload, Disown, DeletePayloadFails, Discard, tables
  <2>4. /\ candidate'[c].status = "replacing" /\ candidate'[c].stage \in {"downloading", "download_cleanup"}
        /\ candidate'[c].old = candidate[c].old
    <3>1. ASSUME NEW download \in BOOLEAN, Save(c, [candidate[c] EXCEPT !.download = download]) PROVE <2>4
      BY <1>0, <1>p, <2>1, <3>1, DownloadSaved DEF Saved
    <3>2. ASSUME Save(c, [candidate[c] EXCEPT !.status = "replacing", !.stage = "download_cleanup"]) PROVE <2>4
      BY <1>0, <3>2, StatusSaved DEF Saved, Statuses
    <3> QED
      BY <1>p, <2>1, <2>3, <3>1, <3>2
  <2> QED
    BY <1>w, <2>1, <2>2, <2>4
<1>4. ASSUME (WaitForCompletion(c) /\ Recovered(c)) \/ RenameStaged(c) PROVE FileInv'
  <2>1. candidate[c].stage = "downloading" /\ candidate' = candidate
    BY <1>4, <1>p DEF WaitForCompletion, RenameStaged, PcFits, tables
  <2>2. "file" \in staging'[c] /\ \E pc \in {"recovered_point", "detach_point"} : Goes(c, pc)
    BY <1>0, <1>4 DEF WaitForCompletion, RenameStaged, Recovered, disk
  <2>3. Exchange(c)'
    BY <1>q, <1>g, <2>1, <2>2, StandsAt DEF InFiles
  <2> QED
    BY <1>q, <2>1, <2>3, QuietKept DEF Replacing
<1>5. ASSUME DetachCheckpoint(c) PROVE FileInv'
  <2>1. candidate[c].stage = "downloading" /\ "file" \in staging'[c]
    BY <1>0, <1>5, <1>p DEF DetachCheckpoint, PcFits, Exchange, Detached, disk
  <2>2. candidate'[c].status = "replacing" /\ candidate'[c].stage = "detaching" /\ candidate'[c].old = candidate[c].old
    BY <1>0, <1>5, <1>p, StagedSaved DEF DetachCheckpoint, Saved
  <2>3. \E pc \in {"detach", "recovered_detach"} : Goes(c, pc)
    BY <1>5 DEF DetachCheckpoint
  <2>4. Exchange(c)'
    BY <1>q, <1>g, <2>1, <2>2, <2>3, StandsAt DEF InFiles
  <2> QED
    BY <1>q, <2>2, <2>4, QuietKept DEF Replacing
<1>6. ASSUME Detach(c) \/ DetachFails(c) PROVE FileInv'
  <2>1. candidate[c].stage = "detaching" /\ candidate' = candidate /\ "file" \in staging'[c]
    BY <1>0, <1>6, <1>p DEF Detach, DetachFails, PcFits, tables, disk, Exchange, Detached
  <2>2. \/ torrent'[c] = "none" /\ \E pc \in {"mark_staged", "mark_completed"} : Goes(c, pc)
        \/ Ends(c)
    BY <1>0, <1>6 DEF Detach, DetachFails
  <2>3. Exchange(c)'
    BY <1>q, <1>g, <1>e, <2>1, <2>2, StandsAt DEF InFiles
  <2> QED
    BY <1>q, <2>1, <2>3, QuietKept DEF Replacing
<1>7. ASSUME MarkStaged(c) \/ ToStaged(c) PROVE FileInv'
  <2>1. candidate[c].stage \in {"detaching", "staged"} /\ torrent'[c] = "none" /\ worker[c].pc \in {"mark_staged", "to_staged"}
    BY <1>0, <1>7, <1>p DEF MarkStaged, ToStaged, PcFits, Exchange, Detached
  <2>2. candidate'[c].status = "replacing" /\ candidate'[c].stage = "staged" /\ candidate'[c].old = candidate[c].old
    BY <1>0, <1>7, <1>p, StageRow DEF MarkStaged, ToStaged, Saved
  <2>3. \E pc \in {"mark_completed", "staged"} : Goes(c, pc)
    BY <1>7 DEF MarkStaged, ToStaged
  <2>4. staging' = staging /\ (candidate[c].stage = "detaching" => "file" \in staging[c])
    BY <1>0, <1>7 DEF MarkStaged, ToStaged, disk, Exchange, Detached
  <2>5. Exchange(c)'
    BY <1>q, <1>g, <2>1, <2>2, <2>3, <2>4, StandsAt DEF InFiles, Undoing, FilePcs
  <2> QED
    BY <1>q, <2>2, <2>5, QuietKept DEF Replacing
<1>8. ASSUME MarkCompleted(c) PROVE FileInv'
  <2>1. candidate[c].stage \in {"detaching", "staged"} /\ candidate' = candidate /\ worker[c].pc = "mark_completed"
    BY <1>8, <1>p DEF MarkCompleted, PcFits
  <2>2. torrent'[c] = "none" /\ staging' = staging /\ (candidate[c].stage = "detaching" => "file" \in staging[c])
    BY <1>0, <1>8 DEF MarkCompleted, Exchange, Detached, disk
  <2>3. Goes(c, "to_staged")
    BY <1>8 DEF MarkCompleted
  <2>4. Exchange(c)'
    BY <1>q, <1>g, <2>1, <2>2, <2>3, StandsAt DEF InFiles, Undoing
  <2> QED
    BY <1>q, <2>1, <2>4, QuietKept DEF Replacing
<1>9. ASSUME DownloadSaveRefused(c) PROVE FileInv'
  <2>1. /\ candidate' = candidate /\ staging' = staging /\ torrent' = torrent /\ Ends(c)
        /\ worker[c].pc \in {"start", "checkpoint", "mark_staged", "mark_completed", "to_staged", "discard"}
    BY <1>9 DEF DownloadSaveRefused, Refused, tables, disk
  <2>2. /\ candidate[c].stage \in {"staged", "old_backed_up", "promoted"} => torrent[c] = "none"
        /\ candidate[c].stage = "detaching" => "file" \in staging[c]
    BY <1>0 DEF Exchange, Detached, InFiles
  <2>4. /\ candidate'[c].stage = candidate[c].stage /\ candidate'[c].old = candidate[c].old
        /\ worker'[c].pc = "free" /\ worker'[c].new /\ worker[c].pc \notin Undoing
        /\ staging'[c] = staging[c] /\ torrent'[c] = torrent[c]
    BY <1>e, <2>1 DEF Undoing
  <2>3. Exchange(c)'
    BY <1>q, <2>2, <2>4, StandsAt DEF InFiles
  <2> QED
    BY <1>q, <2>1, <2>3, QuietKept DEF Replacing
<1> QED
  BY <1>1, <1>2, <1>3, <1>4, <1>5, <1>6, <1>7, <1>8, <1>9 DEF DownloadsToStage


-----------------------------------------------------------------------------
(* The files are moved: back, aside, to the final path and back to staging. *)
LEMMA MovedKept ==
  ASSUME FileInv, ClaimInv', [Next]_replacementVars, NEW c \in Candidates, Replacing(c),
         UNCHANGED <<episode, candidate, record, taken>>,
         \A d \in Candidates \ {c} : worker'[d] = worker[d] /\ rollback'[d] = rollback[d],
         \/ place' = place /\ rollback' = rollback
         \/ place = None /\ rollback[c] # None /\ place' = rollback[c] /\ rollback'[c] = None
         \/ place # None /\ rollback[c] = None /\ place' = None /\ rollback'[c] = place
         \/ place = None /\ place' = c /\ rollback' = rollback
         \/ place = c /\ place' = None /\ rollback' = rollback,
         Exchange(c)'
  PROVE  FileInv'
<1>0. /\ ClaimInv /\ ActiveKept /\ ActiveExists /\ Exchange(c) /\ ~Owned(c)
      /\ c \in Downloads
  BY DEF FileInv, Owned, Accepted, Replacing, Downloads
<1>1. \A d \in Candidates : (Replacing(d)' <=> Replacing(d)) /\ (Accepted(d)' <=> Accepted(d))
  BY DEF Replacing, Accepted
<1>2. \A d \in Candidates : Replacing(d) => d = c
  BY <1>0, OthersNot
<1>3. ActiveKept'
  BY <1>0, <1>1 DEF ActiveKept, Owned, Accepted
<1>4. ActiveExists'
  <2>1. episode.active # None =>
          place = episode.active \/ rollback[c] = episode.active \/ episode.active \in taken
    BY <1>0, <1>2 DEF ActiveExists
  <2>2. episode.active # c
    BY <1>0 DEF ActiveKept
  <2>3. Replacing(c)'
    BY <1>1
  <2>4. episode.active # None =>
          place' = episode.active \/ rollback'[c] = episode.active \/ episode.active \in taken
    BY <2>1, <2>2
  <2> QED
    BY <2>3, <2>4 DEF ActiveExists
<1>6. IF Replacing(c)' THEN Exchange(c)' ELSE Idle(c)'
  BY <1>1
<1>7. \A d \in Candidates \ {c} : candidate'[d] = candidate[d] /\ worker'[d] = worker[d] /\ rollback'[d] = rollback[d]
  OBVIOUS
<1> QED
  BY <1>3, <1>4, <1>6, <1>7, FilesKept

LEMMA FilesRecords ==
  ASSUME Types, NEW c \in Candidates, ExchangesFiles(c)
  PROVE  taken' = taken /\ \A d \in Downloads \ {c} : record'[d] = record[d]
BY DEF Types, DataTyped, ExchangesFiles, PauseOld, PauseFails, BackUp, SaveBackUp, Promote, PromotedBefore, PromoteFails,
       SavePromoted, Switch, SwitchFails, Unpromote, UnbackUp, Restore, ResumeOld, SaveCompensation, RecordFailure,
       RemoveOwnTorrent, RemoveStaged, DiscardDownload, Failed, TerminalFails, FilesSaveRefused, Refused, tables,
       Goes, Ends, control

(* What every step of the exchange of the files starts from.               *)
LEMMA AtFiles ==
  ASSUME FileInv, NEW c \in Candidates, ExchangesFiles(c)
  PROVE  /\ ClaimInv /\ Types /\ RowInv(c) /\ ActiveKept /\ ActiveExists
         /\ Replacing(c) /\ Exchange(c) /\ candidate[c].status = "replacing" /\ c \in Downloads
         /\ candidate[c] \in CandidateRow /\ worker[c] \in Worker
         /\ torrent \in [Downloads -> {"none", "downloading", "complete", "error", "paused", "seeding"}]
         /\ staging \in [Candidates -> SUBSET {"payload", "file"}]
         /\ rollback \in [Candidates -> Downloads \cup {None}] /\ place \in Downloads \cup {None}
         /\ PcFits(candidate[c].status, candidate[c].stage, candidate[c].old, worker[c].pc)
         /\ FailureFits(candidate[c].stage, worker[c].pc, worker[c].stage)
         /\ RowFits(candidate[c].status, candidate[c].stage, candidate[c].old, candidate[c].download)
         /\ taken' = taken /\ \A d \in Downloads \ {c} : record'[d] = record[d]
         /\ \A d \in Candidates \ {c} : candidate'[d] = candidate[d] /\ worker'[d] = worker[d] /\ rollback'[d] = rollback[d]
<1>1. ClaimInv /\ Types /\ RowInv(c) /\ ActiveKept /\ ActiveExists
  BY DEF FileInv, ClaimInv
<1>2. Fits(candidate[c].status, candidate[c].stage, candidate[c].old, candidate[c].download, worker[c].pc, worker[c].stage)
  BY <1>1 DEF RowInv
<1>3. candidate[c].status = "replacing"
  BY <1>2, ExchangesAt DEF Fits, PcFits, FilePcs, TerminalPcs
<1>4. Exchange(c)
  BY <1>3 DEF FileInv, Replacing
<1> QED
  BY <1>1, <1>2, <1>3, <1>4, FilesRecords, FilesOthers DEF Fits, Types, DataTyped, Replacing, Downloads

(* The steps that move no file.                                            *)
LEMMA PauseKeepsFiles ==
  ASSUME FileInv, ClaimInv', [Next]_replacementVars, ~Interrupted, NEW c \in Candidates, ExchangesFiles(c),
         PauseOld(c) \/ PauseFails(c) \/ PromotedBefore(c)
  PROVE  FileInv'
<1> USE DEF Pcs, FilePcs
<1>0. /\ taken' = taken /\ Types /\ Replacing(c) /\ Exchange(c) /\ candidate[c].stage \in {"staged", "old_backed_up"} /\ c \in Downloads
      /\ worker[c].pc \in {"staged", "promote"} /\ worker[c].stage # "promoted"
      /\ torrent \in [Downloads -> {"none", "downloading", "complete", "error", "paused", "seeding"}]
  BY AtFiles DEF PauseOld, PauseFails, PromotedBefore, PcFits, FailureFits, TerminalPcs
<1>n. worker[c].new
  BY <1>0, WorkerFields DEF Exchange, Moved, Types, InPlace
<1>e. ASSUME Ends(c) PROVE worker'[c].pc = "free" /\ worker'[c].new /\ worker'[c].stage = ""
  BY <1>0, <1>e, EndsTurned DEF Turned
<1>g. ASSUME NEW pc \in Pcs, Goes(c, pc) PROVE worker'[c].pc = pc /\ worker'[c].new /\ worker'[c].stage = worker[c].stage
  BY <1>0, <1>n, <1>g, GoesTurned DEF Turned
<1>1. UNCHANGED <<episode, candidate, record, place, staging, rollback>>
  BY DEF PauseOld, PauseFails, PromotedBefore, tables, disk
<1>2. torrent'[c] = "none"
  BY <1>0 DEF PauseOld, PauseFails, PromotedBefore, Paused, Exchange, Detached, InFiles
<1>3. \/ Ends(c)
      \/ \E pc \in {"promote", "restore", "backup_save", "fail"} : Goes(c, pc)
      \/ Goes(c, "backup") /\ rollback[c] = None
      \/ PromotedBefore(c) /\ Goes(c, "promoted_save") /\ "file" \notin staging[c]
  BY DEF PauseOld, PauseFails, PromotedBefore
<1>4. Exchange(c)'
  <2>1. CASE Ends(c) \/ \E pc \in {"promote", "restore", "backup_save", "fail"} : Goes(c, pc)
    BY <1>0, <1>e, <1>g, <1>1, <1>2, <2>1, StandsAt DEF InFiles, Undoing
  <2>2. CASE Goes(c, "backup") /\ rollback[c] = None
    <3>1. worker'[c].pc = "backup" /\ worker'[c].new
      BY <1>g, <2>2
    <3> QED
      BY <1>0, <1>1, <1>2, <2>2, <3>1 DEF Exchange, OldIsCurrent, Detached, NewFile, Moved, SetAside, InFiles, Undoing, InPlace
  <2>3. CASE PromotedBefore(c) /\ Goes(c, "promoted_save") /\ "file" \notin staging[c]
    <3>1. worker'[c].pc = "promoted_save" /\ worker'[c].new
      BY <1>g, <2>3
    <3>2. place = c
      BY <2>3 DEF Interrupted
    <3>3. OldIsCurrent(c)' /\ Detached(c)' /\ NewFile(c)' /\ Moved(c)'
      BY <1>0, <1>1, <1>2, <3>1, <3>2 DEF Exchange, OldIsCurrent, Detached, NewFile, Moved, InFiles, InPlace
    <3>4. SetAside(c)'
      BY <1>0, <1>1 DEF Exchange, SetAside, InFiles
    <3> QED
      BY <3>3, <3>4 DEF Exchange
  <2> QED
    BY <1>3, <2>1, <2>2, <2>3
<1>5. \A d \in Candidates \ {c} : worker'[d] = worker[d] /\ rollback'[d] = rollback[d]
  BY AtFiles
<1> QED
  BY <1>0, <1>1, <1>4, <1>5, MovedKept


LEMMA SaveKeepsFiles ==
  ASSUME FileInv, ClaimInv', [Next]_replacementVars, NEW c \in Candidates, ExchangesFiles(c),
         SavePromoted(c) \/ SaveCompensation(c)
  PROVE  FileInv'
<1> USE DEF Pcs, FilePcs
<1>0. /\ taken' = taken /\ Types /\ Replacing(c) /\ Exchange(c) /\ candidate[c].status = "replacing"
      /\ \A d \in Downloads \ {c} : record'[d] = record[d]
      /\ \A d \in Candidates \ {c} : candidate'[d] = candidate[d] /\ worker'[d] = worker[d] /\ rollback'[d] = rollback[d]
  BY AtFiles
<1>1. UNCHANGED <<episode, record, torrent, place, staging, rollback>>
  BY DEF SavePromoted, SaveCompensation, disk
<1>2. candidate[c].stage \in {"staged", "old_backed_up", "promoted"}
  BY AtFiles DEF SavePromoted, SaveCompensation, PcFits
<1>3. ASSUME NEW stage \in {"staged", "old_backed_up", "promoted"},
             candidate'[c].status = "replacing", candidate'[c].stage = stage, candidate'[c].old = candidate[c].old,
             worker'[c].pc \in {"free", "switch"}, worker'[c].new,
             stage = "promoted" => InPlace(c),
             stage # "promoted" =>
               "file" \in staging[c] \/ place = c \/ (place = None /\ rollback[c] = c) \/ c \in taken
      PROVE  FileInv'
  <2>1. OldIsCurrent(c)' /\ Detached(c)' /\ NewFile(c)' /\ Moved(c)'
    BY <1>0, <1>1, <1>2, <1>3 DEF Exchange, OldIsCurrent, Detached, NewFile, Moved, InFiles, InPlace
  <2>2. SetAside(c)'
    BY <1>0, <1>1, <1>3 DEF Exchange, SetAside, InFiles
  <2> QED
    BY <1>0, <1>1, <1>3, <2>1, <2>2, QuietKept DEF Exchange, Replacing
<1>4. CASE SavePromoted(c)
  <2>1. worker[c].new /\ InPlace(c)
    BY <1>0, <1>4, WorkerFields DEF SavePromoted, Exchange, Moved, Types, InPlace
  <2>2. candidate'[c].status = "replacing" /\ candidate'[c].stage = "promoted" /\ candidate'[c].old = candidate[c].old
    BY <1>0, <1>4, StageRow DEF SavePromoted, Saved, Stages
  <2>3. worker'[c].pc = "switch" /\ worker'[c].new
    BY <1>0, <1>4, <2>1, GoesTurned DEF SavePromoted, Turned
  <2> QED
    BY <1>3, <2>1, <2>2, <2>3
<1>5. CASE SaveCompensation(c)
  <2> DEFINE stage == IF ~worker[c].new THEN "promoted" ELSE IF ~worker[c].restored THEN "old_backed_up" ELSE "staged"
  <2>1. Save(c, [candidate[c] EXCEPT !.status = "replacing", !.stage = stage]) /\ Ends(c) /\ worker[c].pc = "compensated"
    BY <1>5 DEF SaveCompensation
  <2>2. /\ stage \in {"staged", "old_backed_up", "promoted"}
        /\ stage = "promoted" => InPlace(c)
        /\ stage # "promoted" =>
             "file" \in staging[c] \/ place = c \/ (place = None /\ rollback[c] = c) \/ c \in taken
    BY <1>0, <1>2, <2>1 DEF Exchange, NewFile, Moved, InPlace
  <2> HIDE DEF stage
  <2>3. candidate'[c].status = "replacing" /\ candidate'[c].stage = stage /\ candidate'[c].old = candidate[c].old
    BY <1>0, <2>1, <2>2, StatusSaved DEF Saved, Statuses, Stages
  <2>4. worker'[c].pc = "free" /\ worker'[c].new
    BY <1>0, <2>1, EndsTurned DEF Turned
  <2> QED
    BY <1>3, <2>2, <2>3, <2>4
<1> QED
  BY <1>4, <1>5

LEMMA TurnKeepsFiles ==
  ASSUME FileInv, ClaimInv', [Next]_replacementVars, NEW c \in Candidates, ExchangesFiles(c),
         SwitchFails(c) \/ ResumeOld(c)
  PROVE  FileInv'
<1> USE DEF Pcs, FilePcs
<1>0. /\ taken' = taken /\ Types /\ Replacing(c) /\ Exchange(c) /\ c \in Downloads
      /\ torrent \in [Downloads -> {"none", "downloading", "complete", "error", "paused", "seeding"}]
      /\ PcFits(candidate[c].status, candidate[c].stage, candidate[c].old, worker[c].pc)
      /\ FailureFits(candidate[c].stage, worker[c].pc, worker[c].stage) /\ candidate[c].status = "replacing"
  BY AtFiles
<1>1. UNCHANGED <<episode, candidate, record, place, staging, rollback>>
  BY DEF SwitchFails, ResumeOld, tables, disk
<1>2. torrent'[c] = torrent[c] \/ (torrent[c] = "none" /\ torrent'[c] = "none") \/ ~InFiles(c)
  BY <1>0 DEF SwitchFails, ResumeOld, Paused, Exchange, Detached
<1>3. InFiles(c)
  BY <1>0 DEF SwitchFails, ResumeOld, PcFits, InFiles
<1>4. Moved(c)' /\ NewFile(c)' /\ Detached(c)'
  <2>1. CASE SwitchFails(c)
    <3>1. worker'[c].pc = "unpromote" /\ worker'[c].new = worker[c].new /\ worker'[c].stage = "promoted"
      BY <1>0, <2>1, FailedTurned DEF SwitchFails, Turned
    <3>2. worker[c].pc \in {"switch", "promote_save"}
      BY <2>1 DEF SwitchFails
    <3>3. worker[c].new /\ (InPlace(c) \/ (place = None /\ candidate[c].stage = "promoted"))
      BY <1>0, <3>2, WorkerFields DEF Exchange, Moved, NewFile, Types, PcFits, Undoing, InPlace
    <3> QED
      BY <1>0, <1>1, <1>2, <1>3, <3>1, <3>2, <3>3 DEF Exchange, Moved, NewFile, Detached, InFiles, Undoing, InPlace
  <2>2. CASE ResumeOld(c)
    <3>1. PICK pc \in {"fail", "compensated"} :
            /\ worker' = [worker EXCEPT ![c].pc = pc]
            /\ pc = "fail" => worker[c].new /\ worker[c].restored
      BY <2>2 DEF ResumeOld
    <3>2. /\ worker'[c].pc = pc /\ worker'[c].new = worker[c].new /\ worker'[c].restored = worker[c].restored
          /\ worker'[c].stage = worker[c].stage
      BY <1>0, <3>1, PcTurned DEF Turned
    <3>3. worker[c].pc \in {"resume", "unresume"} /\ (worker[c].pc = "resume" => worker[c].stage # "promoted")
      BY <1>0, <2>2 DEF ResumeOld, FailureFits, TerminalPcs
    <3>4. Moved(c)'
      BY <1>0, <1>1, <3>1, <3>2, <3>3 DEF Exchange, Moved, InPlace
    <3>5. NewFile(c)'
      BY <1>0, <1>1, <3>1, <3>2, <3>3 DEF Exchange, NewFile, Undoing, PcFits, InPlace
    <3>6. Detached(c)'
      BY <1>0, <1>1, <1>2, <1>3, <3>2, <3>3 DEF Exchange, Detached, InFiles
    <3> QED
      BY <3>4, <3>5, <3>6
  <2> QED
    BY <2>1, <2>2
<1>5. OldIsCurrent(c)' /\ SetAside(c)'
  BY <1>0, <1>1 DEF Exchange, OldIsCurrent, SetAside, InFiles
<1>6. \A d \in Candidates \ {c} : worker'[d] = worker[d] /\ rollback'[d] = rollback[d]
  BY AtFiles
<1> QED
  BY <1>0, <1>1, <1>4, <1>5, <1>6, MovedKept DEF Exchange


(* A failure is recorded, and what is left of the candidate removed.       *)
LEMMA FailureKeepsFiles ==
  ASSUME FileInv, ClaimInv', [Next]_replacementVars, ~Interrupted, NEW c \in Candidates, ExchangesFiles(c), RecordFailure(c)
  PROVE  FileInv'
<1> USE DEF Pcs, FilePcs, TerminalPcs
<1>0. /\ taken' = taken /\ Types /\ Replacing(c) /\ Exchange(c) /\ candidate[c].status = "replacing" /\ worker[c].pc = "fail"
      /\ PcFits(candidate[c].status, candidate[c].stage, candidate[c].old, worker[c].pc)
      /\ FailureFits(candidate[c].stage, worker[c].pc, worker[c].stage)
      /\ \A d \in Downloads \ {c} : record'[d] = record[d]
      /\ \A d \in Candidates \ {c} : candidate'[d] = candidate[d] /\ worker'[d] = worker[d] /\ rollback'[d] = rollback[d]
      /\ worker[c].stage \in {"", "old_backed_up", "promoted"}
  BY AtFiles, WorkerFields DEF RecordFailure
<1>1. UNCHANGED <<episode, record, torrent, place, staging, rollback>>
  BY DEF RecordFailure, disk
<1>n. worker[c].new /\ candidate[c].stage \in {"downloading", "download_cleanup", "staged", "old_backed_up", "promoted"}
  BY <1>0, WorkerFields DEF Exchange, Moved, Types, PcFits, InPlace
<1>2. CASE OldInPlace(c)
  <2>1. Save(c, [candidate[c] EXCEPT !.status = "replacing", !.stage = "terminal_cleanup"]) /\ Goes(c, "terminal")
    BY <1>2 DEF RecordFailure
  <2>2. rollback[c] = None
    BY <1>0, <1>2 DEF OldInPlace, Exchange, SetAside
  <2>3. /\ candidate'[c].status = "replacing" /\ candidate'[c].stage = "terminal_cleanup"
        /\ candidate'[c].old = candidate[c].old
    BY <1>0, <2>1, StatusSaved DEF Saved, Statuses, Stages
  <2>4. worker'[c].pc = "terminal" /\ worker'[c].new
    BY <1>0, <1>n, <2>1, GoesTurned DEF Turned
  <2>5. Exchange(c)'
    BY <1>0, <1>1, <1>n, <2>2, <2>3, <2>4 DEF Exchange, OldIsCurrent, Detached, NewFile, Moved, SetAside, InFiles, InPlace
  <2> QED
    BY <1>0, <1>1, <2>3, <2>5, QuietKept DEF Replacing
<1>3. CASE ~OldInPlace(c)
  <2> DEFINE stage == IF worker[c].stage = "" THEN candidate[c].stage ELSE worker[c].stage
  <2>1. Save(c, [candidate[c] EXCEPT !.status = "replacing", !.stage = stage]) /\ Ends(c)
    BY <1>3 DEF RecordFailure
  <2>2. /\ stage \in Stages /\ stage \in {"downloading", "download_cleanup", "staged", "old_backed_up", "promoted"}
        /\ stage \in {"staged", "old_backed_up", "promoted"} <=> InFiles(c)
        /\ stage = "promoted" => worker[c].stage = "promoted"
        /\ stage \in {"staged", "old_backed_up"} => candidate[c].stage \in {"staged", "old_backed_up"}
    BY <1>0, <1>n DEF FailureFits, InFiles, Stages
  <2> HIDE DEF stage
  <2>3. candidate'[c].status = "replacing" /\ candidate'[c].stage = stage /\ candidate'[c].old = candidate[c].old
    BY <1>0, <2>1, <2>2, StatusSaved DEF Saved, Statuses
  <2>4. worker'[c].pc = "free" /\ worker'[c].new
    BY <1>0, <2>1, EndsTurned DEF Turned
  <2>5. OldIsCurrent(c)' /\ Detached(c)' /\ Moved(c)'
    BY <1>0, <1>1, <1>n, <2>2, <2>3, <2>4 DEF Exchange, OldIsCurrent, Detached, Moved, InFiles, InPlace
  <2>6. NewFile(c)'
    <3>1. CASE stage = "promoted"
      <4>1. candidate[c].old # None /\ rollback[c] = None /\ place = None
        BY <1>0, <1>3, <2>2, <3>1 DEF Exchange, Moved, OldInPlace, InPlace
      <4>2. c # None
        BY DEF Downloads
      <4>3. episode.active = None
        BY <1>0, <1>3, <2>2, <3>1, <4>1, <4>2 DEF Interrupted, Undoing
      <4>4. "file" \in staging[c] \/ c \in taken
        BY <1>0, <1>n, <2>2, <3>1, <4>1, <4>2 DEF Exchange, NewFile, InFiles, InPlace
      <4> QED
        BY <1>0, <1>1, <2>3, <3>1, <4>1, <4>3, <4>4 DEF NewFile, InPlace
    <3>2. CASE stage # "promoted"
      BY <1>0, <1>1, <2>2, <2>3, <3>2 DEF Exchange, NewFile, InPlace
    <3> QED
      BY <3>1, <3>2
  <2>7. SetAside(c)'
    BY <1>0, <1>1, <2>2, <2>3 DEF Exchange, SetAside, InFiles
  <2> QED
    BY <1>0, <1>1, <2>3, <2>5, <2>6, <2>7, QuietKept DEF Replacing, Exchange
<1> QED
  BY <1>2, <1>3

LEMMA TerminalKeepsFiles ==
  ASSUME FileInv, ClaimInv', [Next]_replacementVars, NEW c \in Candidates, ExchangesFiles(c),
         \/ RemoveOwnTorrent(c) \/ RemoveStaged(c) \/ DiscardDownload(c) \/ Failed(c) \/ TerminalFails(c)
         \/ FilesSaveRefused(c) /\ worker[c].pc \in TerminalPcs
  PROVE  FileInv'
<1> USE DEF Pcs, FilePcs, TerminalPcs
<1>0. /\ taken' = taken /\ Types /\ Replacing(c) /\ Exchange(c) /\ candidate[c].status = "replacing"
      /\ ClaimInv /\ ActiveKept /\ ActiveExists
      /\ \A d \in Downloads \ {c} : record'[d] = record[d]
      /\ \A d \in Candidates \ {c} : candidate'[d] = candidate[d] /\ worker'[d] = worker[d] /\ rollback'[d] = rollback[d]
  BY AtFiles
<1>1. worker[c].pc \in TerminalPcs /\ candidate[c].stage = "terminal_cleanup"
  BY AtFiles DEF RemoveOwnTorrent, RemoveStaged, DiscardDownload, Failed, TerminalFails, PcFits
<1>n. worker[c].new /\ rollback[c] = None
  BY <1>0, <1>1, WorkerFields DEF Exchange, Moved, SetAside, InFiles, Types, InPlace
<1>2. UNCHANGED <<episode, place, rollback>>
  BY DEF RemoveOwnTorrent, RemoveStaged, DiscardDownload, Failed, TerminalFails, FilesSaveRefused, Refused, disk, tables
<1>3. Ends(c) \/ \E pc \in TerminalPcs : Goes(c, pc)
  BY DEF RemoveOwnTorrent, RemoveStaged, DiscardDownload, Failed, TerminalFails, FilesSaveRefused, Refused
<1>4. worker'[c].pc \in {"free"} \cup TerminalPcs /\ worker'[c].new
  <2>1. CASE Ends(c)
    BY <1>0, <2>1, EndsTurned DEF Turned
  <2>2. ASSUME NEW pc \in TerminalPcs, Goes(c, pc) PROVE worker'[c].pc = pc /\ worker'[c].new
    BY <1>0, <1>n, <2>2, GoesTurned DEF Turned
  <2> QED
    BY <1>3, <2>1, <2>2
<1>5. CASE ~Failed(c)
  <2>1. candidate' = candidate \/ Save(c, [candidate[c] EXCEPT !.download = FALSE])
    BY <1>5 DEF RemoveOwnTorrent, RemoveStaged, DiscardDownload, TerminalFails, FilesSaveRefused, Refused, tables
  <2>2. /\ candidate'[c].status = "replacing" /\ candidate'[c].stage = "terminal_cleanup"
        /\ candidate'[c].old = candidate[c].old
    <3>1. CASE Save(c, [candidate[c] EXCEPT !.download = FALSE])
      BY <1>0, <1>1, <3>1, DownloadSaved DEF Saved
    <3> QED
      BY <1>0, <1>1, <2>1, <3>1
  <2>3. Exchange(c)'
    BY <1>0, <1>1, <1>2, <1>4, <2>2, StandsAt DEF InFiles
  <2> QED
    BY <1>0, <1>2, <2>2, <2>3, QuietKept DEF Replacing
<1>6. CASE Failed(c)
  <2> DEFINE row == [status |-> "failed", stage |-> "", old |-> None, download |-> FALSE, filed |-> FALSE]
  <2>1. row \in CandidateRow /\ Save(c, row) /\ UNCHANGED record
    BY <1>6 DEF Failed, CandidateRow, Statuses, Stages
  <2>2. candidate'[c].status = "failed"
    BY <1>0, <2>1, SaveRow DEF Saved
  <2>3. Idle(c)' /\ ~Replacing(c)'
    BY <1>2, <1>4, <1>n, <2>2 DEF Idle, Replacing
  <2>4. \A d \in Candidates \ {c} : (Replacing(d)' <=> Replacing(d)) /\ candidate'[d].old = candidate[d].old
    BY <1>0 DEF Replacing
  <2>5. \A d \in Candidates : Accepted(d)' <=> Accepted(d)
    BY <1>0, <2>2 DEF Accepted
  <2>6. ActiveKept'
    BY <1>0, <1>2, <2>1, <2>5 DEF ActiveKept, Owned, Accepted
  <2>7. ActiveExists'
    BY <1>0, <1>2, <1>n, <2>3, <2>4 DEF ActiveExists
  <2> QED
    BY <1>0, <1>2, <2>3, <2>6, <2>7, FilesKept
<1> QED
  BY <1>5, <1>6

(* A refused save that does not interrupt a compensation.                  *)
LEMMA RefusedKeepsFiles ==
  ASSUME FileInv, ClaimInv', [Next]_replacementVars, ~Interrupted, NEW c \in Candidates, ExchangesFiles(c),
         FilesSaveRefused(c)
  PROVE  FileInv'
<1>0. /\ taken' = taken /\ Types /\ Replacing(c) /\ Exchange(c) /\ candidate[c].status = "replacing"
      /\ PcFits(candidate[c].status, candidate[c].stage, candidate[c].old, worker[c].pc)
      /\ \A d \in Candidates \ {c} : worker'[d] = worker[d] /\ rollback'[d] = rollback[d]
  BY AtFiles
<1>1. CASE worker[c].pc \in TerminalPcs
  BY <1>1, TerminalKeepsFiles
<1>2. CASE worker[c].pc \in {"promoted_save", "compensated", "fail"}
  <2>1. UNCHANGED <<episode, candidate, record, torrent, place, staging, rollback>> /\ Ends(c)
    BY DEF FilesSaveRefused, Refused, tables, disk
  <2>2. worker'[c].pc = "free" /\ worker'[c].new
    BY <1>0, <2>1, EndsTurned DEF Turned
  <2>3. candidate[c].stage = "promoted" => place = c
    BY <1>0, <1>2 DEF Interrupted, Undoing, PcFits
  <2>4. OldIsCurrent(c)' /\ Detached(c)' /\ NewFile(c)' /\ Moved(c)'
    BY <1>0, <2>1, <2>2, <2>3 DEF Exchange, OldIsCurrent, Detached, NewFile, Moved, InFiles, InPlace
  <2>5. SetAside(c)'
    BY <1>0, <2>1 DEF Exchange, SetAside, InFiles
  <2> QED
    BY <1>0, <2>1, <2>4, <2>5, MovedKept DEF Exchange
<1> QED
  BY <1>1, <1>2 DEF FilesSaveRefused, TerminalPcs


(* The file at the rollback path goes back to the final path.              *)
LEMMA MoveBackStands ==
  ASSUME FileInv, NEW c \in Candidates, Replacing(c), Exchange(c),
         UNCHANGED <<episode, candidate, torrent, staging, taken>>, MoveBack(c),
         candidate[c].stage \in {"staged", "old_backed_up"},
         worker'[c].pc \in {"restore", "resume"}, worker'[c].new
  PROVE  Exchange(c)'
<1>0. Types /\ c \in Downloads /\ rollback[c] \in Downloads \cup {None}
  BY DEF FileInv, ClaimInv, Types, DataTyped, Downloads
<1>1. IF rollback[c] # None /\ place = None
      THEN place' = rollback[c] /\ rollback'[c] = None
      ELSE place' = place /\ rollback' = rollback
  BY <1>0, MovedBack
<1>2. OldIsCurrent(c)' /\ Detached(c)' /\ NewFile(c)' /\ Moved(c)'
  BY <1>0, <1>1 DEF Exchange, OldIsCurrent, Detached, NewFile, Moved, InFiles, InPlace
<1>3. SetAside(c)'
  BY <1>1 DEF Exchange, SetAside, InFiles
<1> QED
  BY <1>2, <1>3 DEF Exchange

LEMMA BackUpKeepsFiles ==
  ASSUME FileInv, ClaimInv', [Next]_replacementVars, NEW c \in Candidates, ExchangesFiles(c),
         BackUp(c) \/ SaveBackUp(c)
  PROVE  FileInv'
<1> USE DEF Pcs, FilePcs
<1>0. /\ taken' = taken /\ Types /\ Replacing(c) /\ Exchange(c) /\ candidate[c].status = "replacing" /\ c \in Downloads
      /\ ClaimInv /\ worker[c] \in Worker /\ c \in Downloads
      /\ place \in Downloads \cup {None} /\ rollback \in [Candidates -> Downloads \cup {None}]
      /\ \A d \in Downloads \ {c} : record'[d] = record[d]
      /\ \A d \in Candidates \ {c} : candidate'[d] = candidate[d] /\ worker'[d] = worker[d] /\ rollback'[d] = rollback[d]
  BY AtFiles
<1>1. /\ candidate[c].stage = "staged" /\ candidate[c].old # None /\ worker[c].stage = ""
      /\ worker[c].pc \in {"backup", "backup_save"} /\ worker[c].new
  BY <1>0, AtFiles DEF BackUp, SaveBackUp, PcFits, FailureFits, TerminalPcs, Exchange, Moved, Worker, InPlace
<1>2. UNCHANGED <<episode, record, torrent, staging>>
  BY DEF BackUp, SaveBackUp, tables
<1>g. ASSUME NEW pc \in Pcs, Goes(c, pc) PROVE worker'[c].pc = pc /\ worker'[c].new /\ worker'[c].stage = worker[c].stage
  BY <1>0, <1>1, <1>g, GoesTurned DEF Turned
<1>d. candidate[c].stage \in {"staged", "old_backed_up", "promoted"} => torrent'[c] = "none"
  BY <1>0, <1>2 DEF Exchange, Detached, InFiles
<1>3. CASE BackUp(c) /\ place' = place
  <2>1. candidate' = candidate /\ UNCHANGED <<place, rollback>> /\ Goes(c, "restore")
    BY <1>3 DEF BackUp, tables
  <2>2. /\ worker'[c].pc = "restore" /\ worker'[c].new /\ worker[c].pc \notin Undoing
        /\ candidate'[c].stage = "staged" /\ candidate'[c].old = candidate[c].old
        /\ staging'[c] = staging[c] /\ torrent'[c] = "none"
    BY <1>1, <1>2, <1>g, <1>d, <2>1 DEF Undoing
  <2>3. Exchange(c)'
    BY <1>0, <1>1, <1>2, <2>1, <2>2, StandsAt
  <2> QED
    BY <1>0, <1>2, <2>1, <2>3, MovedKept
<1>4. CASE BackUp(c) /\ place' # place
  <2>1. /\ candidate' = candidate /\ place # None /\ place' = None /\ rollback'[c] = place /\ Goes(c, "backup_save")
        /\ worker[c].pc = "backup"
    BY <1>0, <1>4 DEF BackUp, tables
  <2>2. rollback[c] = None
    BY <1>0, <2>1 DEF Exchange, Moved, InPlace
  <2>4. worker'[c].pc = "backup_save" /\ worker'[c].new
    BY <1>g, <2>1
  <2>5. OldIsCurrent(c)' /\ Detached(c)' /\ NewFile(c)' /\ Moved(c)'
    BY <1>0, <1>1, <1>2, <2>1, <2>4 DEF Exchange, OldIsCurrent, Detached, NewFile, Moved, InFiles, InPlace
  <2>6. SetAside(c)'
    BY <1>1, <2>1 DEF SetAside, InFiles
  <2> QED
    BY <1>0, <1>2, <2>1, <2>2, <2>5, <2>6, MovedKept DEF Exchange
<1>5. CASE SaveBackUp(c) /\ Stage(c, "old_backed_up") /\ Goes(c, "promote") /\ UNCHANGED <<place, rollback, faults>>
  <2>1. /\ candidate'[c].status = "replacing" /\ candidate'[c].stage = "old_backed_up"
        /\ candidate'[c].old = candidate[c].old
    BY <1>0, <1>5, StageRow DEF Saved, Stages
  <2>2. /\ worker'[c].pc = "promote" /\ worker'[c].new /\ worker[c].pc \notin Undoing
        /\ staging'[c] = staging[c] /\ torrent'[c] = "none"
    BY <1>1, <1>2, <1>5, <1>g, <1>d DEF Undoing
  <2>3. Exchange(c)'
    BY <1>0, <1>1, <1>2, <1>5, <2>1, <2>2, StandsAt
  <2> QED
    BY <1>0, <1>2, <1>5, <2>1, <2>3, QuietKept DEF Replacing
<1>6. CASE /\ SaveBackUp(c) /\ MoveBack(c) /\ UNCHANGED <<candidate, control>>
           /\ worker' = [worker EXCEPT ![c].pc = "restore", ![c].stage = "old_backed_up"]
  <2>1. worker'[c].pc = "restore" /\ worker'[c].new
    BY <1>0, <1>1, <1>6, FailedTurned DEF Turned
  <2>2. Exchange(c)'
    BY <1>0, <1>1, <1>2, <1>6, <2>1, MoveBackStands
  <2> QED
    BY <1>0, <1>2, <1>6, <2>2, MovedBack, MovedKept
<1> QED
  BY <1>3, <1>4, <1>5, <1>6 DEF SaveBackUp

LEMMA PromoteKeepsFiles ==
  ASSUME FileInv, ClaimInv', [Next]_replacementVars, NEW c \in Candidates, ExchangesFiles(c),
         Promote(c) \/ PromoteFails(c)
  PROVE  FileInv'
<1> USE DEF Pcs, FilePcs
<1>0. /\ taken' = taken /\ Types /\ Replacing(c) /\ Exchange(c) /\ c \in Downloads /\ worker[c] \in Worker
      /\ staging \in [Candidates -> SUBSET {"payload", "file"}]
      /\ \A d \in Candidates \ {c} : worker'[d] = worker[d] /\ rollback'[d] = rollback[d]
  BY AtFiles
<1>1. candidate[c].stage \in {"staged", "old_backed_up"} /\ worker[c].pc = "promote" /\ worker[c].new
  BY <1>0, AtFiles DEF Promote, PromoteFails, PcFits, Exchange, Moved, Worker, InPlace
<1>2. UNCHANGED <<episode, candidate, record, torrent>>
  BY DEF Promote, PromoteFails, tables
<1>g. ASSUME NEW pc \in Pcs, Goes(c, pc) PROVE worker'[c].pc = pc /\ worker'[c].new
  BY <1>0, <1>1, <1>g, GoesTurned DEF Turned
<1>3. CASE Promote(c)
  <2>1. place = None /\ place' = c /\ rollback' = rollback /\ worker'[c].pc = "promote_save" /\ worker'[c].new
    BY <1>3, <1>g DEF Promote
  <2>2. OldIsCurrent(c)' /\ Detached(c)' /\ NewFile(c)' /\ Moved(c)'
    BY <1>0, <1>1, <1>2, <2>1 DEF Exchange, OldIsCurrent, Detached, NewFile, Moved, InFiles, InPlace
  <2>3. SetAside(c)'
    BY <1>0, <1>2, <2>1 DEF Exchange, SetAside, InFiles
  <2> QED
    BY <1>0, <1>2, <2>1, <2>2, <2>3, MovedKept DEF Exchange
<1>4. CASE PromoteFails(c)
  <2>1. MoveBack(c) /\ staging' = staging /\ worker'[c].pc = "restore" /\ worker'[c].new
    BY <1>4, <1>g DEF PromoteFails
  <2>2. Exchange(c)'
    BY <1>0, <1>1, <1>2, <2>1, MoveBackStands
  <2> QED
    BY <1>0, <1>2, <2>1, <2>2, MovedBack, MovedKept
<1> QED
  BY <1>3, <1>4

LEMMA RestoreKeepsFiles ==
  ASSUME FileInv, ClaimInv', [Next]_replacementVars, NEW c \in Candidates, ExchangesFiles(c), Restore(c)
  PROVE  FileInv'
<1> USE DEF Pcs, FilePcs
<1>0. /\ taken' = taken /\ Types /\ Replacing(c) /\ Exchange(c) /\ worker[c] \in Worker
      /\ \A d \in Candidates \ {c} : worker'[d] = worker[d] /\ rollback'[d] = rollback[d]
  BY AtFiles
<1>1. candidate[c].stage \in {"staged", "old_backed_up"} /\ worker[c].pc = "restore" /\ worker[c].new
  BY <1>0, AtFiles DEF Restore, PcFits, Exchange, Moved, Worker, InPlace
<1>2. UNCHANGED <<episode, candidate, record, torrent, staging>>
  BY DEF Restore, tables
<1>3. \E restored \in BOOLEAN : Turned(c, "resume", worker[c].stage, worker[c].new, restored)
  BY <1>0, RestoredTurned DEF Restore, OldInPlace
<1>4. worker'[c].pc = "resume" /\ worker'[c].new
  BY <1>1, <1>3 DEF Turned
<1>5. CASE MoveBack(c)
  BY <1>0, <1>1, <1>2, <1>4, <1>5, MoveBackStands, MovedBack, MovedKept
<1>6. CASE UNCHANGED <<place, rollback>>
  <2>1. candidate[c].stage \in {"staged", "old_backed_up", "promoted"} => torrent'[c] = "none"
    BY <1>0, <1>2 DEF Exchange, Detached, InFiles
  <2>2. Exchange(c)'
    BY <1>0, <1>1, <1>2, <1>4, <1>6, <2>1, StandsAt DEF InFiles, Undoing
  <2> QED
    BY <1>0, <1>2, <1>6, <2>2, MovedKept
<1> QED
  BY <1>5, <1>6 DEF Restore

(* compensateSwitchFailure: the new file back to staging, then the old one. *)
LEMMA UndoKeepsFiles ==
  ASSUME FileInv, ClaimInv', [Next]_replacementVars, NEW c \in Candidates, ExchangesFiles(c),
         Unpromote(c) \/ UnbackUp(c)
  PROVE  FileInv'
<1> USE DEF Pcs, FilePcs
<1>0. /\ taken' = taken /\ Types /\ Replacing(c) /\ Exchange(c) /\ worker[c] \in Worker /\ c \in Downloads
      /\ staging \in [Candidates -> SUBSET {"payload", "file"}]
      /\ rollback \in [Candidates -> Downloads \cup {None}]
      /\ \A d \in Candidates \ {c} : worker'[d] = worker[d] /\ rollback'[d] = rollback[d]
  BY AtFiles
<1>1. candidate[c].stage \in {"staged", "old_backed_up", "promoted"}
  BY AtFiles DEF Unpromote, UnbackUp, PcFits
<1>2. UNCHANGED <<episode, candidate, record, torrent>>
  BY DEF Unpromote, UnbackUp, tables
<1>3. CASE Unpromote(c)
  <2>1. worker[c].pc = "unpromote" /\ rollback' = rollback
    BY <1>3 DEF Unpromote
  <2>2. CASE /\ place # None /\ "file" \notin staging[c] /\ place' = None
             /\ staging' = [staging EXCEPT ![c] = @ \cup {"file"}]
             /\ worker' = [worker EXCEPT ![c].pc = "unbackup", ![c].new = TRUE]
    <3>1. worker'[c].pc = "unbackup" /\ worker'[c].new
      BY <1>0, <2>2, NewTurned DEF Turned
    <3>2. place = c /\ "file" \in staging'[c]
      BY <1>0, <2>1, <2>2 DEF Exchange, Moved, InPlace
    <3>3. OldIsCurrent(c)' /\ Detached(c)' /\ NewFile(c)' /\ Moved(c)'
      BY <1>0, <1>1, <1>2, <2>1, <2>2, <3>1, <3>2 DEF Exchange, OldIsCurrent, Detached, NewFile, Moved, InFiles, Undoing, InPlace
    <3>4. SetAside(c)'
      BY <1>0, <1>2, <2>1 DEF Exchange, SetAside, InFiles
    <3> QED
      BY <1>0, <1>2, <2>1, <2>2, <3>2, <3>3, <3>4, MovedKept DEF Exchange
  <2>3. CASE /\ UNCHANGED <<place, staging>>
             /\ \E clean \in BOOLEAN :
                  worker' = [worker EXCEPT ![c].pc = "unbackup", ![c].new = (place = None), ![c].clean = clean]
    <3> DEFINE new == place = None
    <3>a. new \in BOOLEAN /\ "unbackup" \in Pcs
      OBVIOUS
    <3>b. \E clean \in BOOLEAN : worker' = [worker EXCEPT ![c].pc = "unbackup", ![c].new = new, ![c].clean = clean]
      BY <2>3
    <3>c. new <=> place = None
      OBVIOUS
    <3> HIDE DEF new
    <3>d. Turned(c, "unbackup", worker[c].stage, new, worker[c].restored)
      <4>1. Types
        BY <1>0
      <4> QED
        BY <4>1, <3>a, <3>b, NewTurned, Zenon
    <3>1. worker'[c].pc = "unbackup" /\ (worker'[c].new <=> place = None)
      BY <3>c, <3>d DEF Turned
    <3>2. InPlace(c) \/ (place = None /\ candidate[c].stage = "promoted")
      BY <1>0, <2>1 DEF Exchange, Moved, InPlace
    <3>3. OldIsCurrent(c)' /\ Detached(c)' /\ NewFile(c)' /\ Moved(c)'
      BY <1>0, <1>1, <1>2, <2>1, <2>3, <3>1, <3>2 DEF Exchange, OldIsCurrent, Detached, NewFile, Moved, InFiles, Undoing, InPlace
    <3>4. SetAside(c)'
      BY <1>0, <1>2, <2>1 DEF Exchange, SetAside, InFiles
    <3> QED
      BY <1>0, <1>2, <2>1, <2>3, <3>3, <3>4, MovedKept DEF Exchange
  <2> QED
    BY <1>3, <2>2, <2>3 DEF Unpromote
<1>4. CASE UnbackUp(c)
  <2>1. worker[c].pc = "unbackup" /\ staging' = staging
    BY <1>4 DEF UnbackUp
  <2>2. CASE /\ worker[c].new /\ rollback[c] # None /\ place = None /\ MoveBack(c)
             /\ worker' = [worker EXCEPT ![c].pc = "unresume", ![c].restored = TRUE]
    <3>1. worker'[c].pc = "unresume" /\ worker'[c].new
      BY <1>0, <2>2, RestoredTurned DEF Turned
    <3>2. place' = rollback[c] /\ rollback'[c] = None
      BY <1>0, <2>2 DEF MoveBack
    <3>3. OldIsCurrent(c)' /\ Detached(c)' /\ NewFile(c)' /\ Moved(c)' /\ SetAside(c)'
      BY <1>0, <1>1, <1>2, <2>1, <2>2, <3>1, <3>2
      DEF Exchange, OldIsCurrent, Detached, NewFile, Moved, SetAside, InFiles, Undoing, InPlace
    <3> QED
      BY <1>0, <1>2, <2>2, <3>2, <3>3, MovedKept DEF Exchange
  <2>3. CASE /\ UNCHANGED <<place, rollback>>
             /\ \E clean \in BOOLEAN : worker' = [worker EXCEPT ![c].pc = "unresume",
                  ![c].restored = candidate[c].old = None \/ (worker[c].new /\ place # None), ![c].clean = clean]
    <3> DEFINE restored == candidate[c].old = None \/ (worker[c].new /\ place # None)
    <3>0. restored \in BOOLEAN /\ "unresume" \in Pcs
      BY <1>0 DEF Worker
    <3>a. \E clean \in BOOLEAN :
            worker' = [worker EXCEPT ![c].pc = "unresume", ![c].restored = restored, ![c].clean = clean]
      BY <2>3
    <3>b. restored => candidate[c].old = None \/ (worker[c].new /\ place # None)
      OBVIOUS
    <3> HIDE DEF restored
    <3>1. /\ worker'[c].pc = "unresume" /\ worker'[c].new = worker[c].new /\ worker'[c].restored = restored
      <4>1. Turned(c, "unresume", worker[c].stage, worker[c].new, restored)
        <5>1. Types
          BY <1>0
        <5> QED
          BY <5>1, <3>0, <3>a, RestoredTurned, Zenon
      <4> QED
        BY <4>1 DEF Turned
    <3>2. worker[c].new => place = None
      BY <1>0, <2>1 DEF Exchange, Moved, InPlace
    <3>3. OldIsCurrent(c)' /\ Detached(c)' /\ NewFile(c)'
      BY <1>0, <1>1, <1>2, <2>1, <2>3, <3>1 DEF Exchange, OldIsCurrent, Detached, NewFile, InFiles, Undoing, InPlace
    <3>4. Moved(c)'
      BY <1>0, <1>2, <2>1, <2>3, <3>1, <3>2, <3>b DEF Exchange, Moved, InPlace
    <3>5. SetAside(c)'
      BY <1>0, <1>2, <2>3 DEF Exchange, SetAside, InFiles
    <3> QED
      BY <1>0, <1>2, <2>3, <3>3, <3>4, <3>5, MovedKept DEF Exchange
  <2>4. (worker[c].clean /\ TRUE) \in BOOLEAN /\ (worker[c].clean /\ FALSE) \in BOOLEAN
    OBVIOUS
  <2> QED
    BY <1>4, <2>2, <2>3 DEF UnbackUp
<1> QED
  BY <1>3, <1>4

(* switchDatabase: the new file is in place, and the ledger names it.      *)
LEMMA SwitchKeepsFiles ==
  ASSUME FileInv, ClaimInv', [Next]_replacementVars, NEW c \in Candidates, ExchangesFiles(c), Switch(c)
  PROVE  FileInv' /\ InPlace(c)
<1> USE DEF Pcs, FilePcs
<1>0. /\ taken' = taken /\ Types /\ Replacing(c) /\ Exchange(c) /\ worker[c] \in Worker /\ c \in Downloads
      /\ ClaimInv /\ ActiveKept /\ ActiveExists /\ candidate[c].status = "replacing"
      /\ \A d \in Candidates \ {c} : candidate'[d] = candidate[d] /\ worker'[d] = worker[d] /\ rollback'[d] = rollback[d]
  BY AtFiles
<1>1. /\ UNCHANGED <<place, rollback>> /\ MaySwitch(c) /\ worker[c].pc = "switch"
      /\ episode' = [status |-> "downloaded", active |-> c]
      /\ Goes(c, "cleanup")
  BY DEF Switch, disk
<1>2. candidate[c].stage = "promoted" /\ episode.active = candidate[c].old /\ record[c] # None
  BY <1>1 DEF MaySwitch
<1>3. InPlace(c)
  BY <1>0, <1>1, <1>2 DEF Exchange, NewFile, Undoing, InPlace
<1>4. candidate'[c].status = "accepted_cleanup_failed"
  BY <1>0, StatusSaved DEF Switch, Saved, Statuses, Stages
<1>5. worker[c].new /\ worker'[c].new
  BY <1>0, <1>1, GoesTurned DEF Turned, Exchange, Moved, Worker, CleanupPcs, InPlace
<1>6. ~Owned(c) /\ episode'.active = c
  BY <1>0, <1>1 DEF Owned, Accepted, Replacing
<1>7. Idle(c)' /\ ~Replacing(c)'
  BY <1>4, <1>5 DEF Idle, Replacing, Accepted
<1>8. record'[c] # None
  <2>1. record[c] \in DownloadRow
    BY <1>0, <1>2 DEF Types, DataTyped
  <2>2. [status |-> "completed", hash |-> record[c].hash, owned |-> FALSE, filed |-> TRUE] \in DownloadRow
    BY <2>1 DEF DownloadRow
  <2>3. record'[c] = [status |-> "completed", hash |-> record[c].hash, owned |-> FALSE, filed |-> TRUE]
    BY <1>0 DEF Switch, Types, DataTyped
  <2> QED
    BY <2>2, <2>3
<1>9. ActiveKept' /\ ActiveExists'
  BY <1>0, <1>1, <1>3, <1>4, <1>6, <1>8 DEF ActiveKept, ActiveExists, Owned, Accepted, InPlace
<1> QED
  BY <1>0, <1>3, <1>6, <1>7, <1>9, FilesKept

LEMMA FilesKeepFiles ==
  ASSUME FileInv, ClaimInv', [Next]_replacementVars, ~Interrupted, NEW c \in Candidates, ExchangesFiles(c)
  PROVE  FileInv'
BY PauseKeepsFiles, SaveKeepsFiles, TurnKeepsFiles, FailureKeepsFiles, TerminalKeepsFiles, RefusedKeepsFiles,
   BackUpKeepsFiles, PromoteKeepsFiles, RestoreKeepsFiles, UndoKeepsFiles, SwitchKeepsFiles DEF ExchangesFiles


-----------------------------------------------------------------------------
(* The cleanup, the requests, and what happens around the work.            *)
LEMMA CleanupKeepsFiles ==
  ASSUME FileInv, ClaimInv', [Next]_replacementVars, NEW c \in Candidates, CleansUp(c)
  PROVE  FileInv'
<1>0. /\ ClaimInv /\ Types /\ worker \in [Candidates -> Worker] /\ c \in Downloads
      /\ record \in [Downloads -> DownloadRow \cup {None}]
      /\ torrent \in [Downloads -> {"none", "downloading", "complete", "error", "paused", "seeding"}]
      /\ rollback \in [Candidates -> Downloads \cup {None}]
      /\ episode \in [status : {"missing", "ignored", "marked_downloaded", "downloaded"},
                      active : Downloads \cup {None}]
  BY DEF FileInv, ClaimInv, Types, DataTyped, Downloads
<1>1. ~Replacing(c) /\ ~Replacing(c)'
  BY <1>0, CleanupAccepted DEF Accepted, Replacing
<1>2. Idle(c)
  BY <1>1 DEF FileInv
<1>3. UNCHANGED <<place, taken>> /\ rollback'[c] \in {rollback[c], None}
  BY <1>0 DEF CleansUp, ClaimCleanup, BeginCleanup, RemoveOldTorrent, RemoveRollback, RemoveOldRecord,
         FinishCleanup, CleanupFails, CleanupSaveRefused, Refused, disk, Goes, Ends, control
<1>4. worker'[c].new
  <2>1. Ends(c) \/ \E pc \in CleanupPcs : Goes(c, pc)
    BY DEF CleansUp, ClaimCleanup, BeginCleanup, RemoveOldTorrent, RemoveRollback, RemoveOldRecord,
           FinishCleanup, CleanupFails, CleanupSaveRefused, Refused, CleanupPcs
  <2>2. CASE Ends(c)
    BY <1>0, <2>2, EndsTurned DEF Turned
  <2>3. ASSUME NEW pc \in CleanupPcs, Goes(c, pc) PROVE worker'[c].new
    BY <1>0, <1>2, <2>3, GoesTurned DEF Turned, Idle, Pcs
  <2> QED
    BY <2>1, <2>2, <2>3
<1>5. \A d \in Candidates \ {c} : torrent'[d] \in {torrent[d], "none"}
  BY <1>0 DEF CleansUp, ClaimCleanup, BeginCleanup, RemoveOldTorrent, RemoveRollback, RemoveOldRecord,
         FinishCleanup, CleanupFails, CleanupSaveRefused, Refused, Downloads
<1>6. /\ episode'.active \in {None, episode.active}
      /\ episode'.active # None => record'[episode.active] = record[episode.active]
  <2>1. CASE RemoveOldRecord(c) /\ candidate[c].old # None
    <3>1. /\ record' = [record EXCEPT ![candidate[c].old] = None]
          /\ IF episode.active = candidate[c].old THEN episode'.active = None ELSE episode' = episode
      BY <1>0, <2>1 DEF RemoveOldRecord
    <3> QED
      BY <1>0, <3>1
  <2>2. CASE ~(RemoveOldRecord(c) /\ candidate[c].old # None)
    <3>1. UNCHANGED <<episode, record>>
      BY <2>2 DEF CleansUp, ClaimCleanup, BeginCleanup, RemoveOldTorrent, RemoveRollback, RemoveOldRecord,
             FinishCleanup, CleanupFails, CleanupSaveRefused, Refused, tables
    <3> QED
      BY <3>1
  <2> QED
    BY <2>1, <2>2
<1>7. \A d \in Candidates \ {c} :
        /\ candidate'[d] = candidate[d] /\ worker'[d] = worker[d] /\ rollback'[d] = rollback[d]
        /\ staging'[d] = staging[d] /\ torrent'[d] \in {torrent[d], "none"}
  BY <1>0, <1>5, CleanupOthers
<1> QED
  BY <1>1, <1>3, <1>4, <1>6, <1>7, IdleKept

(* The files and the rows stay: work begins or is forgotten, a torrent     *)
(* goes on, the user gives the episode another status.                     *)
LEMMA AroundKept ==
  ASSUME FileInv, ClaimInv', UNCHANGED <<candidate, place, rollback, taken>>,
         \A c \in Candidates : /\ torrent[c] = "none" => torrent'[c] = "none"
                               /\ "file" \in staging[c] => "file" \in staging'[c],
         \A c \in Candidates :
           \/ worker'[c] = worker[c]
           \/ /\ worker'[c].new
              /\ worker'[c].pc \in {"free", "cleanup", "claimed", "terminal", "cleanup_payload", "redetach", "staged",
                                    "promote", "switch", "start"}
              /\ Replacing(c) /\ candidate[c].stage = "promoted" /\ worker[c].pc \in Undoing => place = c,
         episode'.active \in {None, episode.active},
         episode'.active # None => record'[episode.active] = record[episode.active]
  PROVE  FileInv'
<1>0. ClaimInv /\ ActiveKept /\ ActiveExists
  BY DEF FileInv
<1>1. \A c \in Candidates : (Replacing(c)' <=> Replacing(c)) /\ (Accepted(c)' <=> Accepted(c))
  BY DEF Replacing, Accepted
<1>2. ActiveKept'
  BY <1>0 DEF ActiveKept, Owned, Accepted
<1>3. ActiveExists'
  BY <1>0 DEF ActiveExists, Replacing
<1>5. ASSUME NEW c \in Candidates PROVE IF Replacing(c)' THEN Exchange(c)' ELSE Idle(c)'
  <2>1. CASE Replacing(c)
    <3>1. Exchange(c)
      BY <2>1 DEF FileInv
    <3>2. OldIsCurrent(c)' /\ Detached(c)'
      BY <3>1 DEF Exchange, OldIsCurrent, Detached, InFiles
    <3>3. NewFile(c)'
      BY <2>1, <3>1 DEF Exchange, NewFile, InPlace
    <3>4. Moved(c)'
      BY <3>1 DEF Exchange, Moved, InPlace
    <3>5. SetAside(c)'
      BY <3>1 DEF Exchange, SetAside, InFiles
    <3> QED
      BY <1>1, <2>1, <3>2, <3>3, <3>4, <3>5 DEF Exchange
  <2>2. CASE ~Replacing(c)
    <3>1. Idle(c)
      BY <2>2 DEF FileInv
    <3> QED
      BY <1>1, <2>2, <3>1 DEF Idle
  <2> QED
    BY <2>1, <2>2
<1> QED
  BY <1>2, <1>3, <1>5 DEF FileInv

(* A claim that is not begun goes back: nothing of it is in the files.     *)
LEMMA UnclaimedKept ==
  ASSUME FileInv, ClaimInv', [Next]_replacementVars, NEW c \in Candidates, Replacing(c),
         candidate[c].stage = "queued", candidate'[c].status = "failed",
         \A d \in Candidates \ {c} : candidate'[d] = candidate[d],
         UNCHANGED <<episode, record, place, rollback, worker, taken>>, worker[c].pc = "free"
  PROVE  FileInv'
<1>0. /\ ClaimInv /\ ActiveKept /\ ActiveExists /\ Exchange(c)
  BY DEF FileInv
<1>n. worker[c] \in Worker
  BY <1>0 DEF ClaimInv, Types
<1>1. rollback[c] = None /\ worker[c].new
  BY <1>0, <1>n DEF Exchange, SetAside, InFiles, Moved, Worker, InPlace
<1>2. Idle(c)' /\ ~Replacing(c)'
  BY <1>1 DEF Idle, Replacing
<1>3. \A d \in Candidates \ {c} : Replacing(d)' <=> Replacing(d)
  BY DEF Replacing
<1>4. \A d \in Candidates : Accepted(d)' <=> Accepted(d)
  BY DEF Accepted, Replacing
<1>5. ActiveKept'
  BY <1>0, <1>4 DEF ActiveKept, Owned, Accepted
<1>6. ActiveExists'
  BY <1>0, <1>1, <1>2, <1>3 DEF ActiveExists
<1> QED
  BY <1>2, <1>5, <1>6, FilesKept

(* A worker that begins: AroundKept with the worker of one candidate.      *)
LEMMA WorkBegins ==
  ASSUME FileInv, ClaimInv', NEW c \in Candidates, worker[c].pc = "free",
         NEW pc, NEW by \in {"task", "recovery"}, worker' = [worker EXCEPT ![c] = Busy(pc, by)],
         pc \in {"free", "cleanup", "claimed", "terminal", "cleanup_payload", "redetach", "staged",
                 "promote", "switch", "start"},
         UNCHANGED <<tables, torrent, disk, taken>>
  PROVE  FileInv'
<1>1. worker \in [Candidates -> Worker]
  BY DEF FileInv, ClaimInv, Types
<1>2. worker'[c] = Busy(pc, by) /\ \A d \in Candidates \ {c} : worker'[d] = worker[d]
  BY <1>1
<1>b. pc \in Pcs
  BY DEF Pcs, DownloadPcs, FilePcs, CleanupPcs, TerminalPcs
<1>f. Busy(pc, by).pc = pc /\ Busy(pc, by).new
  BY <1>b, BusyWorker
<1>3. worker'[c].pc = pc /\ worker'[c].new
  BY <1>2, <1>f
<1>4. worker[c].pc \notin Undoing
  BY DEF Undoing
<1>5. UNCHANGED <<candidate, place, rollback, taken>> /\ UNCHANGED <<episode, record, torrent, staging>>
  BY DEF tables, disk
<1>6. \A d \in Candidates :
        \/ worker'[d] = worker[d]
        \/ /\ worker'[d].new
           /\ worker'[d].pc \in {"free", "cleanup", "claimed", "terminal", "cleanup_payload", "redetach", "staged",
                                 "promote", "switch", "start"}
           /\ Replacing(d) /\ candidate[d].stage = "promoted" /\ worker[d].pc \in Undoing => place = d
  BY <1>2, <1>3, <1>4
<1> QED
  BY <1>5, <1>6, AroundKept

LEMMA AdvanceBegins ==
  ASSUME NEW row
  PROVE  AdvanceFrom(row) \in {"cleanup", "terminal", "cleanup_payload", "redetach", "staged",
                               "promote", "switch", "start"}
BY DEF AdvanceFrom

LEMMA BeginsKeepsFiles ==
  ASSUME FileInv, ClaimInv', [Next]_replacementVars, NEW c \in Candidates, Begins(c)
  PROVE  FileInv'
<1>0. /\ ClaimInv /\ Types /\ worker \in [Candidates -> Worker]
      /\ candidate \in [Candidates -> CandidateRow] /\ RowInv(c)
  BY DEF FileInv, ClaimInv, Types
<1>r. RowFits(candidate[c].status, candidate[c].stage, candidate[c].old, candidate[c].download)
  BY <1>0 DEF RowInv, Fits
<1>1. ASSUME ContinueReplace(c) PROVE FileInv'
  <2>1. worker[c].pc = "free" /\ UNCHANGED <<episode, record, torrent, disk, faults, taken>>
    BY <1>1 DEF ContinueReplace, Takes, control
  <2>2. CASE Takes(c, AdvanceFrom(candidate[c]), "task")
    BY <2>1, <2>2, WorkBegins, AdvanceBegins DEF Takes, tables
  <2>3. CASE /\ candidate' = [candidate EXCEPT ![c] =
                  IF task.cancelled /\ @.status = "replacing" /\ @.stage = "queued"
                  THEN [@ EXCEPT !.status = "failed", !.stage = ""] ELSE @]
             /\ UNCHANGED worker
    <3>1. CASE task.cancelled /\ candidate[c].status = "replacing" /\ candidate[c].stage = "queued"
      <4>1. /\ candidate'[c].status = "failed"
            /\ \A d \in Candidates \ {c} : candidate'[d] = candidate[d]
        BY <1>0, <2>3, <3>1 DEF CandidateRow
      <4> QED
        BY <2>1, <2>3, <3>1, <4>1, UnclaimedKept DEF Replacing, disk
    <3>2. CASE ~(task.cancelled /\ candidate[c].status = "replacing" /\ candidate[c].stage = "queued")
      <4>1. candidate' = candidate
        BY <1>0, <2>3, <3>2
      <4> QED
        BY <2>1, <2>3, <4>1, AroundKept DEF disk
    <3> QED
      BY <3>1, <3>2
  <2> QED
    BY <1>1, <2>2, <2>3 DEF ContinueReplace
<1>2. ASSUME ContinueRetryCleanup(c) PROVE FileInv'
  <2>1. worker[c].pc = "free" /\ UNCHANGED <<episode, record, torrent, disk, faults, taken>>
    BY <1>2 DEF ContinueRetryCleanup, Takes, control
  <2>2. CASE Takes(c, "claimed", "task")
    BY <2>1, <2>2, WorkBegins DEF Takes, tables
  <2>3. CASE candidate[c].stage = "cleanup_queued" /\ Stage(c, "cleaning") /\ UNCHANGED worker
    <3>1. candidate[c].status = "accepted_cleanup_failed"
      BY <1>0, <1>r, <2>3, RowFields DEF RowFits, Statuses
    <3>2. ~Replacing(c) /\ ~Replacing(c)'
      <4>1. candidate'[c].status = candidate[c].status
        BY <1>0, <2>3, StageRow DEF Saved, Stages
      <4> QED
        BY <3>1, <4>1 DEF Replacing
    <3>3. \A d \in Candidates \ {c} : candidate'[d] = candidate[d]
      BY <1>0, <2>3 DEF Stage, Save
    <3>4. Idle(c)
      BY <3>2 DEF FileInv
    <3> QED
      BY <2>1, <2>3, <3>2, <3>3, <3>4, IdleKept DEF Idle, disk
  <2>4. CASE UNCHANGED candidate /\ UNCHANGED worker
    BY <2>1, <2>4, AroundKept DEF disk
  <2> QED
    BY <1>2, <2>2, <2>3, <2>4 DEF ContinueRetryCleanup
<1>3. ASSUME Recover(c) PROVE FileInv'
  <2>1. worker[c].pc = "free" /\ UNCHANGED <<tables, torrent, disk, faults, taken>>
    BY <1>3 DEF Recover, control
  <2>2. CASE worker' = [worker EXCEPT ![c] = Busy(AdvanceFrom(candidate[c]), "recovery")]
    BY <2>1, <2>2, WorkBegins, AdvanceBegins
  <2>3. CASE UNCHANGED worker
    BY <2>1, <2>3, AroundKept DEF disk, tables
  <2> QED
    BY <1>3, <2>2, <2>3 DEF Recover
<1> QED
  BY <1>1, <1>2, <1>3 DEF Begins

(* The claim of a replacement: nothing is left of an earlier attempt.      *)
LEMMA ClaimKeepsFiles ==
  ASSUME FileInv, ClaimInv', [Next]_replacementVars, NEW c \in Candidates, PrepareReplace(c)
  PROVE  FileInv'
<1> DEFINE row == [status |-> "replacing", stage |-> "queued", old |-> None, download |-> FALSE, filed |-> FALSE]
<1>0. /\ ClaimInv /\ ActiveKept /\ ActiveExists
      /\ candidate \in [Candidates -> CandidateRow]
  BY DEF FileInv, ClaimInv, Types
<1>1. /\ candidate[c].status \in {"pending", "failed"} /\ worker[c].pc = "free"
      /\ \A d \in Candidates : ~Replacing(d)
      /\ UNCHANGED <<episode, record, place, rollback, worker>> /\ taken' = taken \ {c}
      /\ candidate' = [candidate EXCEPT ![c] = row]
  BY DEF PrepareReplace, Claimable, Requested, Replacing, Save, disk
<1>2. Idle(c) /\ rollback[c] = None /\ worker[c].new
  BY <1>1 DEF FileInv, Idle, Accepted
<1>3. /\ candidate'[c] = row
      /\ \A d \in Candidates \ {c} : candidate'[d] = candidate[d]
  BY <1>0, <1>1
<1>4. /\ candidate'[c].status = "replacing" /\ candidate'[c].stage = "queued" /\ candidate'[c].old = None
  BY <1>3
<1>5. /\ \A d \in Candidates : Accepted(d)' <=> Accepted(d)
      /\ \A d \in Candidates : Replacing(d)' <=> d = c
  BY <1>1, <1>3, <1>4 DEF Accepted, Replacing
<1>6. ActiveKept'
  BY <1>0, <1>1, <1>5 DEF ActiveKept, Owned
<1>7. episode.active # c
  BY <1>0, <1>1, ReplacementConstants DEF ActiveKept, Owned, Accepted, Downloads
<1>8. ActiveExists'
  BY <1>0, <1>1, <1>7 DEF ActiveExists
<1>9. Exchange(c)'
  BY <1>1, <1>2, <1>4 DEF Exchange, OldIsCurrent, Detached, NewFile, Moved, SetAside, InFiles, InPlace
<1>10. ASSUME NEW d \in Candidates \ {c} PROVE Idle(d)'
  <2>1. Idle(d)
    BY <1>1 DEF FileInv
  <2> QED
    BY <1>1, <1>5, <2>1 DEF Idle
<1> QED
  BY <1>5, <1>6, <1>8, <1>9, <1>10 DEF FileInv

(* The deletion of a payload takes the file at the final path away,        *)
(* whoever's it is; the staged files of an exchange have no torrent.       *)
LEMMA PayloadKeepsFiles ==
  ASSUME FileInv, ClaimInv', NEW d \in Downloads, DeleteTorrentWithPayload(d) PROVE FileInv'
<1>0. /\ ClaimInv /\ Types /\ ActiveKept /\ ActiveExists
      /\ torrent \in [Downloads -> {"none", "downloading", "complete", "error", "paused", "seeding"}]
      /\ staging \in [Candidates -> SUBSET {"payload", "file"}]
      /\ worker \in [Candidates -> Worker] /\ place \in Downloads \cup {None}
  BY DEF FileInv, ClaimInv, Types, DataTyped
<1>1. UNCHANGED <<episode, candidate, record, rollback, worker>>
  BY DEF DeleteTorrentWithPayload, tables
<1>2. CASE UNCHANGED <<torrent, place, staging, taken>>
  BY <1>1, <1>2, AroundKept
<1>3. CASE DeletePayloadOf(d)
  <2>1. /\ \A c \in Candidates : /\ torrent[c] = "none" => torrent'[c] = "none"
                                 /\ "file" \in staging[c] => "file" \in staging'[c]
        /\ \/ UNCHANGED <<place, taken>>
           \/ place' = None /\ taken' = taken \cup ({place} \ {None})
    BY <1>0, <1>3 DEF DeletePayloadOf, Downloads
  <2>2. ActiveKept' /\ ActiveExists'
    BY <1>0, <1>1, <2>1 DEF ActiveKept, ActiveExists, Owned, Accepted, Replacing
  <2>3. ASSUME NEW c \in Candidates, Replacing(c) PROVE Exchange(c)'
    <3>0. Exchange(c) /\ c \in Downloads /\ c # None
      BY <2>3 DEF FileInv, Downloads
    <3>1. OldIsCurrent(c)' /\ Detached(c)' /\ SetAside(c)'
      BY <1>1, <2>1, <3>0 DEF Exchange, OldIsCurrent, Detached, SetAside, InFiles
    <3>2. InPlace(c) => InPlace(c)'
      BY <2>1, <3>0 DEF InPlace
    <3>3. c \in taken => c \in taken'
      BY <2>1
    <3>4. place = None => place' = None
      BY <2>1
    <3>5. NewFile(c)'
      <4>1. place = c => place' = c \/ c \in taken'
        BY <2>1, <3>0
      <4> QED
        BY <1>1, <2>1, <3>0, <3>2, <3>3, <3>4, <4>1 DEF Exchange, NewFile
    <3>6. episode.active # None /\ place # None /\ rollback[c] = None => place' # None \/ episode.active \in taken'
      <4>1. rollback[c] = None /\ episode.active # None => place = episode.active \/ episode.active \in taken
        BY <1>0, <2>3 DEF ActiveExists, ClaimInv, OneReplacing
      <4> QED
        BY <2>1, <4>1
    <3>7. episode.active \in taken => episode.active \in taken'
      BY <2>1
    <3>8. Moved(c)'
      BY <1>1, <3>0, <3>2, <3>4, <3>6, <3>7 DEF Exchange, Moved
    <3> QED
      BY <3>1, <3>5, <3>8 DEF Exchange
  <2>4. ASSUME NEW c \in Candidates, ~Replacing(c) PROVE Idle(c)'
    BY <1>1, <2>4 DEF FileInv, Idle, Accepted
  <2>5. \A c \in Candidates : Replacing(c)' <=> Replacing(c)
    BY <1>1 DEF Replacing
  <2> QED
    BY <2>2, <2>3, <2>4, <2>5 DEF FileInv
<1> QED
  BY <1>2, <1>3 DEF DeleteTorrentWithPayload

LEMMA DeleteKeepsFiles ==
  ASSUME FileInv, ClaimInv', NEW d \in Downloads, DeleteDownload(d) PROVE FileInv'
<1>0. /\ record \in [Downloads -> DownloadRow \cup {None}]
      /\ episode \in [status : {"missing", "ignored", "marked_downloaded", "downloaded"},
                      active : Downloads \cup {None}]
  BY DEF FileInv, ClaimInv, Types, DataTyped
<1>1. CASE RequestDelete(d)
  <2>1. UNCHANGED <<candidate, episode, record, torrent, place, staging, rollback, worker, taken>>
    BY <1>1 DEF RequestDelete, tables, disk
  <2> QED
    BY <2>1, AroundKept
<1>2. CASE DeleteRow(d)
  <2>1. UNCHANGED <<candidate, torrent, place, staging, rollback, worker, taken>>
    BY <1>2 DEF DeleteRow, disk
  <2>2. CASE /\ record' = [record EXCEPT ![d] = None]
             /\ episode' = IF episode.active = d THEN [episode EXCEPT !.active = None] ELSE episode
    <3>1. IF episode.active = d THEN episode'.active = None ELSE episode' = episode
      BY <1>0, <2>2
    <3>2. episode.active # d /\ episode.active # None => record'[episode.active] = record[episode.active]
      BY <1>0, <2>2
    <3> QED
      BY <2>1, <3>1, <3>2, AroundKept
  <2>3. CASE UNCHANGED <<record, episode>>
    BY <2>1, <2>3, AroundKept
  <2> QED
    BY <1>2, <2>2, <2>3 DEF DeleteRow
<1> QED
  BY <1>1, <1>2, PayloadKeepsFiles DEF DeleteDownload

LEMMA RequestsKeepFiles ==
  ASSUME FileInv, ClaimInv', [Next]_replacementVars, Requests PROVE FileInv'
<1>0. /\ ClaimInv /\ Types /\ candidate \in [Candidates -> CandidateRow]
  BY DEF FileInv, ClaimInv, Types
<1>1. ASSUME NEW c \in Candidates, PrepareRetryCleanup(c) PROVE FileInv'
  <2>1. /\ candidate[c].status = "accepted_cleanup_failed"
        /\ UNCHANGED <<episode, record, torrent, place, staging, rollback, worker, taken>>
        /\ Stage(c, "cleanup_queued")
    BY <1>1 DEF PrepareRetryCleanup, Requested, disk
  <2>2. candidate'[c].status = candidate[c].status
    BY <1>0, <2>1, StageRow DEF Saved, Stages
  <2>3. ~Replacing(c) /\ ~Replacing(c)'
    BY <2>1, <2>2 DEF Replacing
  <2>4. \A d \in Candidates \ {c} : candidate'[d] = candidate[d]
    BY <1>0, <2>1 DEF Stage, Save
  <2>5. Idle(c)
    BY <2>3 DEF FileInv
  <2> QED
    BY <2>1, <2>3, <2>4, <2>5, IdleKept DEF Idle
<1>2. ASSUME NEW c \in Candidates, KeepCandidate(c) PROVE FileInv'
  <2>1. /\ candidate[c].status = "pending"
        /\ UNCHANGED <<episode, record, torrent, place, staging, rollback, worker, taken>>
        /\ candidate' = [candidate EXCEPT ![c] = [candidate[c] EXCEPT !.status = "kept_existing"]]
    BY <1>2 DEF KeepCandidate, Save, disk, control
  <2>2. /\ candidate'[c].status = "kept_existing"
        /\ \A d \in Candidates \ {c} : candidate'[d] = candidate[d]
    BY <1>0, <2>1 DEF CandidateRow
  <2>3. ~Replacing(c) /\ ~Replacing(c)'
    BY <2>1, <2>2 DEF Replacing
  <2>4. Idle(c)
    BY <2>3 DEF FileInv
  <2> QED
    BY <2>1, <2>2, <2>3, <2>4, IdleKept DEF Idle
<1>3. ASSUME CancelTask PROVE FileInv'
  <2>1. UNCHANGED <<candidate, episode, record, torrent, place, staging, rollback, worker, taken>>
    BY <1>3 DEF CancelTask, tables, disk
  <2> QED
    BY <2>1, AroundKept
<1>4. ASSUME NEW status \in {"missing", "ignored", "marked_downloaded"}, SetUserStatus(status) PROVE FileInv'
  <2>1. UNCHANGED <<candidate, record, torrent, place, staging, rollback, worker, taken>> /\ episode'.active = None
    BY <1>4 DEF SetUserStatus, disk, control
  <2> QED
    BY <2>1, AroundKept
<1>5. \A d \in Deletable : d \in Downloads
  OBVIOUS
<1> QED
  BY <1>1, <1>2, <1>3, <1>4, <1>5, ClaimKeepsFiles, DeleteKeepsFiles DEF Requests

(* The process stops: only what is on disk stays.                          *)
LEMMA RestartKeepsFiles ==
  ASSUME FileInv, ClaimInv', ~Interrupted, Restart PROVE FileInv'
<1>1. UNCHANGED <<candidate, episode, record, torrent, place, staging, rollback, taken>>
  BY DEF Restart, tables, disk
<1>2. \A c \in Candidates : worker'[c] = Free
  BY DEF Restart
<1>3. Free.pc = "free" /\ Free.new
  BY FreeWorker
<1>4. \A c \in Candidates : candidate[c].stage = "promoted" /\ worker[c].pc \in Undoing => place = c
  BY DEF Interrupted
<1> QED
  BY <1>1, <1>2, <1>3, <1>4, AroundKept

LEMMA StepKeepsFiles ==
  ASSUME FileInv, ClaimInv', [Next]_replacementVars, ~Interrupted PROVE FileInv'
<1>0. ClaimInv /\ Types /\ staging \in [Candidates -> SUBSET {"payload", "file"}]
      /\ torrent \in [Downloads -> {"none", "downloading", "complete", "error", "paused", "seeding"}]
  BY DEF FileInv, ClaimInv, Types, DataTyped
<1>1. ASSUME NEW c \in Candidates, Works(c) PROVE FileInv'
  <2>1. CASE DownloadsToStage(c)
    <3>1. CASE Replacing(c)
      BY <2>1, <3>1, ClaimedDownload
    <3>2. CASE ~Replacing(c)
      BY <2>1, <3>2, UnclaimedDownload
    <3> QED
      BY <3>1, <3>2
  <2> QED
    BY <1>1, <2>1, BeginsKeepsFiles, FilesKeepFiles, CleanupKeepsFiles DEF Works
<1>2. ASSUME NEW c \in Candidates, TorrentRuns(c) PROVE FileInv'
  <2>1. UNCHANGED <<candidate, episode, record, place, rollback, worker, taken>>
    BY <1>2 DEF TorrentRuns, tables, control
  <2>2. \A d \in Candidates : /\ torrent[d] = "none" => torrent'[d] = "none"
                              /\ "file" \in staging[d] => "file" \in staging'[d]
    <3>1. \A d \in Candidates : torrent[d] = "none" => torrent'[d] = "none"
      BY <1>0, <1>2 DEF TorrentRuns, Downloads
    <3>2. staging' = staging \/ staging' = [staging EXCEPT ![c] = staging[c] \cup {"payload"}]
      BY <1>2 DEF TorrentRuns
    <3>3. \A d \in Candidates : "file" \in staging[d] => "file" \in staging'[d]
      BY <1>0, <3>2
    <3> QED
      BY <3>1, <3>3
  <2> QED
    BY <2>1, <2>2, AroundKept
<1>3. ASSUME TaskGivesUp \/ ListIncompleteReplacements \/ Shutdown \/ UNCHANGED replacementVars PROVE FileInv'
  <2>1. UNCHANGED <<candidate, episode, record, torrent, place, staging, rollback, worker, taken>>
    BY <1>3 DEF TaskGivesUp, ListIncompleteReplacements, Shutdown, replacementVars, tables, disk, control
  <2> QED
    BY <2>1, AroundKept
<1>4. ASSUME Requests PROVE FileInv'
  BY <1>4, RequestsKeepFiles
<1>5. ASSUME Restart PROVE FileInv'
  BY <1>5, RestartKeepsFiles
<1> QED
  BY <1>1, <1>2, <1>3, <1>4, <1>5 DEF Next

LEMMA InitFiles == Init => FileInv
<1> SUFFICES ASSUME Init PROVE FileInv
  OBVIOUS
<1>1. ClaimInv
  BY InitClaims
<1>2. ASSUME NEW c \in Candidates PROVE ~Replacing(c) /\ Idle(c)
  <2>1. candidate[c].status = "pending" /\ rollback[c] = None /\ worker[c] = Free
    BY DEF Init
  <2> QED
    BY <2>1, FreeWorker DEF Replacing, Idle
<1>3. CASE /\ episode = [status |-> "downloaded", active |-> Old]
           /\ place = Old
           /\ record = [d \in Downloads |-> IF d = Old
                THEN [status |-> "completed", hash |-> TRUE, owned |-> FALSE, filed |-> TRUE]
                ELSE None]
  <2>1. episode.active = Old /\ place = Old
    BY <1>3
  <2>2. record[Old] = [status |-> "completed", hash |-> TRUE, owned |-> FALSE, filed |-> TRUE]
    BY <1>3 DEF Downloads
  <2>3. [status |-> "completed", hash |-> TRUE, owned |-> FALSE, filed |-> TRUE] \in DownloadRow
    BY DEF DownloadRow
  <2>4. record[Old] # None
    BY <2>2, <2>3
  <2> QED
    BY <1>1, <1>2, <2>1, <2>4 DEF FileInv, ActiveKept, ActiveExists, Owned
<1>4. CASE episode = [status |-> "marked_downloaded", active |-> None] /\ place = None
  <2>1. episode.active = None /\ place = None
    BY <1>4
  <2> QED
    BY <1>1, <1>2, <2>1 DEF FileInv, ActiveKept, ActiveExists, Downloads
<1> QED
  BY <1>3, <1>4 DEF Init

LEMMA FilesHold == Spec /\ [][~Interrupted]_replacementVars => []FileInv
<1>1. FileInv /\ [Next]_replacementVars /\ [~Interrupted]_replacementVars => FileInv'
  <2> SUFFICES ASSUME FileInv, [Next]_replacementVars, [~Interrupted]_replacementVars PROVE FileInv'
    OBVIOUS
  <2>1. ClaimInv'
    BY StepKeepsClaims DEF FileInv
  <2>2. CASE ~Interrupted
    BY <2>1, <2>2, StepKeepsFiles
  <2>3. CASE UNCHANGED replacementVars
    <3>1. UNCHANGED <<candidate, episode, record, torrent, place, staging, rollback, worker, taken>>
      BY <2>3 DEF replacementVars, tables, disk, control
    <3> QED
      BY <2>1, <3>1, AroundKept
  <2> QED
    BY <2>2, <2>3
<1> QED
  BY <1>1, InitFiles, PTL DEF Spec

(* A complete file of the resource the ledger names is at the final path   *)
(* or at a rollback path, whatever fails and wherever the process stops    *)
(* between the file moves and the transactions of the replacement, unless  *)
(* the user's deletion of a download took that file (its row may still be  *)
(* there, and stays after a crash between the two).  Excluded are the      *)
(* steps of Interrupted: the process stops, or a save is refused, while a  *)
(* compensation has moved the new file away and not yet saved how far it   *)
(* came, and a recovery then takes one file for the other.                 *)
THEOREM CurrentResourceKept ==
  Spec /\ [][~Interrupted]_replacementVars => []CurrentResourceExists
<1>1. FileInv => CurrentResourceExists
  BY DEF FileInv, ActiveExists, CurrentResourceExists
<1> QED
  BY <1>1, FilesHold, PTL

-----------------------------------------------------------------------------
(* The refinement: a file that moves between the staging directory, the    *)
(* final path and a rollback path is the same copy of a resource.          *)
FilesTyped ==
  /\ place \in Downloads \cup {None}
  /\ staging \in [Candidates -> SUBSET {"payload", "file"}]
  /\ rollback \in [Candidates -> Downloads \cup {None}]

LEMMA CopiesStay ==
  ASSUME UNCHANGED <<place, rollback>>,
         \A c \in Candidates : "file" \in staging'[c] <=> "file" \in staging[c]
  PROVE  Copies' = Copies
BY DEF Copies

LEMMA CopyMovedBack ==
  ASSUME FilesTyped, NEW c \in Candidates, MoveBack(c), UNCHANGED staging
  PROVE  Copies' = Copies
<1>1. CASE UNCHANGED <<place, rollback>>
  BY <1>1, CopiesStay
<1>2. CASE /\ rollback[c] # None /\ place = None
           /\ place' = rollback[c] /\ rollback' = [rollback EXCEPT ![c] = None]
  <2>1. \A e \in Candidates \ {c} : rollback'[e] = rollback[e]
    BY <1>2 DEF FilesTyped
  <2>2. rollback'[c] = None
    BY <1>2 DEF FilesTyped
  <2>3. ASSUME NEW d \in Downloads
        PROVE  (place' = d \/ \E e \in Candidates : rollback'[e] = d)
                 <=> (place = d \/ \E e \in Candidates : rollback[e] = d)
    BY <1>2, <2>1, <2>2
  <2> QED
    BY <2>3 DEF Copies
<1> QED
  BY <1>1, <1>2 DEF MoveBack

LEMMA CopySetAside ==
  ASSUME FilesTyped, NEW c \in Candidates, rollback[c] = None, place # None,
         place' = None, rollback' = [rollback EXCEPT ![c] = place], UNCHANGED staging
  PROVE  Copies' = Copies
<1>1. \A e \in Candidates \ {c} : rollback'[e] = rollback[e]
  BY DEF FilesTyped
<1>2. rollback'[c] = place
  BY DEF FilesTyped
<1>3. ASSUME NEW d \in Downloads
      PROVE  (place' = d \/ \E e \in Candidates : rollback'[e] = d)
               <=> (place = d \/ \E e \in Candidates : rollback[e] = d)
  BY <1>1, <1>2
<1> QED
  BY <1>3 DEF Copies

LEMMA CopyPromoted ==
  ASSUME FilesTyped, NEW c \in Candidates, "file" \in staging[c], place = None,
         place' = c, staging' = [staging EXCEPT ![c] = @ \ {"file"}], UNCHANGED rollback
  PROVE  Copies' = Copies
<1>1. \A e \in Candidates \ {c} : staging'[e] = staging[e]
  BY DEF FilesTyped
<1>2. "file" \notin staging'[c]
  BY DEF FilesTyped
<1>3. ASSUME NEW d \in Downloads
      PROVE  (place' = d \/ (d \in Candidates /\ "file" \in staging'[d]))
               <=> (place = d \/ (d \in Candidates /\ "file" \in staging[d]))
  BY <1>1, <1>2
<1> QED
  BY <1>3 DEF Copies

LEMMA CopyUnpromoted ==
  ASSUME FilesTyped, NEW c \in Candidates, place = c,
         place' = None, staging' = [staging EXCEPT ![c] = @ \cup {"file"}], UNCHANGED rollback
  PROVE  Copies' = Copies
<1>1. \A e \in Candidates \ {c} : staging'[e] = staging[e]
  BY DEF FilesTyped
<1>2. "file" \in staging'[c]
  BY DEF FilesTyped
<1>3. ASSUME NEW d \in Downloads
      PROVE  (place' = d \/ (d \in Candidates /\ "file" \in staging'[d]))
               <=> (place = d \/ (d \in Candidates /\ "file" \in staging[d]))
  BY <1>1, <1>2
<1> QED
  BY <1>3 DEF Copies

(* A step that removes files of one resource only.                         *)
LEMMA CopyLost ==
  ASSUME NEW r \in Downloads,
         \A d \in Downloads \ {r} : d \in Copies' <=> d \in Copies,
         r \in Copies' => r \in Copies
  PROVE  Copies' = Copies \/ Copies' = Copies \ {r}
BY DEF Copies

(* How the steps of the abstract specification look from here.             *)
SwapStep == [Swap!Next]_<<episode.active, Copies, taken>>

LEMMA Stutters ==
  ASSUME episode'.active = episode.active, Copies' = Copies, taken' = taken PROVE SwapStep
BY DEF SwapStep

LEMMA Forgets ==
  ASSUME episode'.active = None, Copies' = Copies, taken' = taken PROVE SwapStep
BY DEF SwapStep, Swap!Next, Swap!Forget

LEMMA Drops ==
  ASSUME NEW r \in Downloads, r # episode.active, episode'.active = episode.active,
         Copies' = Copies \/ Copies' = Copies \ {r}, taken' = taken
  PROVE  SwapStep
BY DEF SwapStep, Swap!Next, Swap!Drop

LEMMA Adopts ==
  ASSUME NEW r \in Downloads, r \in Copies \cup taken, episode'.active = r, Copies' = Copies, taken' = taken
  PROVE  SwapStep
BY DEF SwapStep, Swap!Next, Swap!Adopt

LEMMA Fetches ==
  ASSUME NEW r \in Downloads, episode'.active = episode.active, Copies' = Copies \cup {r}, taken' = taken
  PROVE  SwapStep
BY DEF SwapStep, Swap!Next, Swap!Fetch

LEMMA Asks ==
  ASSUME NEW r \in Downloads, r # episode.active, episode'.active = episode.active, Copies' = Copies,
         taken' = taken \ {r}
  PROVE  SwapStep
BY DEF SwapStep, Swap!Next, Swap!Ask

LEMMA TakesAway ==
  ASSUME NEW r \in Downloads, episode'.active = episode.active, Copies' = Copies \/ Copies' = Copies \ {r},
         taken' = taken \cup {r}
  PROVE  SwapStep
BY DEF SwapStep, Swap!Next, Swap!Take

LEMMA FilesAreTyped == ASSUME FileInv PROVE FilesTyped
BY DEF FileInv, ClaimInv, Types, DataTyped, FilesTyped

LEMMA DownloadSwaps ==
  ASSUME FileInv, NEW c \in Candidates, DownloadsToStage(c) PROVE SwapStep
<1>0. Types /\ FilesTyped /\ c \in Downloads
  BY FilesAreTyped DEF FileInv, ClaimInv, Downloads
<1>1. UNCHANGED <<episode, place, rollback, taken>>
  BY <1>0, DownloadQuiet
<1>2. CASE RenameStaged(c)
  <2>1. staging' = [staging EXCEPT ![c] = (@ \ {"payload"}) \cup {"file"}]
    BY <1>2 DEF RenameStaged
  <2>2. \A e \in Candidates \ {c} : staging'[e] = staging[e]
    BY <1>0, <2>1 DEF FilesTyped
  <2>3. "file" \in staging'[c]
    BY <1>0, <2>1 DEF FilesTyped
  <2>4. Copies' = Copies \cup {c}
    BY <1>0, <1>1, <2>2, <2>3 DEF Copies
  <2> QED
    BY <1>0, <1>1, <2>4, Fetches
<1>3. CASE DeletePayload(c)
  <2>1. \/ staging' = staging
        \/ staging' = [staging EXCEPT ![c] = staging[c] \ {"payload"}]
    BY <1>0, <1>3 DEF DeletePayload, FilesTyped
  <2>2. \A e \in Candidates : "file" \in staging'[e] <=> "file" \in staging[e]
    BY <1>0, <2>1 DEF FilesTyped
  <2> QED
    BY <1>1, <2>2, CopiesStay, Stutters
<1>4. CASE ~RenameStaged(c) /\ ~DeletePayload(c)
  <2>1. UNCHANGED staging
    BY <1>4 DEF DownloadsToStage, StartDownload, StartCancelled, CheckpointDownload, CheckpointFails, HandOver, SaveOwnership,
       HandOverFails, WaitForCompletion, WaitFails, SaveFilePaths, StagingFails, DetachCheckpoint,
       Detach, DetachFails, MarkStaged, MarkCompleted, ToStaged, Disown, DeletePayloadFails, Discard,
       DownloadSaveRefused, Refused, disk
  <2> QED
    BY <1>1, <2>1, CopiesStay, Stutters
<1> QED
  BY <1>2, <1>3, <1>4

LEMMA FilesSwap ==
  ASSUME FileInv, ClaimInv', [Next]_replacementVars, NEW c \in Candidates, ExchangesFiles(c) PROVE SwapStep
<1>0. /\ FilesTyped /\ c \in Downloads /\ Exchange(c) /\ Replacing(c) /\ ActiveKept /\ taken' = taken
  BY FilesAreTyped, AtFiles
<1>1. CASE BackUp(c)
  <2>1. UNCHANGED <<episode, staging>> /\ worker[c].pc = "backup"
    BY <1>1 DEF BackUp, tables
  <2>2. \/ place # None /\ place' = None /\ rollback' = [rollback EXCEPT ![c] = place]
        \/ UNCHANGED <<place, rollback>>
    BY <1>1 DEF BackUp
  <2>3. rollback[c] = None
    BY <1>0, <2>1 DEF Exchange, Moved
  <2>4. Copies' = Copies
    BY <1>0, <2>1, <2>2, <2>3, CopySetAside, CopiesStay
  <2> QED
    BY <1>0, <2>1, <2>4, Stutters
<1>2. CASE SaveBackUp(c) \/ PromoteFails(c) \/ UnbackUp(c) \/ Restore(c)
  <2>1. UNCHANGED <<episode, staging>> /\ (MoveBack(c) \/ UNCHANGED <<place, rollback>>)
    BY <1>2 DEF SaveBackUp, PromoteFails, UnbackUp, Restore, tables
  <2>2. Copies' = Copies
    BY <1>0, <2>1, CopyMovedBack, CopiesStay
  <2> QED
    BY <1>0, <2>1, <2>2, Stutters
<1>3. CASE Promote(c)
  <2>1. /\ UNCHANGED <<episode, rollback>> /\ place = None /\ "file" \in staging[c]
        /\ place' = c /\ staging' = [staging EXCEPT ![c] = @ \ {"file"}]
    BY <1>3 DEF Promote, tables
  <2>2. Copies' = Copies
    BY <1>0, <2>1, CopyPromoted
  <2> QED
    BY <1>0, <2>1, <2>2, Stutters
<1>4. CASE Unpromote(c)
  <2>1. /\ UNCHANGED <<episode, rollback>> /\ worker[c].pc = "unpromote"
        /\ \/ place # None /\ place' = None /\ staging' = [staging EXCEPT ![c] = @ \cup {"file"}]
           \/ UNCHANGED <<place, staging>>
    BY <1>4 DEF Unpromote, tables
  <2>2. place # None => place = c
    BY <1>0, <2>1 DEF Exchange, Moved, InPlace
  <2>3. Copies' = Copies
    BY <1>0, <2>1, <2>2, CopyUnpromoted, CopiesStay
  <2> QED
    BY <1>0, <2>1, <2>3, Stutters
<1>5. CASE Switch(c)
  <2>1. InPlace(c)
    BY <1>5, SwitchKeepsFiles
  <2>2. UNCHANGED <<place, staging, rollback>> /\ episode'.active = c
    BY <1>5 DEF Switch, disk
  <2>3. c \in Copies \cup taken /\ Copies' = Copies
    BY <1>0, <2>1, <2>2, CopiesStay DEF Copies, InPlace
  <2> QED
    BY <1>0, <2>2, <2>3, Adopts
<1>6. CASE RemoveStaged(c)
  <2>1. UNCHANGED <<episode, place, rollback>>
        /\ (staging' = staging \/ staging' = [staging EXCEPT ![c] = @ \ {"file"}])
    BY <1>6 DEF RemoveStaged, tables
  <2>2. \A e \in Candidates \ {c} : staging'[e] = staging[e]
    BY <1>0, <2>1 DEF FilesTyped
  <2>3. "file" \in staging'[c] => "file" \in staging[c]
    BY <1>0, <2>1 DEF FilesTyped
  <2>4. Copies' = Copies \/ Copies' = Copies \ {c}
    <3>1. \A d \in Downloads \ {c} : d \in Copies' <=> d \in Copies
      BY <2>1, <2>2 DEF Copies
    <3>2. c \in Copies' => c \in Copies
      BY <2>1, <2>3 DEF Copies
    <3> QED
      BY <1>0, <3>1, <3>2, CopyLost
  <2>5. c # episode.active
    BY <1>0 DEF ActiveKept, Owned, Accepted, Replacing
  <2> QED
    BY <1>0, <2>1, <2>4, <2>5, Drops
<1>7. CASE \/ PauseOld(c) \/ PauseFails(c) \/ PromotedBefore(c) \/ SavePromoted(c) \/ SwitchFails(c) \/ ResumeOld(c)
           \/ SaveCompensation(c) \/ RecordFailure(c) \/ RemoveOwnTorrent(c) \/ DiscardDownload(c) \/ Failed(c)
           \/ TerminalFails(c) \/ FilesSaveRefused(c)
  <2>1. UNCHANGED <<episode, place, staging, rollback>>
    BY <1>7 DEF PauseOld, PauseFails, PromotedBefore, SavePromoted, SwitchFails, ResumeOld, SaveCompensation,
       RecordFailure, RemoveOwnTorrent, DiscardDownload, Failed, TerminalFails, FilesSaveRefused, Refused, disk, tables
  <2> QED
    BY <1>0, <2>1, CopiesStay, Stutters
<1> QED
  BY <1>1, <1>2, <1>3, <1>4, <1>5, <1>6, <1>7 DEF ExchangesFiles

LEMMA CleanupSwaps ==
  ASSUME FileInv, NEW c \in Candidates, CleansUp(c) PROVE SwapStep
<1>0. /\ FilesTyped /\ ClaimInv /\ Types
      /\ episode \in [status : {"missing", "ignored", "marked_downloaded", "downloaded"},
                      active : Downloads \cup {None}]
  BY FilesAreTyped DEF FileInv, ClaimInv, Types, DataTyped
<1>1. ~Replacing(c) /\ ActiveExists
  BY <1>0, CleanupAccepted DEF FileInv, Accepted, Replacing
<1>t. taken' = taken
  BY DEF CleansUp, ClaimCleanup, BeginCleanup, RemoveOldTorrent, RemoveRollback, RemoveOldRecord, FinishCleanup,
         CleanupFails, CleanupSaveRefused, Refused, Goes, Ends, control
<1>2. CASE RemoveRollback(c)
  <2>1. UNCHANGED <<episode, place, staging>> /\ rollback' = [rollback EXCEPT ![c] = None]
    BY <1>2 DEF RemoveRollback, tables
  <2>2. /\ \A e \in Candidates \ {c} : rollback'[e] = rollback[e]
        /\ rollback'[c] = None
    BY <1>0, <2>1 DEF FilesTyped
  <2>3. CASE rollback[c] = None
    <3>1. \A e \in Candidates : rollback'[e] = rollback[e]
      BY <2>2, <2>3
    <3>2. Copies' = Copies
      BY <2>1, <3>1 DEF Copies
    <3> QED
      BY <1>t, <2>1, <3>2, Stutters
  <2>4. CASE rollback[c] # None
    <3>1. rollback[c] \in Downloads
      BY <1>0, <2>4 DEF FilesTyped
    <3>2. \A d \in Downloads \ {rollback[c]} : d \in Copies' <=> d \in Copies
      BY <2>1, <2>2 DEF Copies
    <3>3. rollback[c] \in Copies
      BY <3>1 DEF Copies
    <3>4. Copies' = Copies \/ Copies' = Copies \ {rollback[c]}
      BY <3>1, <3>2, <3>3, CopyLost
    <3>5. CASE rollback[c] # episode.active
      BY <1>t, <2>1, <3>1, <3>4, <3>5, Drops
    <3>6. CASE rollback[c] = episode.active /\ episode.active \in Copies'
      <4>1. Copies' = Copies
        BY <3>4, <3>6
      <4> QED
        BY <1>t, <2>1, <4>1, Stutters
    <3>7. CASE rollback[c] = episode.active /\ episode.active \notin Copies'
      <4>1. episode.active \in taken
        BY <1>1, <2>1, <2>2, <2>4, <3>1, <3>7 DEF ActiveExists, Copies
      <4>2. taken' = taken \cup {episode.active}
        BY <1>t, <4>1
      <4> QED
        BY <2>1, <3>1, <3>4, <3>7, <4>2, TakesAway
    <3> QED
      BY <3>5, <3>6, <3>7
  <2> QED
    BY <2>3, <2>4
<1>3. CASE RemoveOldRecord(c)
  <2>1. UNCHANGED <<place, staging, rollback>> /\ (episode' = episode \/ episode'.active = None)
    BY <1>0, <1>3 DEF RemoveOldRecord, disk
  <2>2. Copies' = Copies
    BY <2>1, CopiesStay
  <2> QED
    BY <1>t, <2>1, <2>2, Stutters, Forgets
<1>4. CASE ~RemoveRollback(c) /\ ~RemoveOldRecord(c)
  <2>1. UNCHANGED <<episode, place, staging, rollback>>
    BY <1>4 DEF CleansUp, ClaimCleanup, BeginCleanup, RemoveOldTorrent, FinishCleanup, CleanupFails,
       CleanupSaveRefused, Refused, disk, tables
  <2> QED
    BY <1>t, <2>1, CopiesStay, Stutters
<1> QED
  BY <1>2, <1>3, <1>4

LEMMA DeleteSwaps ==
  ASSUME FileInv, NEW d \in Downloads, DeleteDownload(d) PROVE SwapStep
<1>0. /\ FilesTyped
      /\ episode \in [status : {"missing", "ignored", "marked_downloaded", "downloaded"},
                      active : Downloads \cup {None}]
  BY FilesAreTyped DEF FileInv, ClaimInv, Types, DataTyped
<1>1. CASE RequestDelete(d)
  <2>1. UNCHANGED <<episode, place, staging, rollback, taken>>
    BY <1>1 DEF RequestDelete, tables, disk
  <2> QED
    BY <2>1, CopiesStay, Stutters
<1>2. CASE DeleteTorrentWithPayload(d)
  <2>1. UNCHANGED <<episode, rollback>>
    BY <1>2 DEF DeleteTorrentWithPayload, tables
  <2>2. \A c \in Candidates : "file" \in staging'[c] <=> "file" \in staging[c]
    BY <1>0, <1>2 DEF DeleteTorrentWithPayload, DeletePayloadOf, FilesTyped
  <2>3. \/ UNCHANGED <<place, taken>>
        \/ place' = None /\ taken' = taken \cup ({place} \ {None})
    BY <1>2 DEF DeleteTorrentWithPayload, DeletePayloadOf
  <2>4. CASE UNCHANGED <<place, taken>>
    BY <2>1, <2>2, <2>4, CopiesStay, Stutters
  <2>5. CASE place = None /\ place' = None /\ taken' = taken \cup ({place} \ {None})
    <3>1. UNCHANGED <<place, taken>>
      BY <2>5
    <3> QED
      BY <2>1, <2>2, <3>1, CopiesStay, Stutters
  <2>6. CASE place # None /\ place' = None /\ taken' = taken \cup ({place} \ {None})
    <3>1. place \in Downloads /\ taken' = taken \cup {place}
      BY <1>0, <2>6 DEF FilesTyped
    <3>2. \A e \in Downloads \ {place} : e \in Copies' <=> e \in Copies
      BY <2>1, <2>2, <2>6, ReplacementConstants DEF Copies
    <3>3. place \in Copies' => place \in Copies
      BY <3>1 DEF Copies
    <3>4. Copies' = Copies \/ Copies' = Copies \ {place}
      BY <3>1, <3>2, <3>3, CopyLost
    <3> QED
      BY <2>1, <3>1, <3>4, TakesAway
  <2> QED
    BY <2>3, <2>4, <2>5, <2>6
<1>3. CASE DeleteRow(d)
  <2>1. UNCHANGED <<place, staging, rollback, taken>> /\ (episode' = episode \/ episode'.active = None)
    BY <1>0, <1>3 DEF DeleteRow, disk
  <2>2. Copies' = Copies
    BY <2>1, CopiesStay
  <2> QED
    BY <2>1, <2>2, Stutters, Forgets
<1> QED
  BY <1>1, <1>2, <1>3 DEF DeleteDownload

LEMMA StepSwaps ==
  ASSUME FileInv, ClaimInv', [Next]_replacementVars PROVE SwapStep
<1>0. staging \in [Candidates -> SUBSET {"payload", "file"}] /\ Types
  BY FilesAreTyped DEF FilesTyped, FileInv, ClaimInv
<1>1. ASSUME NEW c \in Candidates, Begins(c) PROVE SwapStep
  <2>1. UNCHANGED <<episode, place, staging, rollback, taken>>
    BY <1>1 DEF Begins, ContinueReplace, ContinueRetryCleanup, Recover, Takes, disk, tables, control
  <2> QED
    BY <2>1, CopiesStay, Stutters
<1>2. ASSUME NEW c \in Candidates, Works(c) PROVE SwapStep
  BY <1>1, <1>2, DownloadSwaps, FilesSwap, CleanupSwaps DEF Works
<1>3. ASSUME NEW c \in Candidates, TorrentRuns(c) PROVE SwapStep
  <2>1. UNCHANGED <<episode, place, rollback, taken>>
        /\ (staging' = staging \/ staging' = [staging EXCEPT ![c] = staging[c] \cup {"payload"}])
    BY <1>3 DEF TorrentRuns, tables, control
  <2>2. \A d \in Candidates : "file" \in staging'[d] <=> "file" \in staging[d]
    BY <1>0, <2>1
  <2> QED
    BY <2>1, <2>2, CopiesStay, Stutters
<1>4. ASSUME Requests PROVE SwapStep
  <2>1. ASSUME NEW status \in {"missing", "ignored", "marked_downloaded"}, SetUserStatus(status) PROVE SwapStep
    <3>1. UNCHANGED <<place, staging, rollback, taken>> /\ episode'.active = None
      BY <2>1 DEF SetUserStatus, disk, control
    <3> QED
      BY <3>1, CopiesStay, Forgets
  <2>2. ASSUME NEW c \in Candidates, PrepareReplace(c) PROVE SwapStep
    <3>1. UNCHANGED <<episode, place, staging, rollback>> /\ taken' = taken \ {c}
      BY <2>2 DEF PrepareReplace, Requested, disk
    <3>2. c # episode.active /\ c \in Downloads
      BY <2>2, ReplacementConstants DEF FileInv, ActiveKept, Owned, Accepted, PrepareReplace, Claimable, Downloads
    <3> QED
      BY <3>1, <3>2, CopiesStay, Asks
  <2>4. ASSUME \/ \E c \in Candidates : PrepareRetryCleanup(c) \/ KeepCandidate(c)
               \/ CancelTask
        PROVE  SwapStep
    <3>1. UNCHANGED <<episode, place, staging, rollback, taken>>
      BY <2>4 DEF PrepareRetryCleanup, KeepCandidate, Requested, CancelTask, disk, tables, control
    <3> QED
      BY <3>1, CopiesStay, Stutters
  <2>3. \A d \in Deletable : d \in Downloads
    OBVIOUS
  <2> QED
    BY <1>4, <2>1, <2>2, <2>3, <2>4, DeleteSwaps DEF Requests
<1>5. ASSUME TaskGivesUp \/ ListIncompleteReplacements \/ Shutdown \/ Restart \/ UNCHANGED replacementVars
      PROVE  SwapStep
  <2>1. UNCHANGED <<episode, place, staging, rollback, taken>>
    BY <1>5 DEF TaskGivesUp, ListIncompleteReplacements, Shutdown, Restart, replacementVars, disk, tables, control
  <2> QED
    BY <2>1, CopiesStay, Stutters
<1> QED
  BY <1>2, <1>3, <1>4, <1>5 DEF Next

LEMMA InitSwaps == Init => Swap!Init
<1> SUFFICES ASSUME Init PROVE Swap!Init
  OBVIOUS
<1>1. FileInv
  BY InitFiles
<1>2. episode.active \in Downloads \cup {None}
  BY <1>1 DEF FileInv, ClaimInv, Types, DataTyped
<1>3. taken = {}
  BY DEF Init
<1>4. episode.active # None => episode.active \in Copies
  BY <1>1, <1>2, <1>3 DEF FileInv, ActiveExists, Copies
<1> QED
  BY <1>2, <1>3, <1>4 DEF Swap!Init, Copies

(* With the same steps excluded, the replacement implements the exchange   *)
(* of resources: every request, file move, transaction, failure, restart   *)
(* and step of a deletion fetches a resource, adopts one that was fetched, *)
(* drops one the ledger does not name, is the user taking a copy away, or  *)
(* asking for one anew, forgets the current one, or changes nothing the    *)
(* abstract specification sees.                                            *)
THEOREM ReplacementImplementsSwap ==
  Spec /\ [][~Interrupted]_replacementVars => ImplementsSwap
<1>1. FileInv /\ FileInv' /\ [Next]_replacementVars => [Swap!Next]_<<episode.active, Copies, taken>>
  BY StepSwaps DEF SwapStep, FileInv
<1> QED
  BY <1>1, InitSwaps, FilesHold, PTL DEF Spec, ImplementsSwap, Swap!Spec

-----------------------------------------------------------------------------
(* A replacement that fails: what it has of its own is in its row and its  *)
(* place in the work, and a torrent it paused is resumed before it fails.  *)

(* Work on a candidate whose download has a row.                           *)
HasRowPcs == {"hand_over", "own", "wait", "recovered_point", "file_paths", "rename", "detach_point",
  "dl_failed", "disown", "detach", "recovered_detach", "mark_staged", "mark_completed", "to_staged"}
TorrentPcs == {"wait", "recovered_point", "file_paths", "rename", "detach_point"}
FileStages == {"staged", "old_backed_up", "promoted"}

(* What a candidate has of its own, by its row and the place in the work:  *)
(* its row of downloads, its torrent, and a file at its rollback path.     *)
HoldsRow(stage, download, pc, row) ==
  /\ download <=> row # None
  /\ pc \in HasRowPcs \/ stage = "detaching" => download
  /\ pc \in TorrentPcs => row.hash
  /\ pc \in {"hand_over", "own"} => ~row.hash
  /\ pc = "terminal_done" => ~download

HoldsTorrent(stage, pc, row, state) ==
  state # "none" =>
    /\ row # None /\ (row.hash => row.owned)
    /\ stage \in {"downloading", "download_cleanup", "detaching"}
    /\ pc \notin {"disown", "discard", "fail", "mark_staged", "mark_completed", "to_staged"}
    /\ stage = "download_cleanup" \/ pc = "dl_failed" => row.owned

Holds(status, stage, old, download, pc, row, state, aside) ==
  IF status = "replacing"
  THEN /\ HoldsRow(stage, download, pc, row)
       /\ HoldsTorrent(stage, pc, row, state)
       /\ aside # None => stage \in FileStages /\ old # None
  ELSE status \in {"pending", "kept_existing", "failed"} => row = None /\ state = "none" /\ aside = None

Belongings(c) == Holds(candidate[c].status, candidate[c].stage, candidate[c].old, candidate[c].download,
                       worker[c].pc, record[c], torrent[c], rollback[c])

(* Who has paused the torrent of the first download and will resume it.    *)
Pauses(c) ==
  /\ candidate[c].status = "replacing" /\ candidate[c].old = Old
  /\ candidate[c].stage \in FileStages /\ worker[c].pc # "fail"

OldPaused ==
  torrent[Old] = "paused" => \E c \in Candidates : Accepted(c) \/ Pauses(c)

OldsOwned ==
  /\ episode.active # None => Owned(episode.active)
  /\ \A c \in Candidates : candidate[c].old # None => Owned(candidate[c].old)

LeftInv == ClaimInv /\ OldsOwned /\ OldPaused /\ \A c \in Candidates : Belongings(c)

(* The three steps after which a failed replacement may leave something    *)
(* behind: qBittorrent does not pause a torrent that an attempt before it  *)
(* paused, and nobody resumes it; the user deletes the row of the download *)
(* of the replacement under way; the directory cannot be made for an       *)
(* attempt that finds a torrent of one before it.                          *)
Forsaken ==
  \/ \E c \in Candidates :
       \/ PauseFails(c) /\ ~Cancelled(c) /\ torrent[candidate[c].old] = "paused"
       \/ Replacing(c) /\ DeleteRow(c)
  \/ Orphaned

LEMMA LeftKept ==
  ASSUME LeftInv, ClaimInv', [Next]_replacementVars, NEW c \in Candidates,
         \A d \in Candidates \ {c} :
           /\ candidate'[d] = candidate[d] /\ worker'[d] = worker[d] /\ rollback'[d] = rollback[d]
           /\ Owned(d) \/ (torrent'[d] = torrent[d] /\ record'[d] = record[d]),
         torrent'[Old] = "paused" => torrent[Old] = "paused" \/ Accepted(c)' \/ Pauses(c)',
         Pauses(c) => Accepted(c)' \/ Pauses(c)' \/ torrent'[Old] # "paused",
         candidate'[c].old \in {None, candidate[c].old, episode.active},
         episode'.active \in {None, episode.active} \/ (episode'.active = c /\ Accepted(c)'),
         Belongings(c)'
  PROVE  LeftInv'
<1>0. ClaimInv /\ OldsOwned /\ OldPaused /\ \A d \in Candidates : Belongings(d)
  BY DEF LeftInv
<1> DEFINE Later(d) == d = Old \/ (d \in Candidates /\ candidate'[d].status \in {"accepted", "accepted_cleanup_failed"})
<1>1. ASSUME NEW d, Owned(d) PROVE Later(d)
  BY <1>0, <1>1, OwnedLater
<1>2. OldsOwned'
  <2>1. episode'.active # None => Later(episode'.active)
    <3>1. CASE episode'.active \in {None, episode.active}
      BY <1>0, <1>1, <3>1 DEF OldsOwned
    <3>2. CASE episode'.active = c /\ Accepted(c)'
      BY <3>2 DEF Accepted
    <3> QED
      BY <3>1, <3>2
  <2>2. ASSUME NEW d \in Candidates, candidate'[d].old # None PROVE Later(candidate'[d].old)
    <3>1. candidate'[d].old \in {candidate[d].old, episode.active}
      BY <2>2
    <3> HIDE DEF Later
    <3> QED
      BY <1>0, <1>1, <2>2, <3>1 DEF OldsOwned
  <2> QED
    BY <2>1, <2>2 DEF OldsOwned, Owned, Accepted
<1>3. OldPaused'
  <2> SUFFICES ASSUME torrent'[Old] = "paused" PROVE \E d \in Candidates : Accepted(d)' \/ Pauses(d)'
    BY DEF OldPaused
  <2>1. CASE Accepted(c)' \/ Pauses(c)'
    BY <2>1
  <2>2. CASE torrent[Old] = "paused" /\ ~Pauses(c)
    <3>1. PICK d \in Candidates : Accepted(d) \/ Pauses(d)
      BY <1>0, <2>2 DEF OldPaused
    <3>2. Accepted(d) => Accepted(d)'
      BY <1>0, StaysAccepted
    <3>3. d # c => (Pauses(d) => Pauses(d)')
      BY DEF Pauses
    <3> QED
      BY <2>2, <3>1, <3>2, <3>3
  <2> QED
    BY <2>1, <2>2
<1>4. ASSUME NEW d \in Candidates \ {c} PROVE Belongings(d)'
  <2>1. Belongings(d)
    BY <1>0
  <2>2. CASE Owned(d)
    BY <1>4, <2>2 DEF Owned, Accepted, Belongings, Holds
  <2>3. CASE ~Owned(d)
    BY <1>4, <2>1, <2>3 DEF Belongings
  <2> QED
    BY <2>2, <2>3
<1> QED
  BY <1>2, <1>3, <1>4 DEF LeftInv

LEMMA RecordOf ==
  ASSUME Types, NEW c \in Candidates, NEW status \in {"downloading", "completed", "failed"},
         NEW hash \in BOOLEAN, NEW owned \in BOOLEAN, NEW filed \in BOOLEAN,
         Record(c, status, hash, owned, filed)
  PROVE  record'[c] # None /\ record'[c].hash = hash /\ record'[c].owned = owned
<1> DEFINE row == [status |-> status, hash |-> hash, owned |-> owned, filed |-> filed]
<1>1. row \in DownloadRow /\ row.hash = hash /\ row.owned = owned
  BY DEF DownloadRow
<1>2. record'[c] = row
  BY DEF Record, Types, DataTyped, Downloads
<1> QED
  BY <1>1, <1>2

LEMMA DownloadTorrents ==
  ASSUME Types, NEW c \in Candidates, DownloadsToStage(c)
  PROVE  \A d \in Downloads \ {c} : torrent'[d] = torrent[d]
BY DEF Types, DataTyped, DownloadsToStage, StartDownload, StartCancelled, CheckpointDownload, CheckpointFails, HandOver, SaveOwnership,
       HandOverFails, WaitForCompletion, WaitFails, SaveFilePaths, RenameStaged, StagingFails, DetachCheckpoint,
       Detach, DetachFails, MarkStaged, MarkCompleted, ToStaged, DeletePayload, Disown, DeletePayloadFails, Discard,
       DownloadSaveRefused, Refused, Downloads

(* The download of the candidate: what it has is in its row.               *)
LEMMA DownloadLeaves ==
  ASSUME LeftInv, ClaimInv', [Next]_replacementVars, ~Forsaken, NEW c \in Candidates, DownloadsToStage(c)
  PROVE  LeftInv'
<1> USE DEF Pcs, DownloadPcs, Stages, HasRowPcs, TorrentPcs, FileStages
<1>0. /\ ClaimInv /\ Types /\ RowInv(c) /\ Belongings(c) /\ c \in Downloads /\ c # Old /\ Old \in Downloads
      /\ candidate[c] \in CandidateRow /\ worker[c] \in Worker
      /\ record \in [Downloads -> DownloadRow \cup {None}]
      /\ torrent \in [Downloads -> {"none", "downloading", "complete", "error", "paused", "seeding"}]
  BY DEF LeftInv, ClaimInv, Types, DataTyped, Downloads
<1>p. /\ PcFits(candidate[c].status, candidate[c].stage, candidate[c].old, worker[c].pc)
      /\ RowFits(candidate[c].status, candidate[c].stage, candidate[c].old, candidate[c].download)
  BY <1>0 DEF RowInv, Fits
<1>a. worker[c].pc \in DownloadPcs /\ candidate[c].status \notin {"accepted", "accepted_cleanup_failed"}
  BY <1>p, DownloadsAt DEF PcFits
<1>h. Holds(candidate[c].status, candidate[c].stage, candidate[c].old, candidate[c].download,
            worker[c].pc, record[c], torrent[c], rollback[c])
  BY <1>0 DEF Belongings
<1>q. /\ UNCHANGED <<episode, place, rollback>>
      /\ \A d \in Downloads \ {c} : record'[d] = record[d] /\ torrent'[d] = torrent[d]
      /\ \A d \in Candidates \ {c} : candidate'[d] = candidate[d] /\ worker'[d] = worker[d] /\ rollback'[d] = rollback[d]
  BY <1>0, DownloadQuiet, DownloadTorrents, DownloadOthers
<1>e. ASSUME Ends(c) PROVE worker'[c].pc = "free"
  BY <1>0, <1>e, EndsTurned DEF Turned
<1>g. ASSUME NEW pc \in Pcs, Goes(c, pc) PROVE worker'[c].pc = pc
  BY <1>0, <1>g, GoesTurned DEF Turned
(* What is left to show of a step.                                         *)
<1>k. ASSUME candidate'[c].old \in {None, candidate[c].old, episode.active},
             Pauses(c) => Pauses(c)', Belongings(c)'
      PROVE  LeftInv'
  <2>1. \A d \in Candidates \ {c} :
           /\ candidate'[d] = candidate[d] /\ worker'[d] = worker[d] /\ rollback'[d] = rollback[d]
           /\ Owned(d) \/ (torrent'[d] = torrent[d] /\ record'[d] = record[d])
    BY <1>q DEF Downloads
  <2>2. torrent'[Old] = torrent[Old]
    BY <1>0, <1>q
  <2> QED
    BY <1>k, <1>q, <2>1, <2>2, LeftKept
(* ... that leaves the row of the candidate.                               *)
<1>l. ASSUME candidate' = candidate, worker'[c].pc # "fail",
             Holds(candidate[c].status, candidate[c].stage, candidate[c].old, candidate[c].download,
                   worker'[c].pc, record'[c], torrent'[c], rollback[c])
      PROVE  LeftInv'
  <2>1. Belongings(c)' /\ (Pauses(c) => Pauses(c)')
    BY <1>l, <1>q DEF Belongings, Pauses
  <2> QED
    BY <1>k, <1>l, <2>1
<1>1. ASSUME StartDownload(c) PROVE LeftInv'
  <2> DEFINE old == IF candidate[c].old # None THEN candidate[c].old ELSE episode.active
             kept == IF old # None /\ record[old] # None THEN old ELSE candidate[c].old
  <2>1. kept \in Downloads \cup {None} /\ kept \in {candidate[c].old, episode.active}
    BY <1>0, RowFields DEF Types, DataTyped
  <2>2. Save(c, [candidate[c] EXCEPT !.stage = "downloading", !.old = kept]) /\ worker[c].pc = "start"
        /\ record'[c] = record[c] /\ torrent'[c] = torrent[c]
    BY <1>1 DEF StartDownload
  <2>3. worker'[c].pc = "checkpoint"
    BY <1>1, <1>g DEF StartDownload
  <2> HIDE DEF kept
  <2>4. /\ candidate'[c].status = candidate[c].status /\ candidate'[c].stage = "downloading"
        /\ candidate'[c].old = kept /\ candidate'[c].download = candidate[c].download
    <3>1. "downloading" \in Stages
      OBVIOUS
    <3>2. Saved(c, candidate[c].status, "downloading", kept, candidate[c].download, candidate[c].filed)
      BY <1>0, <2>1, <2>2, <3>1, OldSaved
    <3> QED
      BY <3>2 DEF Saved
  <2>5. candidate[c].stage \in {"", "queued", "downloading"}
    BY <1>p, <2>2 DEF PcFits
  <2>6. Belongings(c)'
    BY <1>h, <1>q, <2>2, <2>3, <2>4, <2>5 DEF Belongings, Holds, HoldsRow, HoldsTorrent
  <2>7. ~Pauses(c)
    BY <2>5 DEF Pauses
  <2> QED
    BY <1>k, <2>1, <2>4, <2>6, <2>7
<1>2. ASSUME StartCancelled(c) PROVE LeftInv'
  <2>1. /\ worker[c].pc = "start" /\ worker'[c].pc = "free"
        /\ record'[c] = record[c] /\ torrent'[c] = torrent[c]
    BY <1>2, <1>e DEF StartCancelled
  <2>2. CASE UNCHANGED candidate
    <3>1. Holds(candidate[c].status, candidate[c].stage, candidate[c].old, candidate[c].download,
                "free", record[c], torrent[c], rollback[c])
      BY <1>h, <2>1 DEF Holds, HoldsRow, HoldsTorrent
    <3> QED
      BY <1>l, <2>1, <2>2, <3>1
  <2>3. CASE /\ candidate[c].stage = "queued" /\ candidate[c].status = "replacing"
             /\ Save(c, [candidate[c] EXCEPT !.status = "failed", !.stage = ""])
    <3>1. candidate'[c].status = "failed" /\ candidate'[c].old = candidate[c].old
      BY <1>0, <2>3, StatusSaved DEF Saved, Statuses
    <3>2. record[c] = None /\ torrent[c] = "none" /\ rollback[c] = None
      BY <1>h, <1>p, <2>3 DEF Holds, HoldsRow, HoldsTorrent, RowFits
    <3>3. Belongings(c)' /\ ~Pauses(c)
      BY <1>q, <2>1, <2>3, <3>1, <3>2 DEF Belongings, Holds, Pauses
    <3> QED
      BY <1>k, <3>1, <3>3
  <2> QED
    BY <1>2, <2>2, <2>3 DEF StartCancelled
<1>3. ASSUME CheckpointDownload(c) PROVE LeftInv'
  <2>1. worker[c].pc = "checkpoint" /\ candidate[c].status = "replacing" /\ candidate[c].stage = "downloading"
        /\ torrent'[c] = torrent[c] /\ ~Pauses(c)
    BY <1>3 DEF CheckpointDownload, CheckpointHolds, Pauses
  <2>o. worker'[c].pc = "dl_failed" /\ torrent[c] # "none" => record[c] # None /\ record[c].owned
    BY <1>3 DEF Forsaken, Orphaned
  <2>2. CASE candidate[c].download
    <3>2. record[c] \in DownloadRow /\ record[c].hash \in BOOLEAN
      BY <1>0, <1>h, <2>1, <2>2 DEF Holds, HoldsRow, DownloadRow
    <3>1. /\ candidate' = candidate /\ record' = record
          /\ \/ record[c].hash /\ worker'[c].pc = "wait"
             \/ ~record[c].hash /\ worker'[c].pc = "hand_over"
             \/ worker'[c].pc = "dl_failed"
      BY <1>3, <1>g, <2>2, <3>2 DEF CheckpointDownload
    <3>3. Holds(candidate[c].status, candidate[c].stage, candidate[c].old, candidate[c].download,
                worker'[c].pc, record[c], torrent[c], rollback[c]) /\ worker'[c].pc # "fail"
      BY <1>h, <2>1, <2>2, <2>o, <3>1, <3>2 DEF Holds, HoldsRow, HoldsTorrent
    <3> QED
      BY <1>l, <2>1, <3>1, <3>3
  <2>3. CASE ~candidate[c].download
    <3>1. /\ Record(c, "downloading", FALSE, FALSE, FALSE)
          /\ Save(c, [candidate[c] EXCEPT !.download = TRUE])
          /\ worker'[c].pc \in {"hand_over", "dl_failed"}
      BY <1>3, <1>g, <2>3 DEF CheckpointDownload
    <3>2. record'[c] # None /\ record'[c].hash = FALSE
      BY <1>0, <3>1, RecordOf
    <3>3. /\ candidate'[c].status = "replacing" /\ candidate'[c].stage = "downloading"
          /\ candidate'[c].old = candidate[c].old /\ candidate'[c].download = TRUE
      BY <1>0, <2>1, <3>1, DownloadSaved DEF Saved
    <3>4. torrent[c] = "none" /\ rollback[c] = None
      BY <1>h, <2>1, <2>3 DEF Holds, HoldsRow, HoldsTorrent
    <3>5. Belongings(c)'
      BY <1>q, <2>1, <3>1, <3>2, <3>3, <3>4 DEF Belongings, Holds, HoldsRow, HoldsTorrent
    <3> QED
      BY <1>k, <2>1, <3>3, <3>5
  <2> QED
    BY <2>2, <2>3
<1>4. ASSUME CheckpointFails(c) PROVE LeftInv'
  <2>1. worker[c].pc = "checkpoint" /\ candidate' = candidate /\ record' = record /\ torrent' = torrent
    BY <1>4 DEF CheckpointFails, tables
  <2>2. worker'[c].pc = "free"
    <3>1. candidate[c].download =>
            candidate[c].status = "replacing" /\ candidate[c].stage = "downloading" /\ record[c] # None
      BY <1>0, <1>a, <1>h, <1>p, <2>1, RowFields DEF PcFits, RowFits, Holds, HoldsRow, Statuses
    <3>2. candidate[c].download \in BOOLEAN
      BY <1>0, RowFields
    <3>3. ~candidate[c].download
      BY <1>4, <3>1, <3>2 DEF CheckpointFails, CheckpointHolds
    <3> QED
      BY <1>4, <1>e, <3>3 DEF CheckpointFails
  <2>3. Holds(candidate[c].status, candidate[c].stage, candidate[c].old, candidate[c].download,
              "free", record[c], torrent[c], rollback[c])
    BY <1>h, <2>1 DEF Holds, HoldsRow, HoldsTorrent
  <2> QED
    BY <1>l, <2>1, <2>2, <2>3
<1>r. ASSUME worker[c].pc \notin {"start", "checkpoint"} PROVE candidate[c].status = "replacing"
  BY <1>a, <1>p, <1>r DEF PcFits
<1>5. ASSUME HandOver(c) \/ SaveOwnership(c) PROVE LeftInv'
  <2>1. /\ worker[c].pc \in {"hand_over", "own"} /\ candidate' = candidate /\ candidate[c].status = "replacing"
        /\ candidate[c].stage = "downloading"
    BY <1>5, <1>p, <1>r DEF HandOver, SaveOwnership, PcFits, tables
  <2>2. \/ worker'[c].pc = "wait" /\ record'[c] # None /\ record'[c].hash = TRUE /\ record'[c].owned = TRUE
        \/ worker'[c].pc \in {"own", "free"} /\ record'[c] = record[c]
    BY <1>0, <1>5, <1>e, <1>g, RecordOf DEF HandOver, SaveOwnership, tables
  <2>3. Holds(candidate[c].status, candidate[c].stage, candidate[c].old, candidate[c].download,
              worker'[c].pc, record'[c], torrent'[c], rollback[c])
    BY <1>h, <2>1, <2>2 DEF Holds, HoldsRow, HoldsTorrent
  <2> QED
    BY <1>l, <2>1, <2>2, <2>3
<1>6. ASSUME HandOverFails(c) PROVE LeftInv'
  <2>1. /\ worker[c].pc = "hand_over" /\ candidate' = candidate /\ candidate[c].status = "replacing"
        /\ record' = record /\ torrent' = torrent
        /\ worker'[c].pc = "free" \/ (worker'[c].pc = "dl_failed" /\ torrent[c] = "none")
    BY <1>6, <1>e, <1>g, <1>r DEF HandOverFails, tables
  <2>2. Holds(candidate[c].status, candidate[c].stage, candidate[c].old, candidate[c].download,
              worker'[c].pc, record[c], torrent[c], rollback[c])
    BY <1>h, <2>1 DEF Holds, HoldsRow, HoldsTorrent
  <2> QED
    BY <1>l, <2>1, <2>2
<1>7. ASSUME WaitForCompletion(c) \/ RenameStaged(c) \/ StagingFails(c) PROVE LeftInv'
  <2>1. /\ worker[c].pc \in {"wait", "file_paths", "rename", "detach_point", "recovered_point"}
        /\ candidate' = candidate /\ record' = record /\ torrent' = torrent
        /\ worker'[c].pc \in {"recovered_point", "file_paths", "detach_point", "dl_failed"}
    BY <1>7, <1>g DEF WaitForCompletion, RenameStaged, StagingFails, tables
  <2>2. candidate[c].status = "replacing" /\ candidate[c].stage = "downloading"
    BY <1>p, <1>r, <2>1 DEF PcFits
  <2>3. Holds(candidate[c].status, candidate[c].stage, candidate[c].old, candidate[c].download,
              worker'[c].pc, record[c], torrent[c], rollback[c])
    BY <1>h, <2>1, <2>2 DEF Holds, HoldsRow, HoldsTorrent
  <2> QED
    BY <1>l, <2>1, <2>3
<1>8. ASSUME WaitFails(c) \/ SaveFilePaths(c) PROVE LeftInv'
  <2>1. /\ worker[c].pc \in {"wait", "file_paths"} /\ candidate' = candidate /\ torrent' = torrent
        /\ worker'[c].pc \in {"dl_failed", "rename"}
    BY <1>8, <1>g DEF WaitFails, SaveFilePaths
  <2>2. candidate[c].status = "replacing" /\ candidate[c].stage = "downloading"
    BY <1>p, <1>r, <2>1 DEF PcFits
  <2>3. record'[c] # None /\ record'[c].hash = TRUE /\ record'[c].owned = TRUE
    <3>1. \E status \in {"failed", "downloading"}, filed \in BOOLEAN : Record(c, status, TRUE, TRUE, filed)
      BY <1>0, <1>8, RecordFiled DEF WaitFails, SaveFilePaths
    <3> QED
      BY <1>0, <3>1, RecordOf
  <2>4. Holds(candidate[c].status, candidate[c].stage, candidate[c].old, candidate[c].download,
              worker'[c].pc, record'[c], torrent[c], rollback[c])
    BY <1>h, <2>1, <2>2, <2>3 DEF Holds, HoldsRow, HoldsTorrent
  <2> QED
    BY <1>l, <2>1, <2>4
<1>9. ASSUME DetachCheckpoint(c) PROVE LeftInv'
  <2>1. /\ worker[c].pc \in {"detach_point", "recovered_point"} /\ record' = record /\ torrent' = torrent
        /\ worker'[c].pc \in {"detach", "recovered_detach"}
    BY <1>9, <1>g DEF DetachCheckpoint
  <2>2. candidate[c].status = "replacing" /\ candidate[c].stage = "downloading"
    BY <1>p, <1>r, <2>1 DEF PcFits
  <2>3. /\ candidate'[c].status = "replacing" /\ candidate'[c].stage = "detaching"
        /\ candidate'[c].old = candidate[c].old /\ candidate'[c].download = TRUE
    BY <1>0, <1>9, <2>2, StagedSaved DEF DetachCheckpoint, Saved
  <2>4. Belongings(c)' /\ ~Pauses(c)
    BY <1>h, <1>q, <2>1, <2>2, <2>3 DEF Belongings, Holds, HoldsRow, HoldsTorrent, Pauses
  <2> QED
    BY <1>k, <2>3, <2>4
<1>10. ASSUME Detach(c) \/ DetachFails(c) PROVE LeftInv'
  <2>1. /\ worker[c].pc \in {"detach", "recovered_detach", "redetach"} /\ candidate' = candidate /\ record' = record
        /\ \/ torrent'[c] = "none" /\ worker'[c].pc \in {"mark_staged", "mark_completed"}
           \/ torrent' = torrent /\ worker'[c].pc = "free"
    BY <1>0, <1>10, <1>e, <1>g DEF Detach, DetachFails, tables
  <2>2. candidate[c].status = "replacing" /\ candidate[c].stage = "detaching"
    BY <1>p, <1>r, <2>1 DEF PcFits
  <2>3. Holds(candidate[c].status, candidate[c].stage, candidate[c].old, candidate[c].download,
              worker'[c].pc, record[c], torrent'[c], rollback[c])
    BY <1>h, <2>1, <2>2 DEF Holds, HoldsRow, HoldsTorrent
  <2> QED
    BY <1>l, <2>1, <2>3
<1>11. ASSUME MarkStaged(c) \/ ToStaged(c) PROVE LeftInv'
  <2>1. /\ worker[c].pc \in {"mark_staged", "to_staged"} /\ record' = record /\ torrent' = torrent
        /\ worker'[c].pc \in {"mark_completed", "staged"}
    BY <1>11, <1>g DEF MarkStaged, ToStaged, FilePcs
  <2>2. candidate[c].status = "replacing" /\ candidate[c].stage \in {"detaching", "staged"}
    BY <1>p, <1>r, <2>1 DEF PcFits
  <2>3. /\ candidate'[c].status = "replacing" /\ candidate'[c].stage = "staged"
        /\ candidate'[c].old = candidate[c].old /\ candidate'[c].download = candidate[c].download
    BY <1>0, <1>11, <2>2, StageRow DEF MarkStaged, ToStaged, Saved
  <2>4. Belongings(c)' /\ (Pauses(c) => Pauses(c)')
    BY <1>h, <1>q, <2>1, <2>2, <2>3 DEF Belongings, Holds, HoldsRow, HoldsTorrent, Pauses
  <2> QED
    BY <1>k, <2>3, <2>4
<1>12. ASSUME MarkCompleted(c) PROVE LeftInv'
  <2>1. /\ worker[c].pc = "mark_completed" /\ candidate' = candidate /\ torrent' = torrent
        /\ worker'[c].pc = "to_staged" /\ Record(c, "completed", TRUE, FALSE, TRUE)
    BY <1>12, <1>g DEF MarkCompleted
  <2>2. candidate[c].status = "replacing" /\ record'[c] # None
    BY <1>0, <1>r, <2>1, RecordOf
  <2>3. Holds(candidate[c].status, candidate[c].stage, candidate[c].old, candidate[c].download,
              worker'[c].pc, record'[c], torrent[c], rollback[c])
    BY <1>h, <2>1, <2>2 DEF Holds, HoldsRow, HoldsTorrent
  <2> QED
    BY <1>l, <2>1, <2>3
<1>13. ASSUME DeletePayload(c) PROVE LeftInv'
  <2>1. /\ worker[c].pc \in {"dl_failed", "cleanup_payload"} /\ candidate' = candidate /\ record' = record
        /\ record[c] # None
        /\ \/ torrent'[c] = "none" /\ worker'[c].pc = "disown"
           \/ ~record[c].owned /\ torrent' = torrent /\ worker'[c].pc = "discard"
    BY <1>0, <1>13, <1>g DEF DeletePayload, tables
  <2>2. candidate[c].status = "replacing" /\ (worker[c].pc = "cleanup_payload" => candidate[c].stage = "download_cleanup")
    BY <1>p, <1>r, <2>1 DEF PcFits
  <2>3. torrent'[c] = "none"
    BY <1>h, <2>1, <2>2 DEF Holds, HoldsTorrent
  <2>4. Holds(candidate[c].status, candidate[c].stage, candidate[c].old, candidate[c].download,
              worker'[c].pc, record[c], torrent'[c], rollback[c])
    BY <1>h, <2>1, <2>2, <2>3 DEF Holds, HoldsRow, HoldsTorrent
  <2> QED
    BY <1>l, <2>1, <2>4
<1>14. ASSUME DeletePayloadFails(c) PROVE LeftInv'
  <2>1. /\ worker[c].pc \in {"dl_failed", "cleanup_payload", "disown"} /\ record' = record /\ torrent' = torrent
        /\ worker'[c].pc = "free"
        /\ Save(c, [candidate[c] EXCEPT !.status = "replacing", !.stage = "download_cleanup"])
    BY <1>14, <1>e DEF DeletePayloadFails
  <2>2. /\ candidate[c].status = "replacing"
        /\ candidate[c].stage \in {"downloading", "download_cleanup"}
    BY <1>p, <1>r, <2>1 DEF PcFits
  <2>3. /\ candidate'[c].status = "replacing" /\ candidate'[c].stage = "download_cleanup"
        /\ candidate'[c].old = candidate[c].old /\ candidate'[c].download = candidate[c].download
    BY <1>0, <2>1, StatusSaved DEF Saved, Statuses
  <2>4. torrent[c] # "none" => record[c] # None /\ record[c].owned
    BY <1>h, <1>p, <2>1, <2>2 DEF Holds, HoldsTorrent, PcFits
  <2>5. record[c] # None <=> candidate[c].download
    BY <1>h, <2>2 DEF Holds, HoldsRow
  <2>6. rollback[c] = None
    BY <1>h, <2>2 DEF Holds
  <2>7. Belongings(c)'
    BY <1>q, <2>1, <2>3, <2>4, <2>5, <2>6 DEF Belongings, Holds, HoldsRow, HoldsTorrent
  <2>8. ~Pauses(c)
    BY <2>2 DEF Pauses
  <2> QED
    BY <1>k, <2>3, <2>7, <2>8
<1>17. ASSUME Disown(c) PROVE LeftInv'
  <2> DEFINE filed == record[c] # None /\ record[c].filed
  <2>1. /\ worker[c].pc = "disown" /\ candidate' = candidate /\ torrent' = torrent
        /\ worker'[c].pc = "discard" /\ Record(c, "failed", TRUE, FALSE, filed)
    BY <1>17, <1>g DEF Disown
  <2>2. candidate[c].status = "replacing" /\ record[c] # None
    BY <1>h, <1>r, <2>1 DEF Holds, HoldsRow
  <2>3. filed \in BOOLEAN
    BY <1>0 DEF DownloadRow
  <2> HIDE DEF filed
  <2>4. record'[c] # None
    BY <1>0, <2>1, <2>3, RecordOf
  <2>5. Holds(candidate[c].status, candidate[c].stage, candidate[c].old, candidate[c].download,
              worker'[c].pc, record'[c], torrent[c], rollback[c])
    BY <1>h, <2>1, <2>2, <2>4 DEF Holds, HoldsRow, HoldsTorrent
  <2> QED
    BY <1>l, <2>1, <2>5
<1>15. ASSUME Discard(c) PROVE LeftInv'
  <2>1. /\ worker[c].pc = "discard" /\ torrent' = torrent /\ record'[c] = None /\ worker'[c].pc = "fail"
        /\ Save(c, [candidate[c] EXCEPT !.download = FALSE])
    BY <1>0, <1>15, <1>g DEF Discard, FilePcs
  <2>2. candidate[c].status = "replacing" /\ candidate[c].stage \in {"downloading", "download_cleanup"}
    BY <1>p, <1>r, <2>1 DEF PcFits
  <2>3. /\ candidate'[c].status = "replacing" /\ candidate'[c].stage = candidate[c].stage
        /\ candidate'[c].old = candidate[c].old /\ candidate'[c].download = FALSE
    BY <1>0, <2>1, <2>2, DownloadSaved DEF Saved
  <2>4. Belongings(c)' /\ ~Pauses(c)
    BY <1>h, <1>q, <2>1, <2>2, <2>3 DEF Belongings, Holds, HoldsRow, HoldsTorrent, Pauses
  <2> QED
    BY <1>k, <2>3, <2>4
<1>16. ASSUME DownloadSaveRefused(c) PROVE LeftInv'
  <2>1. /\ candidate' = candidate /\ record' = record /\ torrent' = torrent /\ worker'[c].pc = "free"
    BY <1>16, <1>e DEF DownloadSaveRefused, Refused, tables
  <2>2. Holds(candidate[c].status, candidate[c].stage, candidate[c].old, candidate[c].download,
              "free", record[c], torrent[c], rollback[c])
    BY <1>h DEF Holds, HoldsRow, HoldsTorrent
  <2> QED
    BY <1>l, <2>1, <2>2
<1> QED
  BY <1>1, <1>2, <1>3, <1>4, <1>5, <1>6, <1>7, <1>8, <1>9, <1>10, <1>11, <1>12, <1>13, <1>14, <1>15, <1>16, <1>17
     DEF DownloadsToStage

(* The exchange of the files: the candidate has no torrent any more, and   *)
(* the first download is paused until it is resumed or replaced.           *)
LEMMA ExchangeLeaves ==
  ASSUME LeftInv, ClaimInv', [Next]_replacementVars, ~Forsaken, NEW c \in Candidates, ExchangesFiles(c)
  PROVE  LeftInv'
<1> USE DEF Pcs, FilePcs, TerminalPcs, Stages, HasRowPcs, TorrentPcs, FileStages
<1>0. /\ ClaimInv /\ Types /\ RowInv(c) /\ Belongings(c) /\ c \in Downloads /\ c # Old /\ Old \in Downloads
      /\ OldsOwned /\ candidate[c] \in CandidateRow /\ worker[c] \in Worker
      /\ record \in [Downloads -> DownloadRow \cup {None}]
      /\ torrent \in [Downloads -> {"none", "downloading", "complete", "error", "paused", "seeding"}]
      /\ rollback \in [Candidates -> Downloads \cup {None}]
  BY DEF LeftInv, ClaimInv, Types, DataTyped, Downloads
<1>p. /\ PcFits(candidate[c].status, candidate[c].stage, candidate[c].old, worker[c].pc)
      /\ RowFits(candidate[c].status, candidate[c].stage, candidate[c].old, candidate[c].download)
      /\ FailureFits(candidate[c].stage, worker[c].pc, worker[c].stage)
  BY <1>0 DEF RowInv, Fits
<1>a. worker[c].pc \in FilePcs /\ candidate[c].status = "replacing"
  BY <1>p, ExchangesAt DEF PcFits
<1>h. /\ HoldsRow(candidate[c].stage, candidate[c].download, worker[c].pc, record[c])
      /\ HoldsTorrent(candidate[c].stage, worker[c].pc, record[c], torrent[c])
      /\ rollback[c] # None => candidate[c].stage \in FileStages /\ candidate[c].old # None
  BY <1>0, <1>a DEF Belongings, Holds
<1>t. torrent[c] = "none"
  BY <1>a, <1>h, <1>p DEF HoldsTorrent, PcFits
<1>e. ASSUME Ends(c) PROVE worker'[c].pc = "free"
  BY <1>0, <1>e, EndsTurned DEF Turned
<1>g. ASSUME NEW pc \in Pcs, Goes(c, pc) PROVE worker'[c].pc = pc
  BY <1>0, <1>g, GoesTurned DEF Turned
<1>x. \/ torrent' = torrent \/ torrent' = [torrent EXCEPT ![c] = "none"]
      \/ \E state \in {"paused", "seeding"} : Paused(c, state)
  BY DEF ExchangesFiles, PauseOld, PauseFails, BackUp, SaveBackUp, Promote, PromotedBefore, PromoteFails,
         SavePromoted, Switch, SwitchFails, Unpromote, UnbackUp, Restore, ResumeOld, SaveCompensation, RecordFailure,
         RemoveOwnTorrent, RemoveStaged, DiscardDownload, Failed, TerminalFails, FilesSaveRefused, Refused
<1>y. torrent'[c] = "none" /\ \A d \in Candidates \ {c} : Owned(d) \/ torrent'[d] = torrent[d]
  <2>1. ASSUME NEW state, Paused(c, state) PROVE <1>y
    <3>1. \A d \in Downloads : torrent'[d] # torrent[d] => d = candidate[c].old /\ torrent[d] # "none"
      BY <1>0, <2>1 DEF Paused
    <3>2. \A d \in Candidates : d = candidate[c].old => Owned(d)
      BY <1>0 DEF OldsOwned, Downloads
    <3> QED
      BY <1>0, <1>t, <3>1, <3>2 DEF Downloads
  <2>2. CASE torrent' = torrent \/ torrent' = [torrent EXCEPT ![c] = "none"]
    BY <1>0, <1>t, <2>2 DEF Downloads
  <2> QED
    BY <1>x, <2>1, <2>2
<1>q. \A d \in Candidates \ {c} :
        /\ candidate'[d] = candidate[d] /\ worker'[d] = worker[d] /\ rollback'[d] = rollback[d]
        /\ Owned(d) \/ (torrent'[d] = torrent[d] /\ record'[d] = record[d])
  BY <1>0, <1>y, FilesOthers, FilesRecords DEF Downloads
(* What is left to show of a step.                                         *)
<1>k. ASSUME candidate'[c].old \in {None, candidate[c].old}, episode' = episode,
             torrent'[Old] = "paused" => torrent[Old] = "paused" \/ Pauses(c)',
             Pauses(c) => Pauses(c)' \/ torrent'[Old] # "paused",
             candidate'[c].status = "replacing",
             HoldsRow(candidate'[c].stage, candidate'[c].download, worker'[c].pc, record'[c]),
             rollback'[c] # None => candidate'[c].stage \in FileStages /\ candidate'[c].old # None
      PROVE  LeftInv'
  <2>1. Belongings(c)'
    BY <1>k, <1>y DEF Belongings, Holds, HoldsTorrent
  <2> QED
    BY <1>k, <1>q, <2>1, LeftKept
(* ... of one that works on the files and saves nothing.                   *)
<1>l. ASSUME candidate' = candidate, record' = record, episode' = episode,
             worker'[c].pc \in FilePcs \cup {"free"}, worker'[c].pc # "terminal_done",
             rollback'[c] # None => candidate[c].stage \in FileStages /\ candidate[c].old # None,
             torrent' = torrent \/ Paused(c, "paused") \/ Paused(c, "seeding"),
             Paused(c, "paused") => candidate[c].stage \in FileStages,
             worker'[c].pc = "fail" /\ Pauses(c) => torrent'[Old] # "paused",
             worker'[c].pc = "fail" => ~Paused(c, "paused") \/ torrent' = torrent
      PROVE  LeftInv'
  <2>1. HoldsRow(candidate[c].stage, candidate[c].download, worker'[c].pc, record[c])
    BY <1>h, <1>l DEF HoldsRow
  <2>2. Pauses(c) => Pauses(c)' \/ torrent'[Old] # "paused"
    BY <1>l DEF Pauses
  <2>3. torrent'[Old] = "paused" => torrent[Old] = "paused" \/ Pauses(c)'
    <3>1. CASE Paused(c, "paused") /\ torrent' # torrent
      <4>1. candidate[c].old # Old => torrent'[Old] = torrent[Old]
        BY <1>0, <3>1 DEF Paused
      <4> QED
        BY <1>a, <1>l, <3>1, <4>1 DEF Pauses
    <3>2. CASE Paused(c, "seeding") /\ torrent' # torrent
      BY <1>0, <3>2 DEF Paused
    <3> QED
      BY <1>l, <3>1, <3>2
  <2> QED
    BY <1>a, <1>k, <1>l, <2>1, <2>2, <2>3
<1>n. ASSUME worker[c].pc \notin TerminalPcs, worker[c].pc # "fail" PROVE candidate[c].stage \in FileStages
  BY <1>a, <1>n, <1>p DEF PcFits
<1>1. ASSUME PauseOld(c) PROVE LeftInv'
  <2>1. /\ worker[c].pc = "staged" /\ candidate' = candidate /\ record' = record /\ episode' = episode
        /\ rollback' = rollback /\ worker'[c].pc \in {"free", "promote", "restore", "backup", "backup_save"}
        /\ torrent' = torrent \/ Paused(c, "paused")
    BY <1>1, <1>e, <1>g DEF PauseOld, tables, disk
  <2> QED
    BY <1>h, <1>l, <1>n, <2>1
<1>2. ASSUME PauseFails(c) PROVE LeftInv'
  <2>1. /\ worker[c].pc = "staged" /\ candidate' = candidate /\ record' = record /\ episode' = episode
        /\ rollback' = rollback /\ torrent' = torrent /\ worker'[c].pc \in {"free", "fail"}
    BY <1>2, <1>e, <1>g DEF PauseFails, tables, disk
  <2>2. worker'[c].pc = "fail" => ~Cancelled(c)
    BY <1>2, <1>e DEF PauseFails
  <2>3. worker'[c].pc = "fail" /\ Pauses(c) => torrent'[Old] # "paused"
    BY <1>2, <2>1, <2>2 DEF Forsaken, Pauses
  <2> QED
    BY <1>h, <1>l, <1>n, <2>1, <2>3
<1>3. ASSUME \/ BackUp(c) \/ Promote(c) \/ PromotedBefore(c) \/ PromoteFails(c) \/ SwitchFails(c)
             \/ Unpromote(c) \/ UnbackUp(c) \/ Restore(c)
             \/ (SaveBackUp(c) /\ ~Stage(c, "old_backed_up"))
      PROVE  LeftInv'
  <2>1. /\ worker[c].pc \in FilePcs \ (TerminalPcs \cup {"fail", "staged"}) /\ candidate' = candidate /\ record' = record
        /\ episode' = episode /\ torrent' = torrent
    BY <1>3 DEF BackUp, Promote, PromotedBefore, PromoteFails, SwitchFails, Unpromote, UnbackUp, Restore, SaveBackUp, tables
  <2>2. worker'[c].pc \in FilePcs \cup {"free"} /\ worker'[c].pc \notin {"terminal_done", "fail"}
    <3>0. worker[c].clean \in BOOLEAN
      BY <1>0, WorkerFields
    <3>1. ASSUME SwitchFails(c) \/ Unpromote(c) \/ UnbackUp(c) \/ Restore(c)
          PROVE  worker'[c].pc \in {"unpromote", "unbackup", "unresume", "resume"}
      <4>1. CASE SwitchFails(c)
        <5>1. Turned(c, "unpromote", "promoted", worker[c].new, worker[c].restored)
          BY <1>0, <4>1, FailedTurned DEF SwitchFails
        <5> QED
          BY <5>1 DEF Turned
      <4>2. CASE Unpromote(c)
        <5>1. PICK new \in BOOLEAN : Turned(c, "unbackup", worker[c].stage, new, worker[c].restored)
          BY <1>0, <4>2, NewTurned DEF Unpromote
        <5> QED
          BY <5>1 DEF Turned
      <4>3. CASE UnbackUp(c)
        <5>1. PICK restored \in BOOLEAN : Turned(c, "unresume", worker[c].stage, worker[c].new, restored)
          BY <1>0, <3>0, <4>3, RestoredTurned DEF UnbackUp
        <5> QED
          BY <5>1 DEF Turned
      <4>4. CASE Restore(c)
        <5>1. PICK restored \in BOOLEAN : Turned(c, "resume", worker[c].stage, worker[c].new, restored)
          BY <1>0, <4>4, RestoredTurned DEF Restore
        <5> QED
          BY <5>1 DEF Turned
      <4> QED
        BY <3>1, <4>1, <4>2, <4>3, <4>4
    <3>2. ASSUME SaveBackUp(c), ~Stage(c, "old_backed_up") PROVE worker'[c].pc = "restore"
      <4>1. Turned(c, "restore", "old_backed_up", worker[c].new, worker[c].restored)
        BY <1>0, <3>2, FailedTurned DEF SaveBackUp
      <4> QED
        BY <4>1 DEF Turned
    <3>3. ASSUME BackUp(c) \/ Promote(c) \/ PromotedBefore(c) \/ PromoteFails(c)
          PROVE  worker'[c].pc \in {"free", "backup_save", "restore", "promote_save", "promoted_save"}
      BY <1>e, <1>g, <3>3 DEF BackUp, Promote, PromotedBefore, PromoteFails
    <3> QED
      BY <1>3, <3>1, <3>2, <3>3
  <2>3. candidate[c].stage \in FileStages
    BY <1>n, <2>1
  <2>4. rollback'[c] # None => candidate[c].old # None
    <3>1. CASE BackUp(c)
      BY <1>p, <3>1 DEF BackUp, PcFits
    <3>2. CASE ~BackUp(c)
      <4>1. rollback' = rollback \/ MoveBack(c)
        BY <1>3, <3>2 DEF Promote, PromotedBefore, PromoteFails, SwitchFails, Unpromote, UnbackUp, Restore, SaveBackUp, disk
      <4>2. rollback'[c] \in {rollback[c], None}
        BY <1>0, <4>1 DEF MoveBack
      <4> QED
        BY <1>h, <4>2
    <3> QED
      BY <3>1, <3>2
  <2> QED
    BY <1>l, <2>1, <2>2, <2>3, <2>4
<1>4. ASSUME ResumeOld(c) PROVE LeftInv'
  <2>1. /\ worker[c].pc \in {"resume", "unresume"} /\ candidate' = candidate /\ record' = record
        /\ episode' = episode /\ rollback' = rollback
        /\ worker'[c].pc \in {"fail", "compensated"} /\ (torrent' = torrent \/ Paused(c, "seeding"))
    <3>1. \E pc \in {"fail", "compensated"} : worker' = [worker EXCEPT ![c].pc = pc]
      BY <1>4 DEF ResumeOld
    <3>2. worker'[c].pc \in {"fail", "compensated"}
      BY <1>0, <3>1, PcTurned DEF Turned
    <3> QED
      BY <1>4, <3>2 DEF ResumeOld, tables, disk
  <2>2. worker'[c].pc = "fail" /\ Pauses(c) => torrent'[Old] # "paused"
    <3> SUFFICES ASSUME worker'[c].pc = "fail", Pauses(c) PROVE torrent'[Old] # "paused"
      OBVIOUS
    <3>1. worker' = [worker EXCEPT ![c].pc = "compensated"] => worker'[c].pc = "compensated"
      BY <1>0, PcTurned DEF Turned
    <3>2. /\ worker' = [worker EXCEPT ![c].pc = IF worker[c].clean /\ worker[c].new /\ worker[c].restored
                                                THEN "fail" ELSE "compensated"]
          /\ IF worker[c].new /\ worker[c].restored /\ candidate[c].old # None THEN Paused(c, "seeding") ELSE UNCHANGED torrent
      BY <1>4, <3>1 DEF ResumeOld
    <3>3. worker[c].clean /\ worker[c].new /\ worker[c].restored
      <4>1. worker'[c].pc = IF worker[c].clean /\ worker[c].new /\ worker[c].restored THEN "fail" ELSE "compensated"
        <5> DEFINE pc == IF worker[c].clean /\ worker[c].new /\ worker[c].restored THEN "fail" ELSE "compensated"
        <5>1. pc \in Pcs /\ worker' = [worker EXCEPT ![c].pc = pc]
          BY <3>2
        <5> HIDE DEF pc
        <5>2. worker'[c].pc = pc
          BY <1>0, <5>1, PcTurned DEF Turned
        <5> QED
          BY <5>2 DEF pc
      <4> QED
        BY <4>1
    <3>4. candidate[c].old = Old /\ Paused(c, "seeding")
      BY <3>2, <3>3 DEF Pauses, Downloads
    <3> QED
      BY <1>0, <3>4 DEF Paused
  <2>3. Paused(c, "paused") => candidate[c].stage \in FileStages
    BY <1>n, <2>1
  <2>4. ~Paused(c, "paused") \/ torrent' = torrent \/ worker'[c].pc # "fail"
    <3>1. candidate[c].old # None => candidate[c].old \in Downloads
      BY <1>0, RowFields
    <3> SUFFICES ASSUME Paused(c, "paused"), Paused(c, "seeding") PROVE torrent' = torrent
      BY <2>1
    <3>2. candidate[c].old \in Downloads => torrent'[candidate[c].old] \in {"none"}
      BY <1>0 DEF Paused
    <3> QED
      BY <1>0, <3>1, <3>2 DEF Paused
  <2> QED
    BY <1>h, <1>l, <2>1, <2>2, <2>3, <2>4
<1>5. ASSUME (SaveBackUp(c) /\ Stage(c, "old_backed_up")) \/ SavePromoted(c) \/ SaveCompensation(c) PROVE LeftInv'
  <2>1. /\ worker[c].pc \in {"backup_save", "promote_save", "promoted_save", "compensated"} /\ record' = record
        /\ episode' = episode /\ torrent' = torrent
    BY <1>5 DEF SaveBackUp, SavePromoted, SaveCompensation
  <2>2. /\ candidate'[c].status = "replacing" /\ candidate'[c].stage \in FileStages
        /\ candidate'[c].old = candidate[c].old /\ candidate'[c].download = candidate[c].download
    <3>1. ASSUME NEW stage \in FileStages, Stage(c, stage) PROVE <2>2
      BY <1>0, <1>a, <3>1, StageRow DEF Saved
    <3>2. ASSUME NEW stage \in FileStages, Save(c, [candidate[c] EXCEPT !.status = "replacing", !.stage = stage]) PROVE <2>2
      BY <1>0, <3>2, StatusSaved DEF Saved, Statuses
    <3>3. CASE SaveCompensation(c)
      <4> DEFINE stage == IF ~worker[c].new THEN "promoted" ELSE IF ~worker[c].restored THEN "old_backed_up" ELSE "staged"
      <4>1. Save(c, [candidate[c] EXCEPT !.status = "replacing", !.stage = stage]) /\ stage \in FileStages
        BY <3>3 DEF SaveCompensation
      <4> HIDE DEF stage
      <4> QED
        BY <3>2, <4>1
    <3> QED
      BY <1>5, <3>1, <3>3 DEF SavePromoted
  <2>3. worker'[c].pc \in {"promote", "switch", "free"} /\ rollback' = rollback
    <3>1. CASE SaveBackUp(c) /\ Stage(c, "old_backed_up")
      <4>1. candidate' # candidate
        BY <1>0, <1>p, <2>1, <3>1, StageRow DEF Saved, PcFits, SaveBackUp
      <4> QED
        BY <1>g, <3>1, <4>1 DEF SaveBackUp
    <3>2. CASE SavePromoted(c) \/ SaveCompensation(c)
      BY <1>e, <1>g, <3>2 DEF SavePromoted, SaveCompensation, disk
    <3> QED
      BY <1>5, <3>1, <3>2
  <2>4. HoldsRow(candidate'[c].stage, candidate'[c].download, worker'[c].pc, record'[c])
    BY <1>h, <2>1, <2>2, <2>3 DEF HoldsRow
  <2> QED
    BY <1>h, <1>k, <2>1, <2>2, <2>3, <2>4 DEF Pauses
<1>6. ASSUME Switch(c) PROVE LeftInv'
  <2> DEFINE row == [candidate[c] EXCEPT !.status = "accepted_cleanup_failed", !.stage = "switched"]
  <2>1. /\ Save(c, row) /\ torrent' = torrent /\ rollback' = rollback
        /\ episode'.active = c
    BY <1>6 DEF Switch, disk
  <2>2. candidate'[c].status = "accepted_cleanup_failed" /\ candidate'[c].old = candidate[c].old
    BY <1>0, <2>1, StatusSaved DEF Saved, Statuses
  <2>3. Accepted(c)' /\ Belongings(c)'
    BY <2>2 DEF Accepted, Belongings, Holds
  <2> QED
    BY <1>q, <2>1, <2>2, <2>3, LeftKept
<1>7. ASSUME RecordFailure(c) PROVE LeftInv'
  <2>1. worker[c].pc = "fail" /\ record' = record /\ episode' = episode /\ torrent' = torrent /\ rollback' = rollback
    BY <1>7 DEF RecordFailure, disk
  <2>2. CASE OldInPlace(c)
    <3>1. worker'[c].pc = "terminal"
          /\ Save(c, [candidate[c] EXCEPT !.status = "replacing", !.stage = "terminal_cleanup"])
      BY <1>7, <1>g, <2>2 DEF RecordFailure
    <3>2. /\ candidate'[c].status = "replacing" /\ candidate'[c].stage = "terminal_cleanup"
          /\ candidate'[c].old = candidate[c].old /\ candidate'[c].download = candidate[c].download
      BY <1>0, <3>1, StatusSaved DEF Saved, Statuses
    <3>3. rollback[c] = None
      BY <1>h, <2>2 DEF OldInPlace
    <3>4. HoldsRow(candidate'[c].stage, candidate'[c].download, worker'[c].pc, record'[c])
      BY <1>h, <2>1, <3>1, <3>2 DEF HoldsRow
    <3>5. ~Pauses(c)
      BY <2>1 DEF Pauses
    <3> QED
      BY <1>k, <2>1, <3>2, <3>3, <3>4, <3>5
  <2>3. CASE ~OldInPlace(c)
    <3> DEFINE stage == IF worker[c].stage = "" THEN candidate[c].stage ELSE worker[c].stage
    <3>1. worker'[c].pc = "free" /\ Save(c, [candidate[c] EXCEPT !.status = "replacing", !.stage = stage])
      BY <1>7, <1>e, <2>3 DEF RecordFailure
    <3>a. stage \in Stages /\ (candidate[c].stage \in FileStages => stage \in FileStages) /\ stage # "detaching"
      BY <1>0, <1>p, <2>1, RowFields, WorkerFields DEF PcFits
    <3> HIDE DEF stage
    <3>2. /\ candidate'[c].status = "replacing" /\ candidate'[c].stage = stage
          /\ candidate'[c].old = candidate[c].old /\ candidate'[c].download = candidate[c].download
      BY <1>0, <3>1, <3>a, StatusSaved DEF Saved, Statuses
    <3>4. HoldsRow(candidate'[c].stage, candidate'[c].download, worker'[c].pc, record'[c])
      BY <1>h, <2>1, <3>1, <3>2, <3>a DEF HoldsRow
    <3>5. ~Pauses(c)
      BY <2>1 DEF Pauses
    <3> QED
      BY <1>h, <1>k, <2>1, <3>2, <3>4, <3>5, <3>a
  <2> QED
    BY <2>2, <2>3
(* The terminal steps: the files are back.                                 *)
<1>z. ASSUME worker[c].pc \in TerminalPcs
      PROVE  /\ rollback[c] = None /\ ~Pauses(c)
             /\ torrent'[Old] = "paused" => torrent[Old] = "paused" \/ (\E state \in {"paused", "seeding"} : Paused(c, state))
  <2>1. candidate[c].stage = "terminal_cleanup"
    BY <1>p, <1>z DEF PcFits
  <2> QED
    BY <1>0, <1>h, <1>x, <2>1 DEF Pauses
<1>8. ASSUME RemoveOwnTorrent(c) PROVE LeftInv'
  <2>1. /\ worker[c].pc = "terminal" /\ candidate' = candidate /\ episode' = episode /\ rollback' = rollback
        /\ worker'[c].pc \in {"free", "terminal_file"} /\ (torrent' = torrent \/ torrent' = [torrent EXCEPT ![c] = "none"])
    BY <1>8, <1>e, <1>g DEF RemoveOwnTorrent, disk
  <2>2. record'[c] # None <=> record[c] # None
    <3>1. record' = record \/ (record[c] # None /\ record' = [record EXCEPT ![c].owned = FALSE])
      BY <1>8 DEF RemoveOwnTorrent
    <3>2. ASSUME record[c] # None, record' = [record EXCEPT ![c].owned = FALSE] PROVE record'[c] # None
      <4>1. record[c] \in DownloadRow /\ record'[c] = [record[c] EXCEPT !.owned = FALSE]
        BY <1>0, <3>2
      <4>2. [record[c] EXCEPT !.owned = FALSE] \in DownloadRow
        BY <4>1 DEF DownloadRow
      <4> QED
        BY <4>1, <4>2
    <3> QED
      BY <3>1, <3>2
  <2>3. HoldsRow(candidate'[c].stage, candidate'[c].download, worker'[c].pc, record'[c])
    BY <1>h, <1>p, <2>1, <2>2 DEF HoldsRow, PcFits
  <2>4. torrent'[Old] = torrent[Old]
    BY <1>0, <2>1
  <2> QED
    BY <1>a, <1>k, <1>z, <2>1, <2>3, <2>4
<1>9. ASSUME RemoveStaged(c) \/ TerminalFails(c) \/ (FilesSaveRefused(c) /\ worker[c].pc \in TerminalPcs) PROVE LeftInv'
  <2>1. /\ worker[c].pc \in TerminalPcs /\ candidate' = candidate /\ record' = record /\ episode' = episode
        /\ torrent' = torrent /\ rollback' = rollback /\ worker'[c].pc \in {"free", "terminal_row"}
    BY <1>9, <1>e, <1>g DEF RemoveStaged, TerminalFails, FilesSaveRefused, Refused, tables, disk
  <2>2. HoldsRow(candidate'[c].stage, candidate'[c].download, worker'[c].pc, record'[c])
    BY <1>h, <2>1 DEF HoldsRow
  <2> QED
    BY <1>a, <1>k, <1>z, <2>1, <2>2
<1>10. ASSUME FilesSaveRefused(c), worker[c].pc \notin TerminalPcs PROVE LeftInv'
  <2>1. /\ candidate' = candidate /\ record' = record /\ episode' = episode
        /\ torrent' = torrent /\ rollback' = rollback /\ worker'[c].pc = "free"
    BY <1>10, <1>e DEF FilesSaveRefused, Refused, tables, disk
  <2>2. HoldsRow(candidate'[c].stage, candidate'[c].download, worker'[c].pc, record'[c])
    BY <1>h, <2>1 DEF HoldsRow
  <2>3. Pauses(c) => Pauses(c)'
    BY <2>1 DEF Pauses
  <2> QED
    BY <1>a, <1>h, <1>k, <2>1, <2>2, <2>3
<1>11. ASSUME DiscardDownload(c) PROVE LeftInv'
  <2>1. /\ worker[c].pc = "terminal_row" /\ Save(c, [candidate[c] EXCEPT !.download = FALSE]) /\ record'[c] = None
        /\ episode' = episode /\ torrent' = torrent /\ rollback' = rollback /\ worker'[c].pc = "terminal_done"
    BY <1>0, <1>11, <1>g DEF DiscardDownload, disk
  <2>2. /\ candidate'[c].status = "replacing" /\ candidate'[c].stage = candidate[c].stage
        /\ candidate'[c].old = candidate[c].old /\ candidate'[c].download = FALSE
    BY <1>0, <1>a, <2>1, DownloadSaved DEF Saved
  <2>3. HoldsRow(candidate'[c].stage, candidate'[c].download, worker'[c].pc, record'[c])
    BY <1>p, <2>1, <2>2 DEF HoldsRow, PcFits
  <2> QED
    BY <1>k, <1>z, <2>1, <2>2, <2>3
<1>12. ASSUME Failed(c) PROVE LeftInv'
  <2>1. /\ worker[c].pc = "terminal_done" /\ record' = record /\ episode' = episode /\ torrent' = torrent
        /\ rollback' = rollback
        /\ Save(c, [status |-> "failed", stage |-> "", old |-> None, download |-> FALSE, filed |-> FALSE])
    BY <1>12 DEF Failed, disk
  <2>2. candidate'[c].status = "failed" /\ candidate'[c].old = None
    BY <1>0, <2>1 DEF Save, Types
  <2>3. record[c] = None
    BY <1>h, <2>1 DEF HoldsRow
  <2>4. Belongings(c)'
    BY <1>t, <1>z, <2>1, <2>2, <2>3 DEF Belongings, Holds
  <2> QED
    BY <1>q, <1>z, <2>1, <2>2, <2>4, LeftKept
<1> QED
  BY <1>1, <1>2, <1>3, <1>4, <1>5, <1>6, <1>7, <1>8, <1>9, <1>10, <1>11, <1>12 DEF ExchangesFiles

(* The cleanup after the switch: only what accepted candidates and the     *)
(* first download have is removed.                                         *)
LEMMA CleanupLeaves ==
  ASSUME LeftInv, ClaimInv', [Next]_replacementVars, NEW c \in Candidates, CleansUp(c)
  PROVE  LeftInv'
<1>0. /\ ClaimInv /\ Types /\ OldsOwned /\ c \in Downloads
      /\ record \in [Downloads -> DownloadRow \cup {None}]
      /\ torrent \in [Downloads -> {"none", "downloading", "complete", "error", "paused", "seeding"}]
  BY DEF LeftInv, ClaimInv, Types, DataTyped, Downloads
<1>1. Accepted(c) /\ Accepted(c)'
  BY <1>0, CleanupAccepted
<1>2. Belongings(c)'
  BY <1>1 DEF Accepted, Belongings, Holds
<1>3. candidate'[c].old = candidate[c].old
  <2>1. \/ candidate' = candidate
        \/ \E stage \in Stages : Stage(c, stage)
        \/ Save(c, [candidate[c] EXCEPT !.status = "accepted", !.stage = "done"])
    BY DEF CleansUp, ClaimCleanup, BeginCleanup, RemoveOldTorrent, RemoveRollback, RemoveOldRecord, tables,
           FinishCleanup, CleanupFails, CleanupSaveRefused, Refused, Stages
  <2>2. ASSUME NEW stage \in Stages, Stage(c, stage) PROVE candidate'[c].old = candidate[c].old
    BY <1>0, <2>2, StageRow DEF Saved
  <2>3. ASSUME Save(c, [candidate[c] EXCEPT !.status = "accepted", !.stage = "done"])
        PROVE  candidate'[c].old = candidate[c].old
    BY <1>0, <2>3, StatusSaved DEF Saved, Statuses, Stages
  <2> QED
    BY <2>1, <2>2, <2>3
<1>4. ASSUME NEW d \in Downloads, d # candidate[c].old PROVE torrent'[d] = torrent[d] /\ record'[d] = record[d]
  BY <1>0, <1>4 DEF CleansUp, ClaimCleanup, BeginCleanup, RemoveOldTorrent, RemoveRollback, RemoveOldRecord,
         FinishCleanup, CleanupFails, CleanupSaveRefused, Refused, tables
<1>5. \A d \in Candidates : d = candidate[c].old => Owned(d)
  BY <1>0 DEF OldsOwned, Downloads
<1>6. episode'.active \in {None, episode.active}
  <2>1. episode \in [status : {"missing", "ignored", "marked_downloaded", "downloaded"},
                     active : Downloads \cup {None}]
    BY <1>0 DEF Types, DataTyped
  <2>2. episode' = episode \/ episode' = [episode EXCEPT !.active = None]
    BY DEF CleansUp, ClaimCleanup, BeginCleanup, RemoveOldTorrent, RemoveRollback, RemoveOldRecord,
           FinishCleanup, CleanupFails, CleanupSaveRefused, Refused, tables
  <2> QED
    BY <2>1, <2>2
<1>7. \A d \in Candidates \ {c} :
        /\ candidate'[d] = candidate[d] /\ worker'[d] = worker[d] /\ rollback'[d] = rollback[d]
        /\ Owned(d) \/ (torrent'[d] = torrent[d] /\ record'[d] = record[d])
  BY <1>0, <1>4, <1>5, CleanupOthers DEF Downloads
<1> QED
  BY <1>1, <1>2, <1>3, <1>6, <1>7, LeftKept

(* Where advance begins.                                                   *)
BeginPcs == {"cleanup", "terminal", "cleanup_payload", "redetach", "staged", "promote", "switch", "start"}

(* The rows of the candidates stay: work begins or is forgotten, torrents  *)
(* go on, and what is deleted belongs to no candidate under way.           *)
LEMMA AroundLeft ==
  ASSUME LeftInv, ClaimInv', UNCHANGED <<candidate, rollback>>,
         episode'.active \in {None, episode.active},
         torrent'[Old] = "paused" => torrent[Old] = "paused",
         \A d \in Candidates :
           /\ worker'[d].pc = worker[d].pc \/ worker'[d].pc \in BeginPcs \cup {"free", "claimed"}
           /\ \/ Accepted(d)
              \/ record'[d] = record[d] /\ torrent'[d] \in {torrent[d], "none"}
              \/ record'[d] = record[d] /\ torrent'[d] # "none" /\ torrent[d] # "none"
  PROVE  LeftInv'
<1>1. OldsOwned'
  BY DEF LeftInv, OldsOwned, Owned, Accepted
<1>2. OldPaused'
  <2>1. \A d \in Candidates : (Accepted(d) => Accepted(d)') /\ (Pauses(d) => Pauses(d)')
    BY DEF Accepted, Pauses, BeginPcs
  <2> QED
    BY <2>1 DEF LeftInv, OldPaused
<1>3. ASSUME NEW d \in Candidates PROVE Belongings(d)'
  <2>1. CASE Accepted(d)
    BY <2>1 DEF Accepted, Belongings, Holds
  <2>2. CASE ~Accepted(d)
    <3>1. /\ Belongings(d) /\ record'[d] = record[d] /\ (torrent[d] = "none" => torrent'[d] = "none")
      BY <2>2 DEF LeftInv
    <3>2. CASE worker'[d].pc = worker[d].pc
      BY <3>1, <3>2 DEF Belongings, Holds, HoldsRow, HoldsTorrent
    <3>3. CASE worker'[d].pc \in BeginPcs \cup {"free", "claimed"}
      BY <3>1, <3>3 DEF Belongings, Holds, HoldsRow, HoldsTorrent, BeginPcs, HasRowPcs, TorrentPcs
    <3> QED
      BY <3>2, <3>3
  <2> QED
    BY <2>1, <2>2
<1> QED
  BY <1>1, <1>2, <1>3 DEF LeftInv

(* Only the row of one candidate changes.                                  *)
LEMMA RowLeft ==
  ASSUME LeftInv, ClaimInv', [Next]_replacementVars, NEW c \in Candidates,
         UNCHANGED <<episode, record, torrent, rollback, worker>>,
         \A d \in Candidates \ {c} : candidate'[d] = candidate[d],
         Pauses(c) => Accepted(c)',
         candidate'[c].old \in {None, candidate[c].old},
         Belongings(c)'
  PROVE  LeftInv'
<1>1. \A d \in Candidates \ {c} :
        /\ candidate'[d] = candidate[d] /\ worker'[d] = worker[d] /\ rollback'[d] = rollback[d]
        /\ Owned(d) \/ (torrent'[d] = torrent[d] /\ record'[d] = record[d])
  OBVIOUS
<1> QED
  BY <1>1, LeftKept

LEMMA BeginsLeave ==
  ASSUME LeftInv, ClaimInv', [Next]_replacementVars, NEW c \in Candidates, Begins(c)
  PROVE  LeftInv'
<1>0. /\ ClaimInv /\ Types /\ RowInv(c) /\ Belongings(c) /\ worker \in [Candidates -> Worker]
      /\ candidate \in [Candidates -> CandidateRow]
  BY DEF LeftInv, ClaimInv, Types
<1>r. RowFits(candidate[c].status, candidate[c].stage, candidate[c].old, candidate[c].download)
  BY <1>0 DEF RowInv, Fits
<1>f. ASSUME UNCHANGED <<candidate, episode, record, torrent, rollback, worker>> PROVE LeftInv'
  BY <1>f, AroundLeft
<1>b. ASSUME NEW pc \in BeginPcs \cup {"claimed"}, NEW by \in {"task", "recovery"},
             worker' = [worker EXCEPT ![c] = Busy(pc, by)],
             UNCHANGED <<candidate, episode, record, torrent, rollback>>
      PROVE  LeftInv'
  <2>1. pc \in Pcs
    BY DEF BeginPcs, Pcs, DownloadPcs, FilePcs, CleanupPcs, TerminalPcs
  <2>2. Busy(pc, by).pc = pc
    BY <2>1, BusyWorker
  <2>3. worker'[c].pc = pc /\ \A d \in Candidates \ {c} : worker'[d] = worker[d]
    BY <1>0, <1>b, <2>2
  <2>4. \A d \in Candidates :
          /\ worker'[d].pc = worker[d].pc \/ worker'[d].pc \in BeginPcs \cup {"free", "claimed"}
          /\ \/ Accepted(d)
             \/ record'[d] = record[d] /\ torrent'[d] \in {torrent[d], "none"}
             \/ record'[d] = record[d] /\ torrent'[d] # "none" /\ torrent[d] # "none"
    BY <1>b, <2>3
  <2> QED
    BY <1>b, <2>4, AroundLeft
<1>a. AdvanceFrom(candidate[c]) \in BeginPcs
  BY AdvanceBegins DEF BeginPcs
<1>1. ASSUME ContinueReplace(c) PROVE LeftInv'
  <2>1. UNCHANGED <<episode, record, torrent, rollback>>
    BY <1>1 DEF ContinueReplace, disk
  <2>2. CASE Takes(c, AdvanceFrom(candidate[c]), "task")
    BY <1>a, <1>b, <2>1, <2>2 DEF Takes
  <2>3. CASE /\ candidate' = [candidate EXCEPT ![c] =
                  IF task.cancelled /\ @.status = "replacing" /\ @.stage = "queued"
                  THEN [@ EXCEPT !.status = "failed", !.stage = ""] ELSE @]
             /\ UNCHANGED worker
    <3>1. CASE task.cancelled /\ candidate[c].status = "replacing" /\ candidate[c].stage = "queued"
      <4>1. /\ candidate'[c].status = "failed" /\ candidate'[c].old = candidate[c].old
            /\ \A d \in Candidates \ {c} : candidate'[d] = candidate[d]
        BY <1>0, <2>3, <3>1 DEF CandidateRow
      <4>2. record[c] = None /\ torrent[c] = "none" /\ rollback[c] = None
        BY <1>0, <1>r, <3>1 DEF Belongings, Holds, HoldsRow, HoldsTorrent, RowFits, FileStages
      <4>3. Belongings(c)' /\ ~Pauses(c)
        BY <2>1, <3>1, <4>1, <4>2 DEF Belongings, Holds, Pauses, FileStages
      <4> QED
        BY <2>1, <2>3, <4>1, <4>3, RowLeft
    <3>2. CASE ~(task.cancelled /\ candidate[c].status = "replacing" /\ candidate[c].stage = "queued")
      <4>1. candidate' = candidate
        BY <1>0, <2>3, <3>2
      <4> QED
        BY <1>f, <2>1, <2>3, <4>1
    <3> QED
      BY <3>1, <3>2
  <2> QED
    BY <1>1, <2>2, <2>3 DEF ContinueReplace
<1>2. ASSUME ContinueRetryCleanup(c) PROVE LeftInv'
  <2>1. UNCHANGED <<episode, record, torrent, rollback>>
    BY <1>2 DEF ContinueRetryCleanup, disk
  <2>2. CASE Takes(c, "claimed", "task")
    BY <1>b, <2>1, <2>2 DEF Takes
  <2>3. CASE candidate[c].stage = "cleanup_queued" /\ Stage(c, "cleaning") /\ UNCHANGED worker
    <3>1. candidate[c].status = "accepted_cleanup_failed"
      BY <1>0, <1>r, <2>3, RowFields DEF RowFits, Statuses
    <3>2. candidate'[c].status = candidate[c].status /\ candidate'[c].old = candidate[c].old
      BY <1>0, <2>3, StageRow DEF Saved, Stages
    <3>3. \A d \in Candidates \ {c} : candidate'[d] = candidate[d]
      BY <1>0, <2>3 DEF Stage, Save
    <3>4. Belongings(c)' /\ Accepted(c)'
      BY <3>1, <3>2 DEF Belongings, Holds, Accepted
    <3> QED
      BY <2>1, <2>3, <3>2, <3>3, <3>4, RowLeft
  <2>4. CASE UNCHANGED candidate /\ UNCHANGED worker
    BY <1>f, <2>1, <2>4
  <2> QED
    BY <1>2, <2>2, <2>3, <2>4 DEF ContinueRetryCleanup
<1>3. ASSUME Recover(c) PROVE LeftInv'
  <2>1. UNCHANGED <<candidate, episode, record, torrent, rollback>>
    BY <1>3 DEF Recover, tables, disk
  <2>2. CASE worker' = [worker EXCEPT ![c] = Busy(AdvanceFrom(candidate[c]), "recovery")]
    BY <1>a, <1>b, <2>1, <2>2
  <2>3. CASE UNCHANGED worker
    BY <1>f, <2>1, <2>3
  <2> QED
    BY <1>3, <2>2, <2>3 DEF Recover
<1> QED
  BY <1>1, <1>2, <1>3 DEF Begins

(* The user deletes a download: what a replacement under way has of its    *)
(* own is its row, and that one is not deleted.                            *)
LEMMA DeleteLeaves ==
  ASSUME LeftInv, ClaimInv', ~Forsaken, NEW d \in Downloads, DeleteDownload(d)
  PROVE  LeftInv'
<1>0. /\ ClaimInv /\ Types
      /\ record \in [Downloads -> DownloadRow \cup {None}]
      /\ torrent \in [Downloads -> {"none", "downloading", "complete", "error", "paused", "seeding"}]
      /\ episode \in [status : {"missing", "ignored", "marked_downloaded", "downloaded"},
                      active : Downloads \cup {None}]
      /\ \A c \in Candidates : candidate[c] \in CandidateRow /\ c \in Downloads
  BY DEF LeftInv, ClaimInv, Types, DataTyped, Downloads
<1>1. UNCHANGED <<candidate, rollback, worker>> /\ episode'.active \in {None, episode.active}
  BY <1>0 DEF DeleteDownload, RequestDelete, DeleteTorrentWithPayload, DeletePayloadOf, DeleteRow, tables, disk
<1>2. \A e \in Downloads : torrent'[e] \in {torrent[e], "none"}
  BY <1>0 DEF DeleteDownload, RequestDelete, DeleteTorrentWithPayload, DeletePayloadOf, DeleteRow
<1>3. ASSUME NEW c \in Candidates PROVE Accepted(c) \/ record'[c] = record[c]
  <2>1. CASE record' = record
    BY <2>1
  <2>2. CASE DeleteRow(d) /\ c # d
    BY <1>0, <2>2 DEF DeleteRow
  <2>3. CASE DeleteRow(d) /\ c = d
    <3>1. ~Replacing(c)
      BY <2>3 DEF Forsaken
    <3>2. Belongings(c) /\ candidate[c].status \in Statuses
      BY <1>0, RowFields DEF LeftInv
    <3>3. Accepted(c) \/ record[c] = None
      BY <3>1, <3>2 DEF Belongings, Holds, Replacing, Accepted, Statuses
    <3>4. record'[c] \in {record[c], None}
      BY <1>0, <2>3 DEF DeleteRow
    <3> QED
      BY <3>3, <3>4
  <2> QED
    BY <2>1, <2>2, <2>3 DEF DeleteDownload, RequestDelete, DeleteTorrentWithPayload, tables
<1>4. torrent'[Old] = "paused" => torrent[Old] = "paused"
  BY <1>2 DEF Downloads
<1>5. \A c \in Candidates :
        /\ worker'[c].pc = worker[c].pc \/ worker'[c].pc \in BeginPcs \cup {"free", "claimed"}
        /\ \/ Accepted(c)
           \/ record'[c] = record[c] /\ torrent'[c] \in {torrent[c], "none"}
           \/ record'[c] = record[c] /\ torrent'[c] # "none" /\ torrent[c] # "none"
  BY <1>0, <1>1, <1>2, <1>3
<1> QED
  BY <1>1, <1>4, <1>5, AroundLeft

LEMMA RequestsLeave ==
  ASSUME LeftInv, ClaimInv', [Next]_replacementVars, ~Forsaken, Requests
  PROVE  LeftInv'
<1>0. /\ ClaimInv /\ Types /\ candidate \in [Candidates -> CandidateRow]
      /\ \A c \in Candidates : Belongings(c)
  BY DEF LeftInv, ClaimInv, Types
<1>1. ASSUME NEW c \in Candidates, PrepareReplace(c) PROVE LeftInv'
  <2> DEFINE row == [status |-> "replacing", stage |-> "queued", old |-> None, download |-> FALSE, filed |-> FALSE]
  <2>1. /\ candidate[c].status \in {"pending", "failed"} /\ worker[c].pc = "free"
        /\ UNCHANGED <<episode, record, torrent, rollback, worker>>
        /\ candidate' = [candidate EXCEPT ![c] = row]
    BY <1>1 DEF PrepareReplace, Claimable, Requested, Save, disk
  <2>2. candidate'[c] = row /\ \A d \in Candidates \ {c} : candidate'[d] = candidate[d]
    BY <1>0, <2>1
  <2>3. record[c] = None /\ torrent[c] = "none" /\ rollback[c] = None
    BY <1>0, <2>1 DEF Belongings, Holds
  <2>4. Belongings(c)'
    BY <2>1, <2>2, <2>3 DEF Belongings, Holds, HoldsRow, HoldsTorrent, HasRowPcs, TorrentPcs
  <2>5. ~Pauses(c)
    BY <2>1 DEF Pauses
  <2> QED
    BY <2>1, <2>2, <2>4, <2>5, RowLeft
<1>2. ASSUME NEW c \in Candidates, PrepareRetryCleanup(c) PROVE LeftInv'
  <2>1. /\ candidate[c].status = "accepted_cleanup_failed"
        /\ UNCHANGED <<episode, record, torrent, rollback, worker>>
        /\ Stage(c, "cleanup_queued")
    BY <1>2 DEF PrepareRetryCleanup, Requested, disk
  <2>2. candidate'[c].status = candidate[c].status /\ candidate'[c].old = candidate[c].old
    BY <1>0, <2>1, StageRow DEF Saved, Stages
  <2>3. \A d \in Candidates \ {c} : candidate'[d] = candidate[d]
    BY <1>0, <2>1 DEF Stage, Save
  <2>4. Belongings(c)' /\ Accepted(c)'
    BY <2>1, <2>2 DEF Belongings, Holds, Accepted
  <2> QED
    BY <2>1, <2>2, <2>3, <2>4, RowLeft
<1>3. ASSUME NEW c \in Candidates, KeepCandidate(c) PROVE LeftInv'
  <2>1. /\ candidate[c].status = "pending"
        /\ UNCHANGED <<episode, record, torrent, rollback, worker>>
        /\ candidate' = [candidate EXCEPT ![c] = [candidate[c] EXCEPT !.status = "kept_existing"]]
    BY <1>3 DEF KeepCandidate, Save, disk
  <2>2. /\ candidate'[c].status = "kept_existing" /\ candidate'[c].old = candidate[c].old
        /\ \A d \in Candidates \ {c} : candidate'[d] = candidate[d]
    BY <1>0, <2>1 DEF CandidateRow
  <2>3. Belongings(c)' /\ ~Pauses(c)
    BY <1>0, <2>1, <2>2 DEF Belongings, Holds, Pauses
  <2> QED
    BY <2>1, <2>2, <2>3, RowLeft
<1>4. ASSUME CancelTask PROVE LeftInv'
  <2>1. UNCHANGED <<candidate, episode, record, torrent, rollback, worker>>
    BY <1>4 DEF CancelTask, tables, disk
  <2> QED
    BY <2>1, AroundLeft
<1>5. ASSUME NEW status \in {"missing", "ignored", "marked_downloaded"}, SetUserStatus(status) PROVE LeftInv'
  <2>1. UNCHANGED <<candidate, record, torrent, rollback, worker>> /\ episode'.active = None
    BY <1>5 DEF SetUserStatus, disk
  <2> QED
    BY <2>1, AroundLeft
<1>6. \A d \in Deletable : d \in Downloads
  OBVIOUS
<1> QED
  BY <1>1, <1>2, <1>3, <1>4, <1>5, <1>6, DeleteLeaves DEF Requests

LEMMA StepLeaves ==
  ASSUME LeftInv, ClaimInv', [Next]_replacementVars, ~Forsaken PROVE LeftInv'
<1>0. ClaimInv /\ Types
      /\ torrent \in [Downloads -> {"none", "downloading", "complete", "error", "paused", "seeding"}]
  BY DEF LeftInv, ClaimInv, Types, DataTyped
<1>1. ASSUME NEW c \in Candidates, Works(c) PROVE LeftInv'
  BY <1>1, DownloadLeaves, ExchangeLeaves, CleanupLeaves, BeginsLeave DEF Works
<1>2. ASSUME NEW c \in Candidates, TorrentRuns(c) PROVE LeftInv'
  <2>1. UNCHANGED <<candidate, episode, record, rollback, worker>>
    BY <1>2 DEF TorrentRuns, tables
  <2>2. /\ \A d \in Candidates : torrent'[d] = "none" <=> torrent[d] = "none"
        /\ torrent'[Old] = torrent[Old]
    BY <1>0, <1>2 DEF TorrentRuns, Downloads
  <2> QED
    BY <2>1, <2>2, AroundLeft
<1>3. ASSUME TaskGivesUp \/ ListIncompleteReplacements \/ Shutdown \/ UNCHANGED replacementVars PROVE LeftInv'
  <2>1. UNCHANGED <<candidate, episode, record, torrent, rollback, worker>>
    BY <1>3 DEF TaskGivesUp, ListIncompleteReplacements, Shutdown, replacementVars, tables, disk
  <2> QED
    BY <2>1, AroundLeft
<1>4. ASSUME Restart PROVE LeftInv'
  <2>1. UNCHANGED <<candidate, episode, record, torrent, rollback>> /\ \A c \in Candidates : worker'[c] = Free
    BY <1>4 DEF Restart, tables, disk
  <2> QED
    BY <2>1, FreeWorker, AroundLeft
<1> QED
  BY <1>1, <1>2, <1>3, <1>4, RequestsLeave DEF Next

LEMMA InitLeft == Init => LeftInv
<1> SUFFICES ASSUME Init PROVE LeftInv
  OBVIOUS
<1>1. ClaimInv
  BY InitClaims
<1>2. /\ \A c \in Candidates : record[c] = None /\ torrent[c] = "none" /\ rollback[c] = None
      /\ torrent[Old] # "paused" /\ episode.active \in {Old, None}
  <2>1. /\ \A c \in Candidates : rollback[c] = None /\ c # Old /\ c \in Downloads
        /\ Old \in Downloads
    BY DEF Init, Downloads
  <2>2. CASE /\ episode = [status |-> "downloaded", active |-> Old]
             /\ record = [d \in Downloads |-> IF d = Old
                  THEN [status |-> "completed", hash |-> TRUE, owned |-> FALSE, filed |-> TRUE]
                  ELSE None]
             /\ torrent = [d \in Downloads |-> IF d = Old THEN "seeding" ELSE "none"]
    BY <2>1, <2>2
  <2>3. CASE /\ episode = [status |-> "marked_downloaded", active |-> None]
             /\ record = [d \in Downloads |-> None]
             /\ torrent = [d \in Downloads |-> "none"]
    BY <2>1, <2>3
  <2> QED
    BY <2>2, <2>3 DEF Init
<1>3. \A c \in Candidates : candidate[c].status = "pending" /\ candidate[c].old = None
  BY DEF Init
<1>4. \A c \in Candidates : Belongings(c)
  BY <1>2, <1>3 DEF Belongings, Holds
<1> QED
  BY <1>1, <1>2, <1>3, <1>4 DEF LeftInv, OldsOwned, OldPaused, Owned

LEMMA LeftHolds == Spec /\ [][~Forsaken]_replacementVars => []LeftInv
<1>1. LeftInv /\ [Next]_replacementVars /\ [~Forsaken]_replacementVars => LeftInv'
  <2> SUFFICES ASSUME LeftInv, [Next]_replacementVars, [~Forsaken]_replacementVars PROVE LeftInv'
    OBVIOUS
  <2>1. ClaimInv'
    BY StepKeepsClaims DEF LeftInv
  <2>2. CASE ~Forsaken
    BY <2>1, <2>2, StepLeaves
  <2>3. CASE UNCHANGED replacementVars
    <3>1. UNCHANGED <<candidate, episode, record, torrent, rollback, worker>>
      BY <2>3 DEF replacementVars, tables, disk
    <3> QED
      BY <2>1, <3>1, AroundLeft
  <2> QED
    BY <2>2, <2>3
<1> QED
  BY <1>1, InitLeft, PTL DEF Spec

(* A replacement that failed has given everything back, whatever failed    *)
(* and wherever the process stopped on the way: recordFailure and          *)
(* cleanupTerminalFailure leave it no row, no torrent and no old file at   *)
(* its rollback path, and the torrent of the old file runs again when no   *)
(* other replacement is under way.  Three steps are excluded, and each may *)
(* leave something behind: qBittorrent fails to pause a torrent that an    *)
(* attempt before it paused; the user deletes the row of the download of   *)
(* the replacement under way; the staging directory cannot be made for an  *)
(* attempt that finds a torrent an attempt before it added but did not     *)
(* record as its own.                                                      *)
THEOREM FailuresRestoreOld ==
  Spec /\ [][~Forsaken]_replacementVars => []FailureRestoresOld
<1>1. LeftInv => FailureRestoresOld
  <2> SUFFICES ASSUME LeftInv, NEW c \in Candidates, candidate[c].status = "failed"
               PROVE  /\ rollback[c] = None /\ torrent[c] = "none" /\ record[c] = None
                      /\ (\A d \in Candidates : candidate[d].status \in {"pending", "kept_existing", "failed"})
                           => torrent[Old] # "paused"
    BY DEF FailureRestoresOld
  <2>1. Belongings(c) /\ OldPaused
    BY DEF LeftInv
  <2>2. rollback[c] = None /\ torrent[c] = "none" /\ record[c] = None
    BY <2>1 DEF Belongings, Holds
  <2>3. (\A d \in Candidates : candidate[d].status \in {"pending", "kept_existing", "failed"})
          => torrent[Old] # "paused"
    BY <2>1 DEF OldPaused, Accepted, Pauses
  <2> QED
    BY <2>2, <2>3
<1> QED
  BY <1>1, LeftHolds, PTL
=============================================================================
