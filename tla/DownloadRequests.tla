--------------------------- MODULE DownloadRequests ---------------------------
(***************************************************************************)
(* The requests of the HTTP API that touch downloads and episodes: set the *)
(* status of episodes, retry a download, delete downloads, clear all of a  *)
(* status.  One request is served at a time, but in several steps.         *)
(***************************************************************************)
EXTENDS DownloadTables

UserStep(state) ==
  /\ user' = state
  /\ UNCHANGED <<candidates, origin, collector, monitor, job>>

(* SetUserStatus: "missing" is refused while the owner is active.          *)
ActiveForUser ==
  {"pending", "downloading", "stalled"}  \* and "organizing", which is never set

SetUserStatus(chosen, status) ==
  /\ user.pc = "idle"
  /\ status = "missing" =>
       \A e \in chosen : \A d \in DownloadIds :
         ledger[e].active = d => rows[d] = None \/ rows[d].status \notin ActiveForUser
  /\ ledger' = [e \in Episodes |-> IF e \in chosen THEN Cleared(status) ELSE ledger[e]]
  /\ UserStep(UserIdle)
  /\ UNCHANGED <<rows, torrents>>

(* Retry, of one download, and RetryFailed, of those of a subscription that *)
(* failed or stall: the rows are read first, and requeued one by one,       *)
(* whatever became of the others.                                           *)
RequestRetry(ids) ==
  /\ user.pc = "idle"
  /\ UserRetries /\ ids # {}
  /\ UserStep([UserIdle EXCEPT !.pc = "retry",
                 !.batch = [d \in DownloadIds |-> IF d \in ids THEN rows[d] ELSE None]])
  /\ UNCHANGED <<ledger, rows, torrents>>

FailedOrStalled ==
  {d \in DownloadIds : rows[d] # None /\ rows[d].status \in {"failed", "stalled"}}

RetriesLeft(d) ==
  LET batch == [user.batch EXCEPT ![d] = None] IN
  IF \A x \in DownloadIds : batch[x] = None THEN UserIdle ELSE [user EXCEPT !.batch = batch]

RetryDownload(d) ==
  /\ user.pc = "retry" /\ user.batch[d] # None
  /\ Requeue(d, user.batch[d])
  /\ user' = RetriesLeft(d)
  /\ UNCHANGED <<torrents, collector, monitor, job>>

RetryRefused(d) ==
  /\ user.pc = "retry" /\ user.batch[d] # None
  /\ "db" \in Faults \/ ~MayRequeue(d, user.batch[d])
  /\ UserStep(RetriesLeft(d))
  /\ UNCHANGED <<ledger, rows, torrents>>

(* Delete and BatchDelete: read the hashes, delete the tasks with their    *)
(* payload, errors ignored, then the rows.                                 *)
RequestDelete(ids) ==
  /\ user.pc = "idle"
  /\ \E d \in ids : rows[d] # None
  /\ UserStep([UserIdle EXCEPT !.pc = "deletePayload", !.ids = ids,
                 !.hashes = {rows[d].hash : d \in {x \in ids : rows[x] # None}}])
  /\ UNCHANGED <<ledger, rows, torrents>>

(* Clear: delete the tasks of the first page of the downloads that have    *)
(* the status, then the rows that have it by then.                         *)
Pages(ids) ==
  {page \in SUBSET ids : Cardinality(page) = MaxPageSize \/
                         (page = ids /\ Cardinality(ids) <= MaxPageSize)}

RequestClear(statuses) ==
  /\ user.pc = "idle"
  /\ \E page \in Pages({d \in DownloadIds : rows[d] # None /\ rows[d].status \in statuses}) :
       UserStep([UserIdle EXCEPT !.pc = "deletePayload", !.statuses = statuses,
                   !.hashes = {rows[d].hash : d \in page}])
  /\ UNCHANGED <<ledger, rows, torrents>>

DeletePayload ==
  /\ user.pc = "deletePayload"
  /\ \E failed \in (IF "qb" \in Faults THEN SUBSET user.hashes ELSE {{}}) :
       torrents' = Without(user.hashes \ failed)
  /\ UserStep([user EXCEPT !.pc = "deleteRows", !.hashes = {}])
  /\ UNCHANGED <<ledger, rows>>

(* Mutated: finished episodes keep their download, or are forgotten too.   *)
DetachedUnfinished(ids) ==
  [e \in Episodes |->
     IF ledger[e].active \in ids /\ ledger[e].status = "downloading"
     THEN Cleared("missing") ELSE ledger[e]]

DetachedToMissing(ids) ==
  [e \in Episodes |->
     IF ledger[e].active \in ids THEN Cleared("missing") ELSE ledger[e]]

DetachedFrom(ids) ==
  [e \in Episodes |->
     IF ledger[e].active \notin ids THEN ledger[e]
     ELSE IF ledger[e].status = "downloading" THEN Cleared("missing")
     ELSE [ledger[e] EXCEPT !.active = None]]

Doomed ==
  {d \in DownloadIds : rows[d] # None /\ (d \in user.ids \/ rows[d].status \in user.statuses)}

DeleteRows ==
  /\ user.pc = "deleteRows"
  /\ ledger' = DetachedFrom(Doomed)
  /\ rows' = [d \in DownloadIds |-> IF d \in Doomed THEN None ELSE rows[d]]
  /\ UserStep(UserIdle)
  /\ UNCHANGED torrents

UserActs ==
  \/ \E chosen \in SUBSET Episodes \ {{}}, status \in UserChoices :
       SetUserStatus(chosen, status)
  \/ \E d \in DownloadIds : rows[d] # None /\ RequestRetry({d})
  \/ RequestRetry(FailedOrStalled)
  \/ \E d \in DownloadIds : RetryDownload(d) \/ RetryRefused(d)
  \/ \E ids \in DeleteRequests : RequestDelete(ids)
  \/ \E statuses \in ClearRequests : RequestClear(statuses)
  \/ DeletePayload \/ DeleteRows

=============================================================================
