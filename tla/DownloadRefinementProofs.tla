---------------------- MODULE DownloadRefinementProofs ----------------------
(* The life of downloads implements EpisodeLedger, a failure or a completion *)
(* changes a download and its episode together, whatever goes wrong, and no *)
(* episode ever has two unfinished downloads where nothing the findings are *)
(* about happens: for every number of episodes, resources, collectors and   *)
(* completions.                                                             *)
EXTENDS DownloadLifecycleProofs

-----------------------------------------------------------------------------
(* The transactions of the actors, seen as steps of the ledger.             *)

USE ConstantsAssumption
USE DEF LedgerRow, EpisodeStatuses, HashColumn

Maps == Promise!Automatic \/ UNCHANGED LedgerView

LEMMA SameLedger == UNCHANGED ledger => Maps
BY DEF Maps, LedgerView

LEMMA FailureMaps ==
  ASSUME TypeOK, NEW d \in DownloadIds, NEW row, PersistFailure(d, row)
  PROVE  Maps
<1>1. CASE ledger' = ReleasedBy({d})
  <2>1. Promise!Fail(d)
    BY <1>1 DEF Promise!Fail, Promise!Row, LedgerView, ReleasedBy, Cleared, TypeOK
  <2> QED
    BY <2>1 DEF Maps, Promise!Automatic
<1>2. CASE UNCHANGED ledger
  BY <1>2, SameLedger
<1> QED
  BY <1>1, <1>2 DEF PersistFailure

LEMMA ReleaseMaps ==
  ASSUME TypeOK, NEW r \in Resources, ReleaseClaim(r)
  PROVE  Maps
<1>1. CASE ClaimIsOf(r)
  <2>1. Promise!Release(EpisodeOf[r]) /\ EpisodeOf[r] \in Episodes
    BY <1>1 DEF Promise!Release, Promise!Row, LedgerView, ReleaseClaim, ClaimIsOf,
                Cleared, TypeOK
  <2> QED
    BY <2>1 DEF Maps, Promise!Automatic
<1>2. CASE ~ClaimIsOf(r)
  BY <1>2, SameLedger DEF ReleaseClaim
<1> QED
  BY <1>1, <1>2

LEMMA RequeueMaps ==
  ASSUME IInv, NEW d \in DownloadIds, NEW row, origin[d] # None, Requeue(d, row)
  PROVE  Maps
<1> DEFINE e == RequeueEpisode(d)
<1>1. e \in Episodes
  BY DEF Requeue, MayRequeue, RequeueEpisode, IInv, TypeOK
<1>2. CASE ledger[e].status = "missing" /\ ledger[e].active = None
  <2>1. Promise!Requeue(e, d)
    BY <1>1, <1>2 DEF Promise!Requeue, Promise!Row, LedgerView, Requeue, Claimed,
                      IInv, TypeOK
  <2> QED
    BY <1>1, <2>1 DEF Maps, Promise!Automatic
<1>3. CASE ledger[e].status = "downloading" /\ ledger[e].active = d
  BY <1>1, <1>3, SameLedger DEF Requeue, IInv, TypeOK
<1> QED
  BY <1>2, <1>3 DEF Requeue, MayRequeue

LEMMA DeletionMaps ==
  ASSUME TypeOK, DeleteRows
  PROVE  Maps
<1> DEFINE ids == Doomed
<1>1. ids \in SUBSET DownloadIds
  BY DEF Doomed
<1>2. Promise!Detach(ids)
  BY <1>1 DEF Promise!Detach, Promise!Detached, Promise!Row, LedgerView, DeleteRows,
         DetachedFrom, Cleared, TypeOK
<1> QED
  BY <1>1, <1>2 DEF Maps, Promise!Automatic

-----------------------------------------------------------------------------
(* The actors.                                                              *)

LEMMA CollectMaps ==
  ASSUME IInv, NEW c \in Collectors, Collect(c)
  PROVE  Maps
<1>1. CollectorKnows(collector[c]) /\ collector[c] \in CollectorState
  BY DEF IInv, TypeOK, ActorsKnowTheirDownloads
<1>2. ASSUME NEW r \in Resources, EvaluateMissing(c, r)
      PROVE  Maps
  <2>1. Promise!Claim(EpisodeOf[r]) /\ EpisodeOf[r] \in Episodes
    BY <1>2 DEF EvaluateMissing, Claimable, Claimed, Promise!Claim, Promise!Unclaimed,
                Promise!Row, LedgerView, IInv, TypeOK
  <2> QED
    BY <2>1 DEF Maps, Promise!Automatic
<1>3. ASSUME NEW d \in DownloadIds, CreateDownload(c, d)
      PROVE  Maps
  <2> DEFINE r == collector[c].item
  <2>1. r \in Resources
    BY <1>1, <1>3 DEF CreateDownload, CollectorAt, CollectorKnows, CollectorState
  <2> DEFINE e == EpisodeOf[r]
  <2>2. e \in Episodes /\ ledger[e] \in LedgerRow
    BY <2>1 DEF IInv, TypeOK
  <2>3. LedgerView[e] = Promise!Row("downloading", None)
    BY <1>3, <2>2 DEF CreateDownload, MayCreate, Promise!Row, LedgerView
  <2>4. ledger' = [x \in Episodes |->
                     IF x = e THEN [ledger[x] EXCEPT !.active = d] ELSE ledger[x]]
    BY <1>3, <2>2 DEF CreateDownload, IInv, TypeOK
  <2>5. LedgerView' = [x \in Episodes |->
                         IF x = e THEN [LedgerView[x] EXCEPT !.active = d]
                         ELSE LedgerView[x]]
    BY <2>2, <2>4 DEF LedgerView
  <2>6. Promise!Attach(e, d)
    BY <2>2, <2>3, <2>5 DEF Promise!Attach, LedgerView
  <2> QED
    BY <2>2, <2>6 DEF Maps, Promise!Automatic
<1>4. ASSUME RecoverRelease(c) \/ GiveUp(c)
      PROVE  Maps
  <2>1. collector[c].item \in Resources
    BY <1>1, <1>4 DEF RecoverRelease, GiveUp, CollectorAt, CollectorKnows, CollectorState
  <2> QED
    BY <1>4, <2>1, ReleaseMaps DEF RecoverRelease, GiveUp, IInv
<1>5. ASSUME RecoverRequeue(c)
      PROVE  Maps
  <2>1. collector[c].id \in DownloadIds /\ origin[collector[c].id] # None
    BY <1>1, <1>5 DEF RecoverRequeue, CollectorAt, CollectorKnows, CollectorState,
                      OriginKnown
  <2> QED
    BY <1>5, <2>1, RequeueMaps DEF RecoverRequeue
<1>6. ASSUME UNCHANGED ledger
      PROVE  Maps
  BY <1>6, SameLedger
<1> QED
  BY <1>2, <1>3, <1>4, <1>5, <1>6
  DEF Collect, EvaluateOwned, SkipSmall, CreateFails, RecoverLookup,
      RecoverRequeueFails, CollectorRefused, database

LEMMA MonitorMaps ==
  ASSUME IInv, MonitorWorks \/ MonitorSkips \/ \E d \in DownloadIds : MonitorTurns(d)
  PROVE  Maps
<1>1. MonitorKnows(monitor) /\ monitor \in MonitorState
  BY DEF IInv, TypeOK, ActorsKnowTheirDownloads
<1>2. ASSUME FailAdd \/ SaveStatus
      PROVE  Maps
  <2>1. monitor.id \in DownloadIds
    BY <1>1, <1>2 DEF FailAdd, SaveStatus, MonitorAt, MonitorKnows, MonitorState
  <2>2. UNCHANGED ledger \/ \E row : PersistFailure(monitor.id, row)
    BY <1>2 DEF FailAdd, SaveStatus
  <2> QED
    BY <2>1, <2>2, FailureMaps, SameLedger DEF IInv
<1>3. ASSUME UNCHANGED ledger
      PROVE  Maps
  BY <1>3, SameLedger
<1>4. CASE MonitorSkips \/ \E d \in DownloadIds : MonitorTurns(d)
  BY <1>3, <1>4 DEF MonitorSkips, MonitorTurns, RetryVisit, RecoverCleanupLease,
       ClaimCleanup, PendingVisit
<1>5. CASE MonitorWorks
  BY <1>2, <1>3, <1>5
  DEF MonitorWorks, PrepareRetry, DeleteRetryPayload, DeleteRetryPayloadFails,
      FinalizeCleanup, ResumeAdded, ResumeRunning, AddTorrent, Checkpoint, Categorize,
      Activate, StartCompletion, UpdateStatus, StatusUnchanged, ReconcileMissing,
      NothingToReconcile
<1> QED
  BY <1>4, <1>5

LEMMA CompletionMaps ==
  ASSUME IInv, NEW j \in CompletionJobs, CompletionWorks(j)
  PROVE  Maps
<1>1. ASSUME CommitCompletion(j)
      PROVE  Maps
  <2> DEFINE d == job[j].id
             e == CompletionEpisodeOf[origin[d]]
  <2>1. d \in DownloadIds /\ origin[d] \in Resources
    BY <1>1 DEF CommitCompletion, IInv, TypeOK, ActorsKnowTheirDownloads, JobKnows,
                JobState, OriginKnown
  <2>2. e \in Episodes
    BY <1>1, <2>1 DEF CommitCompletion, MayComplete, CompletesEpisode
  <2>3. CASE ledger[e].status = "downloading"
    <3>1. Promise!Complete(e, d)
      BY <1>1, <2>2, <2>3 DEF CommitCompletion, MayComplete, CompletesEpisode,
           Promise!Complete, Promise!Row, LedgerView, IInv, TypeOK
    <3> QED
      BY <2>1, <2>2, <3>1 DEF Maps, Promise!Automatic
  <2>4. CASE ledger[e].status = "downloaded"
    BY <1>1, <2>2, <2>4 DEF CommitCompletion, MayComplete, CompletesEpisode, Maps,
         LedgerView, IInv, TypeOK
  <2> QED
    BY <1>1, <2>3, <2>4 DEF CommitCompletion, MayComplete, CompletesEpisode
<1>2. ASSUME UNCHANGED ledger
      PROVE  Maps
  BY <1>2, SameLedger
<1> QED
  BY <1>1, <1>2 DEF CompletionWorks, RenameFiles, RenameFails, CompletionFails

LEMMA UserMaps ==
  ASSUME IInv, UserActs
  PROVE  \/ Maps
         \/ \E chosen \in SUBSET Episodes, status \in UserChoices :
              SetUserStatus(chosen, status)
<1>1. ASSUME NEW d \in DownloadIds, RetryDownload(d)
      PROVE  Maps
  <2>1. origin[d] # None
    BY <1>1 DEF RetryDownload, IInv, TypeOK, ActorsKnowTheirDownloads, UserKnows
  <2> QED
    BY <1>1, <2>1, RequeueMaps DEF RetryDownload
<1>2. ASSUME DeleteRows
      PROVE  Maps
  BY <1>2, DeletionMaps DEF IInv
<1>3. ASSUME UNCHANGED ledger
      PROVE  Maps
  BY <1>3, SameLedger
<1> QED
  BY <1>1, <1>2, <1>3 DEF UserActs, RequestRetry, RetryRefused, RequestDelete, RequestClear, DeletePayload

-----------------------------------------------------------------------------
LEMMA StepMaps ==
  ASSUME IInv, Next
  PROVE  \/ Maps
         \/ \E chosen \in SUBSET Episodes, status \in UserChoices :
              SetUserStatus(chosen, status)
<1>1. ASSUME UNCHANGED ledger
      PROVE  Maps
  BY <1>1, SameLedger
<1>2. ASSUME NEW h \in Hashes, MonitorLooks(h) \/ TorrentProgresses(h) \/ TorrentDisturbed(h)
      PROVE  Maps
  BY <1>1, <1>2 DEF MonitorLooks, StatusVisit, ReconcileVisit, TorrentProgresses,
       TorrentDisturbed, TorrentStep, database
<1>3. ASSUME Crash
      PROVE  Maps
  BY <1>1, <1>3 DEF Crash, database
<1> QED
  BY <1>2, <1>3, CollectMaps, MonitorMaps, CompletionMaps, UserMaps DEF Next

(* What is not a request of the user to set a status is an automatic step   *)
(* of the ledger.                                                           *)
THEOREM OnlyTheUserDecides == Spec => OnlyUserDecides
<1>1. IInv /\ [Next]_vars =>
        [\/ Promise!Automatic
         \/ UNCHANGED LedgerView
         \/ \E chosen \in SUBSET Episodes, status \in UserChoices :
              SetUserStatus(chosen, status)]_vars
  BY StepMaps DEF Maps
<1> QED
  BY <1>1, Invariant, PTL DEF Spec, OnlyUserDecides

(* The life of downloads implements EpisodeLedger: whatever the actors do   *)
(* and however old the rows are they write, the ledger only changes as it   *)
(* promises.                                                                *)
THEOREM LedgerIsKept == Spec => KeepsPromise
<1>1. Init => Promise!Init
  BY DEF Init, Promise!Init, Promise!Row, LedgerView, Cleared
<1>2. ASSUME TypeOK, NEW chosen \in SUBSET Episodes, NEW status \in UserChoices,
             SetUserStatus(chosen, status)
      PROVE  Promise!Next
  <2>1. Promise!SetUserStatus(chosen, status) /\ status \in Promise!UserStatuses
    BY <1>2 DEF SetUserStatus, Promise!SetUserStatus, Promise!UserStatuses,
         Promise!Row, LedgerView, Cleared, TypeOK
  <2> QED
    BY <2>1 DEF Promise!Next
<1>3. IInv /\ [Next]_vars => [Promise!Next]_LedgerView
  <2>1. CASE UNCHANGED vars
    BY <2>1 DEF vars, database, LedgerView
  <2> QED
    BY <1>2, <2>1, StepMaps DEF Maps, Promise!Next, IInv
<1> QED
  BY <1>1, <1>3, Invariant, PTL DEF Spec, KeepsPromise, Promise!Spec

-----------------------------------------------------------------------------
(* How a download ends, and what becomes of its episode.  The argument is a *)
(* classification of the steps: a download becomes failed by PersistFailure *)
(* and completed by CommitCompletion only; every other step is quiet.       *)

USE NoneIsNoRow

Ends == {"failed", "completed"}

(* No download ends in the step, and no download that has failed gets an    *)
(* episode.                                                                 *)
QuietRows ==
  \A d \in DownloadIds :
    rows'[d] = rows[d] \/ rows'[d] = None \/ rows'[d].status \notin Ends

QuietLedger ==
  \A e \in Episodes, d \in DownloadIds :
    Owns(d, e)' => Owns(d, e) \/ rows'[d].status # "failed"

Quiet == QuietRows /\ QuietLedger

Failing ==
  \E d \in DownloadIds, row \in DownloadRow :
    row.status = "failed" /\ PersistFailure(d, row)

Completing == \E j \in CompletionJobs : CommitCompletion(j)

-----------------------------------------------------------------------------
LEMMA NoChangeQuiet == UNCHANGED <<ledger, rows>> => Quiet
BY DEF Quiet, QuietRows, QuietLedger, Owns

LEMMA SavedQuiet ==
  ASSUME TypeOK, NEW d \in DownloadIds, NEW row \in DownloadRow, row.status \notin Ends,
         rows' = Saved(d, row), UNCHANGED ledger
  PROVE  Quiet
BY DEF Quiet, QuietRows, QuietLedger, Owns, Saved, TypeOK

LEMMA ReleaseQuiet ==
  ASSUME TypeOK, NEW r \in Resources, ReleaseClaim(r)
  PROVE  Quiet
BY DEF Quiet, QuietRows, QuietLedger, Owns, ReleaseClaim, Cleared, TypeOK

LEMMA RequeueQuiet ==
  ASSUME IInv, NEW d \in DownloadIds, NEW row \in DownloadRow, origin[d] # None,
         Requeue(d, row)
  PROVE  Quiet
<1>1. Reset(row).status = "retry_cleanup"
  <2>1. ASSUME NEW r \in DownloadRow
        PROVE  [r EXCEPT !.status = "retry_cleanup"].status = "retry_cleanup"
    BY DEF DownloadRow
  <2> QED
    BY <2>1 DEF Reset, DownloadRow
<1>2. rows'[d].status = "retry_cleanup" /\ \A x \in DownloadIds \ {d} : rows'[x] = rows[x]
  BY <1>1 DEF Requeue, IInv, TypeOK
<1>3. RequeueEpisode(d) \in Episodes
  BY DEF Requeue, MayRequeue, RequeueEpisode, IInv, TypeOK
<1>4. \A e \in Episodes, x \in DownloadIds : Owns(x, e)' => Owns(x, e) \/ x = d
  BY <1>3 DEF Requeue, Owns, Claimed, IInv, TypeOK
<1> QED
  BY <1>2, <1>4 DEF Quiet, QuietRows, QuietLedger, Ends

-----------------------------------------------------------------------------
(* The actors.                                                              *)

LEMMA CollectQuiet ==
  ASSUME IInv, NEW c \in Collectors, Collect(c)
  PROVE  Quiet
<1>1. TypeOK /\ CollectorKnows(collector[c]) /\ collector[c] \in CollectorState
  BY DEF IInv, TypeOK, ActorsKnowTheirDownloads
<1>2. ASSUME NEW r \in Resources, EvaluateMissing(c, r)
      PROVE  Quiet
  BY <1>1, <1>2 DEF EvaluateMissing, Claimed, Quiet, QuietRows, QuietLedger, Owns, TypeOK
<1>3. ASSUME NEW d \in DownloadIds, CreateDownload(c, d)
      PROVE  Quiet
  BY <1>1, <1>3 DEF CreateDownload, NewRow, Quiet, QuietRows, QuietLedger, Owns, Ends,
                    TypeOK
<1>4. ASSUME RecoverRelease(c) \/ GiveUp(c)
      PROVE  Quiet
  <2>1. collector[c].item \in Resources
    BY <1>1, <1>4 DEF RecoverRelease, GiveUp, CollectorAt, CollectorKnows, CollectorState
  <2> QED
    BY <1>1, <1>4, <2>1, ReleaseQuiet DEF RecoverRelease, GiveUp
<1>5. ASSUME RecoverRequeue(c)
      PROVE  Quiet
  <2>1. /\ collector[c].id \in DownloadIds /\ origin[collector[c].id] # None
        /\ collector[c].row \in DownloadRow
    BY <1>1, <1>5 DEF RecoverRequeue, CollectorAt, CollectorKnows, CollectorState,
                      OriginKnown
  <2> QED
    BY <1>5, <2>1, RequeueQuiet DEF RecoverRequeue
<1>6. ASSUME UNCHANGED <<ledger, rows>>
      PROVE  Quiet
  BY <1>6, NoChangeQuiet
<1> QED
  BY <1>2, <1>3, <1>4, <1>5, <1>6
  DEF Collect, EvaluateOwned, SkipSmall, CreateFails, RecoverLookup,
      RecoverRequeueFails, CollectorRefused, database

LEMMA CleanupQuiet ==
  ASSUME TypeOK, NEW status \in {"retry_cleanup", "pending"}, NEW hash \in HashColumn,
         monitor.id \in DownloadIds, CleanupWrites(status, hash), UNCHANGED ledger
  PROVE  Quiet
<1>1. ASSUME NEW row \in DownloadRow
      PROVE  [[row EXCEPT !.status = status] EXCEPT !.hash = hash].status = status
  BY DEF DownloadRow
<1>2. CASE rows' = rows
  BY <1>2, NoChangeQuiet
<1>3. CASE rows[monitor.id] # None /\ rows' # rows
  <2>1. rows'[monitor.id] = [[rows[monitor.id] EXCEPT !.status = status] EXCEPT !.hash = hash]
    BY <1>3 DEF CleanupWrites, TypeOK
  <2>2. rows'[monitor.id].status = status
    BY <1>1, <1>3, <2>1 DEF TypeOK
  <2>3. \A x \in DownloadIds \ {monitor.id} : rows'[x] = rows[x]
    BY <1>3 DEF CleanupWrites, TypeOK
  <2> QED
    BY <2>2, <2>3 DEF Quiet, QuietRows, QuietLedger, Owns, Ends
<1> QED
  BY <1>2, <1>3 DEF CleanupWrites, HasStatus

LEMMA MonitorSettles ==
  ASSUME IInv, MonitorWorks \/ MonitorSkips \/ \E d \in DownloadIds : MonitorTurns(d)
  PROVE  Quiet \/ Failing
<1>1. TypeOK /\ MonitorKnows(monitor) /\ monitor \in MonitorState
  BY DEF IInv, TypeOK, ActorsKnowTheirDownloads
<1>2. ASSUME monitor.pc \notin {"idle", "status", "reconcile"}
      PROVE  /\ monitor.id \in DownloadIds
             /\ monitor.pc \notin {"cleanup", "finalize"} => monitor.row \in DownloadRow
  BY <1>1, <1>2 DEF MonitorKnows, MonitorState
<1>3. ASSUME UNCHANGED <<ledger, rows>>
      PROVE  Quiet
  BY <1>3, NoChangeQuiet
<1>4. ASSUME NEW d \in DownloadIds, MonitorTurns(d)
      PROVE  Quiet
  <2>1. ASSUME NEW status \in {"retry_cleanup", "retry_cleanup_processing"},
               rows[d] # None, rows' = [rows EXCEPT ![d].status = status],
               UNCHANGED ledger
        PROVE  Quiet
    <3>1. rows'[d].status = status
      BY <1>1, <2>1 DEF TypeOK, DownloadRow
    <3> QED
      BY <1>1, <2>1, <3>1 DEF Quiet, QuietRows, QuietLedger, Owns, Ends, TypeOK
  <2> QED
    BY <1>3, <1>4, <2>1 DEF MonitorTurns, RetryVisit, RecoverCleanupLease,
         ClaimCleanup, PendingVisit, HasStatus
<1>5. ASSUME PrepareRetry \/ Activate
      PROVE  Quiet
  <2> DEFINE retried == [monitor.row EXCEPT !.status = "pending", !.retries = @ + 1]
             started == [monitor.row EXCEPT !.status = "downloading"]
  <2>1. /\ monitor.id \in DownloadIds /\ monitor.row \in DownloadRow
        /\ PrepareRetry => monitor.row.retries < RetryCap
    BY <1>1, <1>2, <1>5 DEF PrepareRetry, Activate, MonitorAt, MonitorKnows
  <2>2. started \in DownloadRow /\ started.status \notin Ends
    BY <2>1 DEF DownloadRow, DownloadStatuses, Ends
  <2>3. ASSUME PrepareRetry
        PROVE  retried \in DownloadRow /\ retried.status \notin Ends
    <3> DEFINE counted == [monitor.row EXCEPT !.retries = @ + 1]
    <3>1. counted \in DownloadRow
      BY <2>1, <2>3 DEF DownloadRow
    <3>2. [counted EXCEPT !.status = "pending"] \in DownloadRow
      <4> HIDE DEF counted
      <4> QED
        BY <3>1, RowUpdateType DEF DownloadStatuses
    <3> QED
      BY <2>1, <3>2 DEF DownloadRow, Ends
  <2>4. CASE PrepareRetry
    <3> HIDE DEF retried
    <3>1. rows' = Saved(monitor.id, retried) /\ UNCHANGED ledger
      BY <2>4 DEF PrepareRetry, retried
    <3> QED
      BY <1>1, <2>1, <2>3, <2>4, <3>1, SavedQuiet
  <2>5. CASE Activate
    <3> HIDE DEF started
    <3>1. rows' = Saved(monitor.id, started) /\ UNCHANGED ledger
      BY <2>5 DEF Activate, started
    <3> QED
      BY <1>1, <2>1, <2>2, <3>1, SavedQuiet
  <2> QED
    BY <1>5, <2>4, <2>5
<1>6. ASSUME Checkpoint
      PROVE  Quiet
  <2> DEFINE row == [[monitor.row EXCEPT !.hash = monitor.hash] EXCEPT !.status = "pending"]
  <2>1. /\ monitor.id \in DownloadIds /\ monitor.row \in DownloadRow
        /\ monitor.hash \in HashColumn
    BY <1>1, <1>2, <1>6 DEF Checkpoint, MonitorAt, MonitorKnows
  <2>2. [monitor.row EXCEPT !.hash = monitor.hash] \in DownloadRow
    BY <2>1, RowUpdateType
  <2>3. row \in DownloadRow /\ row.status \notin Ends
    BY <2>2 DEF DownloadRow, DownloadStatuses, Ends
  <2>4. UNCHANGED ledger /\ (UNCHANGED rows \/ rows' = Saved(monitor.id, row))
    BY <1>6 DEF Checkpoint
  <2> HIDE DEF row
  <2> QED
    BY <1>1, <1>3, <2>1, <2>3, <2>4, SavedQuiet
<1>7. ASSUME DeleteRetryPayloadFails \/ FinalizeCleanup
      PROVE  Quiet
  <2>1. monitor.id \in DownloadIds /\ monitor.hash \in HashColumn
    BY <1>1, <1>2, <1>7 DEF DeleteRetryPayloadFails, FinalizeCleanup, MonitorAt,
         MonitorState
  <2> QED
    BY <1>1, <1>7, <2>1, CleanupQuiet
    DEF DeleteRetryPayloadFails, FinalizeCleanup, Placeholder
<1>8. ASSUME FailAdd
      PROVE  Failing
  <2>1. monitor.id \in DownloadIds /\ monitor.row \in DownloadRow
    BY <1>2, <1>8 DEF FailAdd, MonitorAt
  <2>2. PICK permanent \in BOOLEAN :
          PersistFailure(monitor.id, [monitor.row EXCEPT !.status = "failed",
                                                         !.permanent = permanent])
    BY <1>8 DEF FailAdd
  <2>3. [monitor.row EXCEPT !.status = "failed"] \in DownloadRow
    BY <2>1, RowUpdateType DEF DownloadStatuses
  <2>4. /\ [monitor.row EXCEPT !.status = "failed", !.permanent = permanent] \in DownloadRow
        /\ [monitor.row EXCEPT !.status = "failed", !.permanent = permanent].status = "failed"
    BY <2>1, <2>3 DEF DownloadRow
  <2> QED
    BY <2>1, <2>2, <2>4 DEF Failing
<1>9. ASSUME SaveStatus
      PROVE  Quiet \/ Failing
  <2>1. /\ monitor.id \in DownloadIds /\ monitor.row \in DownloadRow
        /\ monitor.row.status # "completed"
    BY <1>1, <1>2, <1>9 DEF SaveStatus, MonitorAt, MonitorKnows
  <2>2. CASE monitor.row.status = "failed"
    BY <1>9, <2>1, <2>2 DEF SaveStatus, Failing
  <2>3. CASE monitor.row.status # "failed"
    BY <1>1, <1>9, <2>1, <2>3, SavedQuiet DEF SaveStatus, Ends
  <2> QED
    BY <2>2, <2>3
<1> QED
  BY <1>3, <1>4, <1>5, <1>6, <1>7, <1>8, <1>9
  DEF MonitorWorks, MonitorSkips, DeleteRetryPayload, ResumeAdded, ResumeRunning,
      AddTorrent, Categorize, StartCompletion, UpdateStatus, StatusUnchanged,
      ReconcileMissing, NothingToReconcile

LEMMA UserQuiet ==
  ASSUME IInv, UserActs
  PROVE  Quiet
<1>1. TypeOK /\ UserKnows(user) /\ user \in UserState
  BY DEF IInv, TypeOK, ActorsKnowTheirDownloads
<1>2. ASSUME NEW d \in DownloadIds, RetryDownload(d)
      PROVE  Quiet
  <2>1. origin[d] # None /\ user.batch[d] \in DownloadRow
    BY <1>1, <1>2 DEF RetryDownload, UserKnows, UserState
  <2> QED
    BY <1>2, <2>1, RequeueQuiet DEF RetryDownload
<1>3. ASSUME DeleteRows
      PROVE  Quiet
  BY <1>1, <1>3 DEF DeleteRows, DetachedFrom, Cleared, Quiet, QuietRows, QuietLedger,
                    Owns, TypeOK
<1>4. ASSUME NEW chosen \in SUBSET Episodes, NEW status \in UserChoices,
             SetUserStatus(chosen, status)
      PROVE  Quiet
  BY <1>1, <1>4 DEF SetUserStatus, Cleared, Quiet, QuietRows, QuietLedger, Owns, TypeOK
<1>5. ASSUME UNCHANGED <<ledger, rows>>
      PROVE  Quiet
  BY <1>5, NoChangeQuiet
<1> QED
  BY <1>2, <1>3, <1>4, <1>5 DEF UserActs, RequestRetry, RetryRefused, RequestDelete,
       RequestClear, DeletePayload

LEMMA StepSettles ==
  ASSUME IInv, [Next]_vars
  PROVE  Quiet \/ Failing \/ Completing
<1>1. ASSUME UNCHANGED <<ledger, rows>>
      PROVE  Quiet
  BY <1>1, NoChangeQuiet
<1>2. ASSUME NEW h \in Hashes, MonitorLooks(h) \/ TorrentProgresses(h) \/ TorrentDisturbed(h)
      PROVE  Quiet
  BY <1>1, <1>2 DEF MonitorLooks, StatusVisit, ReconcileVisit, TorrentProgresses,
       TorrentDisturbed, TorrentStep, database
<1>3. ASSUME NEW j \in CompletionJobs, CompletionWorks(j)
      PROVE  Quiet \/ Completing
  BY <1>1, <1>3 DEF CompletionWorks, RenameFiles, RenameFails, CompletionFails, Completing
<1>4. ASSUME Crash \/ UNCHANGED vars
      PROVE  Quiet
  BY <1>1, <1>4 DEF Crash, vars, database
<1> QED
  BY <1>2, <1>3, <1>4, CollectQuiet, MonitorSettles, UserQuiet DEF Next

-----------------------------------------------------------------------------
(* What a failure and a completion do to a download and to its episode.     *)

LEMMA FailureReleases ==
  ASSUME TypeOK, LastFailureReleases, Failing
  PROVE  LastFailureReleases'
<1>1. PICK d \in DownloadIds, row \in DownloadRow :
        row.status = "failed" /\ PersistFailure(d, row)
  BY DEF Failing
<1>2. \A e \in Episodes, x \in DownloadIds : Owns(x, e)' => Owns(x, e)
  BY <1>1 DEF PersistFailure, ReleasedBy, Owns, Cleared, TypeOK
<1>3. \A x \in DownloadIds \ {d} : rows'[x] = rows[x]
  BY <1>1 DEF PersistFailure, Saved, TypeOK
<1>4. CASE ~HashFree(d, row.hash)
  <2>1. rows' = rows
    BY <1>1, <1>4 DEF PersistFailure, Saved
  <2> QED
    BY <1>2, <2>1 DEF LastFailureReleases, HasStatus, Owns
<1>5. CASE HashFree(d, row.hash) /\ ~Exhausted(row)
  <2>1. rows'[d] = row
    BY <1>1, <1>5 DEF PersistFailure, Saved, TypeOK
  <2> QED
    BY <1>2, <1>3, <1>5, <2>1 DEF LastFailureReleases, HasStatus, Owns, Exhausted
<1>6. CASE HashFree(d, row.hash) /\ Exhausted(row)
  <2>1. \A e \in Episodes : ~Owns(d, e)'
    BY <1>1, <1>6 DEF PersistFailure, ReleasedBy, Owns, Cleared, TypeOK
  <2> QED
    BY <1>2, <1>3, <2>1 DEF LastFailureReleases, HasStatus, Owns, Exhausted
<1> QED
  BY <1>4, <1>5, <1>6

LEMMA CompletionOfOwner ==
  ASSUME IInv, NEW j \in CompletionJobs, CommitCompletion(j)
  PROVE  LET d == job[j].id
             e == CompletionEpisodeOf[origin[d]]
         IN  /\ d \in DownloadIds /\ e \in Episodes
             /\ ledger[e].active = d
             /\ ledger'[e].status = "downloaded"
             /\ rows'[d].status = "completed"
             /\ \A x \in DownloadIds \ {d} : rows'[x] = rows[x]
             /\ \A f \in Episodes \ {e} : ledger'[f] = ledger[f]
<1> DEFINE d == job[j].id
           e == CompletionEpisodeOf[origin[d]]
<1>1. d \in DownloadIds /\ origin[d] \in Resources /\ job[j].row \in DownloadRow
  BY DEF CommitCompletion, IInv, TypeOK, ActorsKnowTheirDownloads, JobKnows, JobState,
         OriginKnown
<1>2. e \in Episodes /\ ledger[e].active = d
  BY <1>1 DEF CommitCompletion, MayComplete, CompletesEpisode
<1>3. [job[j].row EXCEPT !.status = "completed"].status = "completed"
  BY <1>1 DEF DownloadRow
<1> QED
  BY <1>1, <1>2, <1>3 DEF CommitCompletion, IInv, TypeOK

(* A download that will not be tried again leaves no episode waiting for it.*)
THEOREM LastFailuresRelease == Spec => []LastFailureReleases
<1>1. Init => LastFailureReleases
  BY DEF Init, LastFailureReleases, HasStatus
<1>2. IInv /\ LastFailureReleases /\ [Next]_vars => LastFailureReleases'
  <2> SUFFICES ASSUME IInv, LastFailureReleases, [Next]_vars
               PROVE  LastFailureReleases'
    OBVIOUS
  <2>1. CASE Quiet
    BY <2>1 DEF Quiet, QuietRows, QuietLedger, Ends, LastFailureReleases, HasStatus,
                Owns, Exhausted
  <2>2. CASE Failing
    BY <2>2, FailureReleases DEF IInv
  <2>3. ASSUME NEW j \in CompletionJobs, CommitCompletion(j)
        PROVE  LastFailureReleases'
    BY <2>3, CompletionOfOwner DEF LastFailureReleases, HasStatus, Exhausted
  <2> QED
    BY <2>1, <2>2, <2>3, StepSettles DEF Completing
<1> QED
  BY <1>1, <1>2, Invariant, PTL DEF Spec

(* A download becomes completed only together with the episode it still     *)
(* owns.                                                                    *)
THEOREM CompletedByTheOwner == Spec => CompletedByOwner
<1>1. IInv /\ [Next]_vars =>
        [\A d \in DownloadIds :
           rows'[d] # None /\ rows'[d].status = "completed" /\ ~HasStatus(d, "completed")
             => \E e \in Episodes :
                  ledger[e].active = d /\ ledger'[e].status = "downloaded"]_vars
  <2> SUFFICES ASSUME IInv, [Next]_vars, NEW d \in DownloadIds,
                      rows'[d] # None, rows'[d].status = "completed",
                      ~HasStatus(d, "completed")
               PROVE  \E e \in Episodes :
                        ledger[e].active = d /\ ledger'[e].status = "downloaded"
    OBVIOUS
  <2>1. rows'[d] # rows[d]
    BY DEF HasStatus
  <2>2. ~Quiet
    BY <2>1 DEF Quiet, QuietRows, Ends
  <2>3. ~Failing
    <3> SUFFICES ASSUME NEW x \in DownloadIds, NEW row \in DownloadRow,
                        row.status = "failed", PersistFailure(x, row)
                 PROVE  FALSE
      BY DEF Failing
    <3>1. rows' = rows \/ rows' = [rows EXCEPT ![x] = row]
      BY DEF PersistFailure, Saved
    <3> QED
      BY <2>1, <3>1 DEF IInv, TypeOK
  <2>4. PICK j \in CompletionJobs : CommitCompletion(j)
    BY <2>2, <2>3, StepSettles DEF Completing
  <2> QED
    BY <2>1, <2>4, CompletionOfOwner
<1> QED
  BY <1>1, Invariant, PTL DEF Spec, CompletedByOwner

-----------------------------------------------------------------------------
(* One unfinished download per episode.  A download is alive until its last *)
(* failure; only the monitor, which is one thread, makes a download die,    *)
(* and by then its episode is given back.  So whoever revives a download,   *)
(* or creates one, must find an episode that no live download is backed by, *)
(* and what the monitor is about to write is always a row that is alive.    *)
(* That a dead download stays dead needs its torrent: as long as a failed   *)
(* torrent stays failed, the status of a task of the category never revives *)
(* a dead row.                                                              *)

USE CategoriesDiffer

Dead(d) == HasStatus(d, "failed") /\ Exhausted(rows[d])
Alive(d) == rows[d] # None /\ ~Dead(d)

Settled == {"marked_downloaded", "ignored"}

Backed(d) ==
  LET entry == ledger[EpisodeOf[origin[d]]] IN entry.active = d \/ entry.status \in Settled

AliveBacked == \A d \in DownloadIds : Alive(d) => Backed(d)

OneAlive ==
  \A d1, d2 \in DownloadIds :
    Alive(d1) /\ Alive(d2) /\ EpisodeOf[origin[d1]] = EpisodeOf[origin[d2]] => d1 = d2

FreeEpisodes == \A e \in Episodes : Claimable(ledger[e]) => ledger[e].active = None

HashesUnique ==
  \A d1, d2 \in DownloadIds :
    /\ rows[d1] # None /\ rows[d2] # None
    /\ rows[d1].hash = rows[d2].hash /\ rows[d1].hash \in Hashes
    => d1 = d2

RowsInv == AliveBacked /\ OneAlive /\ FreeEpisodes /\ HashesUnique

(* The torrents of dead downloads, and what the monitor knows of them.      *)
Spent(h) == InAutoRss(h) => torrents[h].state = "failed"

DeadStay == \A d \in DownloadIds : Dead(d) /\ rows[d].hash \in Hashes => Spent(rows[d].hash)

NoDeadHas(hash) == \A d \in DownloadIds : Dead(d) => rows[d].hash # hash

MonitorInv(m) ==
  /\ m.pc \in {"retry", "pending", "addFailed", "checkpoint", "categorize", "activate", "save"}
       => Alive(m.id)
  /\ m.pc \in {"status", "reconcile"} => m.hash \in Hashes
  /\ m.pc = "status" /\ m.state # "failed" => NoDeadHas(m.hash)
  /\ m.pc = "status" /\ m.state = "failed" => Spent(m.hash)
  /\ m.pc = "reconcile" => ~InAutoRss(m.hash)
  /\ m.pc = "save" /\ m.row.status = "failed" => m.row.hash \in Hashes /\ Spent(m.row.hash)
  /\ m.pc = "addFailed" /\ m.row.hash \in Hashes => ~InAutoRss(m.row.hash)
  /\ m.pc = "categorize" => NoDeadHas(m.hash)
  /\ m.pc \in {"pending", "checkpoint"} /\ m.row.hash \in Hashes => NoDeadHas(m.row.hash)

NoDeletion == user.pc \in {"idle", "retry"}

AliveInv == RowsInv /\ DeadStay /\ MonitorInv(monitor) /\ NoDeletion

(* What the findings of the runs take away: a completion finds the episode  *)
(* by the offset of the subscription alone, deletions race the monitor, the *)
(* user may free an episode whose download will be tried again, and         *)
(* qBittorrent may resume a torrent that was given up.                      *)
Undisturbed ==
  /\ \A r \in Resources : CompletionEpisodeOf[r] \in {EpisodeOf[r], None}
  /\ "missing" \notin UserChoices
  /\ DeleteRequests = {} /\ ClearRequests = {}
  /\ "torrentRecovers" \notin Faults

-----------------------------------------------------------------------------
(* What every step but the last failure of a download does.                 *)
RowsKept == \A d \in DownloadIds : rows[d] # None => rows'[d] # None

DeadKept == \A d \in DownloadIds : Dead(d)' => Dead(d) /\ rows'[d] = rows[d]

TorrentsKept ==
  \A h \in Hashes : (InAutoRss(h)' => InAutoRss(h)) /\ (Spent(h) => Spent(h)')

LEMMA DeadStays == ASSUME DeadStay, DeadKept, TorrentsKept PROVE DeadStay'
BY DEF DeadStay, DeadKept, TorrentsKept

LEMMA AliveStays ==
  ASSUME RowsKept, DeadKept
  PROVE  /\ \A d \in DownloadIds : Alive(d) => Alive(d)'
         /\ \A hash : NoDeadHas(hash) => NoDeadHas(hash)'
BY DEF RowsKept, DeadKept, Alive, NoDeadHas

LEMMA Bystander ==
  ASSUME IInv, MonitorInv(monitor), RowsKept, DeadKept, TorrentsKept, UNCHANGED monitor
  PROVE  MonitorInv(monitor)'
<1>1. MonitorKnows(monitor) /\ monitor \in MonitorState
  BY DEF IInv, TypeOK, ActorsKnowTheirDownloads
<1>2. monitor.pc \in {"retry", "pending", "addFailed", "checkpoint", "categorize",
                      "activate", "save"} => monitor.id \in DownloadIds
  BY <1>1 DEF MonitorKnows, MonitorState
<1>3. /\ \A d \in DownloadIds : Alive(d) => Alive(d)'
      /\ \A hash : NoDeadHas(hash) => NoDeadHas(hash)'
  BY AliveStays
<1>4. \A h \in Hashes : (InAutoRss(h)' => InAutoRss(h)) /\ (Spent(h) => Spent(h)')
  BY DEF TorrentsKept
<1>5. monitor' = monitor
  OBVIOUS
<1> HIDE DEF Alive
<1> QED
  BY <1>2, <1>3, <1>4, <1>5 DEF MonitorInv

LEMMA SameTorrents == UNCHANGED torrents => TorrentsKept
BY DEF TorrentsKept, InAutoRss, Spent

LEMMA FewerTorrents ==
  ASSUME TypeOK, NEW hashes, torrents' = Without(hashes) PROVE TorrentsKept
BY DEF TorrentsKept, InAutoRss, Spent, Without, TypeOK

LEMMA SameRows ==
  ASSUME RowsInv, UNCHANGED <<ledger, rows, origin>>
  PROVE  RowsInv' /\ RowsKept /\ DeadKept
<1>1. rows' = rows /\ ledger' = ledger /\ origin' = origin
  OBVIOUS
<1> QED
  BY <1>1 DEF RowsInv, AliveBacked, OneAlive, FreeEpisodes, HashesUnique, Alive, Dead, HasStatus,
       Backed, RowsKept, DeadKept

-----------------------------------------------------------------------------
(* The writes.                                                              *)
LEMMA RowKnown ==
  ASSUME IInv, NEW d \in DownloadIds, origin[d] # None
  PROVE  /\ origin[d] \in Resources /\ EpisodeOf[origin[d]] \in Episodes
         /\ ledger[EpisodeOf[origin[d]]] \in LedgerRow
<1>1. origin[d] \in Resources /\ EpisodeOf[origin[d]] \in Episodes
  BY DEF IInv, TypeOK
<1> QED
  BY <1>1 DEF IInv, TypeOK

LEMMA ResetFields ==
  ASSUME NEW row \in DownloadRow
  PROVE  Reset(row).status = "retry_cleanup" /\ Reset(row).hash = row.hash
<1>1. ASSUME NEW r \in DownloadRow
      PROVE  /\ [r EXCEPT !.status = "retry_cleanup"].status = "retry_cleanup"
             /\ [r EXCEPT !.status = "retry_cleanup"].hash = r.hash
             /\ [r EXCEPT !.status = "retry_cleanup"] \in DownloadRow
  BY DEF DownloadRow, DownloadStatuses
<1>2. ASSUME NEW r \in DownloadRow
      PROVE  /\ [r EXCEPT !.retries = 0].status = r.status
             /\ [r EXCEPT !.retries = 0].hash = r.hash
             /\ [r EXCEPT !.retries = 0] \in DownloadRow
  BY DEF DownloadRow
<1>3. ASSUME NEW r \in DownloadRow
      PROVE  /\ [r EXCEPT !.permanent = FALSE].status = r.status
             /\ [r EXCEPT !.permanent = FALSE].hash = r.hash
  BY DEF DownloadRow
<1> QED
  BY <1>1, <1>2, <1>3 DEF Reset

(* A row that is alive is written over by one that has not failed.          *)
LEMMA LiveWrite ==
  ASSUME IInv, RowsInv, NEW d \in DownloadIds, NEW row \in DownloadRow,
         Alive(d), row.status # "failed",
         HashFree(d, row.hash) \/ row.hash = rows[d].hash \/ row.hash \notin Hashes,
         rows' = [rows EXCEPT ![d] = row], UNCHANGED <<ledger, origin>>
  PROVE  RowsInv' /\ RowsKept /\ DeadKept
<1>1. /\ rows'[d] = row /\ row # None
      /\ \A x \in DownloadIds \ {d} : rows'[x] = rows[x]
  BY DEF IInv, TypeOK
<1>2. RowsKept
  BY <1>1 DEF RowsKept
<1>3. DeadKept
  BY <1>1 DEF DeadKept, Dead, HasStatus
<1>4. \A x \in DownloadIds : Alive(x)' => Alive(x)
  BY <1>1 DEF Alive, Dead, HasStatus
<1>5. AliveBacked' /\ OneAlive'
  <2>1. \A x \in DownloadIds : Backed(x) => Backed(x)'
    BY DEF Backed
  <2> HIDE DEF Alive, Backed
  <2> QED
    BY <1>4, <2>1 DEF RowsInv, AliveBacked, OneAlive
<1>6. FreeEpisodes'
  BY DEF RowsInv, FreeEpisodes
<1>7. HashesUnique'
  <2>1. rows[d] # None
    BY DEF Alive
  <2>2. \A x \in DownloadIds \ {d} : rows'[x] # None /\ rows'[x].hash = row.hash => row.hash \notin Hashes
    BY <1>1, <2>1 DEF HashFree, RowsInv, HashesUnique
  <2> QED
    BY <1>1, <2>2 DEF RowsInv, HashesUnique
<1> QED
  BY <1>2, <1>3, <1>5, <1>6, <1>7 DEF RowsInv

LEMMA LiveSave ==
  ASSUME IInv, RowsInv, NEW d \in DownloadIds, NEW row \in DownloadRow,
         Alive(d), row.status # "failed", rows' = Saved(d, row), UNCHANGED <<ledger, origin>>
  PROVE  RowsInv' /\ RowsKept /\ DeadKept
<1>1. CASE HashFree(d, row.hash)
  BY <1>1, LiveWrite DEF Saved
<1>2. CASE ~HashFree(d, row.hash)
  BY <1>2, SameRows DEF Saved
<1> QED
  BY <1>1, <1>2

(* A download that is alive fails, for now or for the last time.            *)
LEMMA LiveFailure ==
  ASSUME IInv, RowsInv, DeadStay, NEW d \in DownloadIds, NEW row \in DownloadRow,
         Alive(d), row.status = "failed", row.hash \in Hashes => Spent(row.hash),
         PersistFailure(d, row), UNCHANGED <<origin, torrents>>
  PROVE  RowsInv' /\ DeadStay'
<1>1. CASE HashFree(d, row.hash)
  <2>1. /\ rows'[d] = row /\ row # None
        /\ \A x \in DownloadIds \ {d} : rows'[x] = rows[x]
    BY <1>1 DEF PersistFailure, Saved, IInv, TypeOK
  <2>2. \A x \in DownloadIds \ {d} : Alive(x)' <=> Alive(x)
    BY <2>1 DEF Alive, Dead, HasStatus
  <2>3. \A x \in DownloadIds : Alive(x)' => Alive(x)
    BY <2>2
  <2>4. Alive(d)' => ~Exhausted(row)
    BY <2>1 DEF Alive, Dead, HasStatus
  <2>5. ledger' = IF Exhausted(row) THEN ReleasedBy({d}) ELSE ledger
    BY <1>1 DEF PersistFailure
  <2>6. ASSUME NEW x \in DownloadIds, Alive(x)'
        PROVE  Backed(x)'
    <3>1. rows[x] # None /\ Backed(x)
      BY <2>3, <2>6 DEF RowsInv, AliveBacked, Alive
    <3>2. EpisodeOf[origin[x]] \in Episodes
      BY <3>1, RowKnown DEF IInv, ActorsKnowTheirDownloads, RowsHaveOrigin
    <3>3. CASE Exhausted(row)
      <4>1. x # d
        BY <2>4, <2>6, <3>3
      <4>2. ledger' = ReleasedBy({d})
        BY <2>5, <3>3
      <4>3. ledger'[EpisodeOf[origin[x]]] = ledger[EpisodeOf[origin[x]]]
        BY <3>1, <3>2, <4>1, <4>2 DEF ReleasedBy, Backed, Settled
      <4> QED
        BY <3>1, <4>3 DEF Backed
    <3>4. CASE ~Exhausted(row)
      BY <2>5, <3>1, <3>4 DEF Backed
    <3> QED
      BY <3>3, <3>4
  <2>7. AliveBacked'
    BY <2>6 DEF AliveBacked
  <2>8. OneAlive'
    <3> HIDE DEF Alive
    <3> QED
      BY <2>3 DEF RowsInv, OneAlive
  <2>9. FreeEpisodes'
    BY <2>5 DEF RowsInv, FreeEpisodes, ReleasedBy, Cleared
  <2>10. HashesUnique'
    BY <1>1, <2>1 DEF HashFree, RowsInv, HashesUnique
  <2>11. DeadStay'
    <3>1. \A h : Spent(h)' <=> Spent(h)
      BY DEF Spent, InAutoRss
    <3>2. \A x \in DownloadIds \ {d} : Dead(x)' => Dead(x)
      BY <2>1 DEF Dead, HasStatus
    <3> HIDE DEF Spent, Dead
    <3> QED
      BY <2>1, <3>1, <3>2 DEF DeadStay
  <2> QED
    BY <2>7, <2>8, <2>9, <2>10, <2>11 DEF RowsInv
<1>2. CASE ~HashFree(d, row.hash)
  <2>1. UNCHANGED <<ledger, rows, origin>>
    BY <1>2 DEF PersistFailure, Saved
  <2> QED
    BY <2>1, SameRows, SameTorrents, DeadStays
<1> QED
  BY <1>1, <1>2

(* A download takes an episode, or keeps it, where no other download alive  *)
(* is backed by it.                                                         *)
OnlyOrigin(d) == \A x \in DownloadIds \ {d} : origin'[x] = origin[x]

OnlyEntry(e) == \A y \in Episodes \ {e} : ledger'[y] = ledger[y]

LEMMA TakerAlive ==
  ASSUME IInv, RowsInv, NEW d \in DownloadIds, NEW row \in DownloadRow, NEW e \in Episodes,
         row.status # "failed", HashFree(d, row.hash),
         rows' = [rows EXCEPT ![d] = row],
         EpisodeOf[origin'[d]] = e, OnlyOrigin(d),
         ledger[e].status \notin Settled, ledger[e].active \in {None, d},
         ledger'[e].active = d, ~Claimable(ledger'[e]),
         OnlyEntry(e)
  PROVE  RowsInv' /\ RowsKept /\ DeadKept
<1>1. /\ rows'[d] = row /\ row # None
      /\ \A x \in DownloadIds \ {d} : rows'[x] = rows[x]
  BY DEF IInv, TypeOK
<1>2. RowsKept
  BY <1>1 DEF RowsKept
<1>3. DeadKept
  BY <1>1 DEF DeadKept, Dead, HasStatus
<1>4. \A x \in DownloadIds \ {d} : Alive(x)' => Alive(x)
  BY <1>1 DEF Alive, Dead, HasStatus
<1>5. ASSUME NEW x \in DownloadIds \ {d}, Alive(x)
      PROVE  EpisodeOf[origin[x]] # e
  <2>1. Backed(x)
    BY <1>5 DEF RowsInv, AliveBacked
  <2> QED
    BY <2>1 DEF Backed, Settled
<1>6. AliveBacked'
  <2>1. Backed(d)'
    BY DEF Backed
  <2>2. ASSUME NEW x \in DownloadIds \ {d}, Alive(x)'
        PROVE  Backed(x)'
    <3>1. Alive(x) /\ Backed(x) /\ EpisodeOf[origin[x]] # e
      BY <1>4, <1>5, <2>2 DEF RowsInv, AliveBacked
    <3>2. EpisodeOf[origin[x]] \in Episodes
      BY <3>1, RowKnown DEF Alive, IInv, ActorsKnowTheirDownloads, RowsHaveOrigin
    <3> QED
      BY <3>1, <3>2 DEF Backed, OnlyOrigin, OnlyEntry
  <2> QED
    BY <2>1, <2>2 DEF AliveBacked
<1>7. OneAlive'
  <2>1. ASSUME NEW x \in DownloadIds, NEW y \in DownloadIds, Alive(x)', Alive(y)',
               EpisodeOf[origin'[x]] = EpisodeOf[origin'[y]]
        PROVE  x = y
    <3>1. CASE x # d /\ y # d
      BY <1>4, <2>1, <3>1 DEF RowsInv, OneAlive, OnlyOrigin
    <3>2. CASE x = d \/ y = d
      BY <1>4, <1>5, <2>1, <3>2 DEF OnlyOrigin
    <3> QED
      BY <3>1, <3>2
  <2> QED
    BY <2>1 DEF OneAlive
<1>8. FreeEpisodes'
  BY DEF RowsInv, FreeEpisodes, OnlyEntry
<1>9. HashesUnique'
  BY <1>1 DEF HashFree, RowsInv, HashesUnique
<1> QED
  BY <1>2, <1>3, <1>6, <1>7, <1>8, <1>9 DEF RowsInv

LEMMA RequeueAlive ==
  ASSUME Undisturbed, IInv, RowsInv, NEW d \in DownloadIds, NEW row \in DownloadRow,
         origin[d] # None, Requeue(d, row)
  PROVE  RowsInv' /\ RowsKept /\ DeadKept
<1> DEFINE e == EpisodeOf[origin[d]]
<1>1. origin[d] \in Resources /\ e \in Episodes /\ RequeueEpisode(d) = e
  BY RowKnown DEF Undisturbed, Requeue, MayRequeue, RequeueEpisode
<1>2. Reset(row) \in DownloadRow /\ Reset(row).status # "failed" /\ HashFree(d, Reset(row).hash)
  BY ResetFields, ResetType DEF Requeue, MayRequeue
<1>3. \/ ledger[e].status = "missing" /\ ledger[e].active = None
      \/ ledger[e].status = "downloading" /\ ledger[e].active = d
  BY <1>1 DEF Requeue, MayRequeue
<1>4. /\ ledger'[e].active = d /\ ledger'[e].status = "downloading"
      /\ OnlyEntry(e)
  BY <1>1, <1>3 DEF OnlyEntry, Requeue, Claimed, IInv, TypeOK
<1>5. rows' = [rows EXCEPT ![d] = Reset(row)] /\ origin' = origin
  BY DEF Requeue
<1>6. ~Claimable(ledger'[e]) /\ ledger[e].status \notin Settled /\ ledger[e].active \in {None, d}
  BY <1>3, <1>4 DEF Claimable, Settled
<1> HIDE DEF e
<1>7. EpisodeOf[origin'[d]] = e /\ OnlyOrigin(d)
  BY <1>5 DEF e, OnlyOrigin
<1> QED
  BY <1>1, <1>2, <1>4, <1>5, <1>6, <1>7, TakerAlive

LEMMA CreateAlive ==
  ASSUME IInv, RowsInv, NEW c \in Collectors, NEW d \in DownloadIds, CreateDownload(c, d)
  PROVE  RowsInv' /\ RowsKept /\ DeadKept
<1>1. PICK r \in Resources : r = collector[c].item
  BY DEF CreateDownload, CollectorAt, IInv, TypeOK, ActorsKnowTheirDownloads,
         CollectorKnows, CollectorState
<1>2. PICK e \in Episodes : e = EpisodeOf[r]
  OBVIOUS
<1>3. PICK row \in DownloadRow :
        row = NewRow(r) /\ row.status # "failed" /\ HashFree(d, row.hash)
  <2>1. NewRow(r) \in DownloadRow /\ NewRow(r).status # "failed"
    BY DEF NewRow, DownloadRow, DownloadStatuses
  <2>2. HashFree(d, NewRow(r).hash)
    BY <1>1 DEF NewRow, HashFree, CreateDownload, MayCreate
  <2> QED
    BY <2>1, <2>2
<1>4. /\ EpisodeOf[origin'[d]] = e
      /\ OnlyOrigin(d)
  BY <1>1, <1>2 DEF OnlyOrigin, CreateDownload, IInv, TypeOK
<1>5. ledger[e].status = "downloading" /\ ledger[e].active = None
  BY <1>1, <1>2 DEF CreateDownload, MayCreate
<1>6. /\ ledger'[e].active = d /\ ledger'[e].status = "downloading"
      /\ OnlyEntry(e)
  <2>1. ledger[e] \in LedgerRow
    BY DEF IInv, TypeOK
  <2>2. ledger' = [ledger EXCEPT ![e] = [ledger[e] EXCEPT !.active = d]]
    BY <1>1, <1>2 DEF CreateDownload
  <2>3. /\ [ledger[e] EXCEPT !.active = d].active = d
        /\ [ledger[e] EXCEPT !.active = d].status = "downloading"
    BY <1>5, <2>1
  <2> QED
    BY <2>2, <2>3 DEF OnlyEntry, IInv, TypeOK
<1>7. ~Claimable(ledger'[e]) /\ ledger[e].status \notin Settled /\ ledger[e].active \in {None, d}
  BY <1>5, <1>6 DEF Claimable, Settled
<1>8. rows' = [rows EXCEPT ![d] = row]
  BY <1>1, <1>3 DEF CreateDownload
<1>9. row.status # "failed" /\ HashFree(d, row.hash)
  BY <1>3
<1> QED
  BY <1>4, <1>6, <1>7, <1>8, <1>9, TakerAlive

LEMMA CommitAlive ==
  ASSUME Undisturbed, IInv, RowsInv, NEW j \in CompletionJobs, CommitCompletion(j)
  PROVE  RowsInv' /\ RowsKept /\ DeadKept
<1>1. PICK d \in DownloadIds : d = job[j].id /\ origin[d] # None /\ job[j].row \in DownloadRow
  BY DEF CommitCompletion, IInv, TypeOK, ActorsKnowTheirDownloads, JobKnows, JobState, OriginKnown
<1>2. PICK e \in Episodes : e = EpisodeOf[origin[d]] /\ e = CompletionEpisodeOf[origin[d]]
  <2>1. CompletionEpisodeOf[origin[d]] # None
    BY <1>1 DEF CommitCompletion, MayComplete, CompletesEpisode
  <2> QED
    BY <1>1, <2>1, RowKnown DEF Undisturbed
<1>3. PICK row : row = [job[j].row EXCEPT !.status = "completed"]
  OBVIOUS
<1>4. /\ ledger[e].active = d
      /\ ledger[e].status \in {"downloading", "downloaded"}
      /\ HashFree(d, job[j].row.hash)
  BY <1>1, <1>2 DEF CommitCompletion, MayComplete, CompletesEpisode
<1>5. row \in DownloadRow /\ row.status # "failed" /\ row.hash = job[j].row.hash
  BY <1>1, <1>3 DEF DownloadRow, DownloadStatuses
<1>6. rows' = [rows EXCEPT ![d] = row] /\ origin' = origin
  BY <1>1, <1>3 DEF CommitCompletion, JobStep
<1>7. /\ ledger'[e].active = d /\ ledger'[e].status = "downloaded"
      /\ OnlyEntry(e)
  BY <1>1, <1>2 DEF OnlyEntry, CommitCompletion, IInv, TypeOK
<1>8. ~Claimable(ledger'[e]) /\ ledger[e].status \notin Settled /\ ledger[e].active \in {None, d}
  BY <1>4, <1>7 DEF Claimable, Settled
<1>9. EpisodeOf[origin'[d]] = e /\ OnlyOrigin(d)
  BY <1>2, <1>6 DEF OnlyOrigin
<1>10. HashFree(d, row.hash)
  BY <1>4, <1>5
<1> QED
  BY <1>5, <1>6, <1>7, <1>8, <1>9, <1>10, TakerAlive

(* An episode without an owner is claimed, or its claim is given back.      *)
LEMMA ClaimAlive ==
  ASSUME IInv, RowsInv, NEW e \in Episodes, NEW entry \in LedgerRow,
         ledger[e].active = None, ledger[e].status \notin Settled,
         ledger' = [ledger EXCEPT ![e] = entry], entry.active = None,
         UNCHANGED <<rows, origin>>
  PROVE  RowsInv' /\ RowsKept /\ DeadKept
<1>1. rows' = rows /\ origin' = origin
  OBVIOUS
<1>2. RowsKept /\ DeadKept
  BY <1>1 DEF RowsKept, DeadKept, Dead, HasStatus
<1>3. \A x \in DownloadIds : Alive(x)' <=> Alive(x)
  BY <1>1 DEF Alive, Dead, HasStatus
<1>4. ledger'[e] = entry /\ \A y \in Episodes \ {e} : ledger'[y] = ledger[y]
  BY DEF IInv, TypeOK
<1>5. ASSUME NEW x \in DownloadIds, Alive(x)
      PROVE  Backed(x)'
  <2>1. Backed(x) /\ EpisodeOf[origin[x]] \in Episodes
    BY <1>5, RowKnown DEF RowsInv, AliveBacked, Alive, IInv, ActorsKnowTheirDownloads,
                          RowsHaveOrigin
  <2>2. EpisodeOf[origin[x]] # e
    BY <2>1 DEF Backed
  <2> QED
    BY <1>1, <1>4, <2>1, <2>2 DEF Backed
<1>6. AliveBacked' /\ OneAlive'
  <2> HIDE DEF Alive
  <2> QED
    BY <1>1, <1>3, <1>5 DEF RowsInv, AliveBacked, OneAlive
<1>7. FreeEpisodes'
  BY <1>4 DEF RowsInv, FreeEpisodes
<1>8. HashesUnique'
  BY <1>1 DEF RowsInv, HashesUnique
<1> QED
  BY <1>2, <1>6, <1>7, <1>8 DEF RowsInv

-----------------------------------------------------------------------------
(* Everybody but the monitor: a download that is dead either stays as it is *)
(* or is revived, and no torrent joins the category.                        *)
LEMMA OthersAlive ==
  ASSUME IInv, AliveInv, RowsInv', RowsKept, DeadKept, TorrentsKept, UNCHANGED monitor,
         NoDeletion'
  PROVE  AliveInv'
<1>1. MonitorInv(monitor)'
  BY Bystander DEF AliveInv
<1>2. DeadStay'
  BY DeadStays DEF AliveInv
<1> QED
  BY <1>1, <1>2 DEF AliveInv

LEMMA ReleaseAlive ==
  ASSUME IInv, RowsInv, NEW r \in Resources, ReleaseClaim(r)
  PROVE  RowsInv' /\ RowsKept /\ DeadKept
<1>1. CASE ClaimIsOf(r)
  <2>1. /\ ledger[EpisodeOf[r]].active = None
        /\ ledger[EpisodeOf[r]].status \notin Settled
        /\ EpisodeOf[r] \in Episodes
    BY <1>1 DEF ClaimIsOf, Settled
  <2>2. Cleared("missing") \in LedgerRow /\ Cleared("missing").active = None
    BY ClearedType
  <2>3. /\ ledger' = [ledger EXCEPT ![EpisodeOf[r]] = Cleared("missing")]
        /\ UNCHANGED <<rows, origin>>
    BY <1>1 DEF ReleaseClaim
  <2> QED
    BY <2>1, <2>2, <2>3, ClaimAlive
<1>2. CASE ~ClaimIsOf(r)
  BY <1>2, SameRows DEF ReleaseClaim
<1> QED
  BY <1>1, <1>2

LEMMA CollectAlive ==
  ASSUME Undisturbed, IInv, AliveInv, NEW c \in Collectors, Collect(c)
  PROVE  AliveInv'
<1>1. /\ RowsInv /\ NoDeletion
      /\ CollectorKnows(collector[c]) /\ collector[c] \in CollectorState
  BY DEF AliveInv, IInv, TypeOK, ActorsKnowTheirDownloads
<1>2. UNCHANGED <<torrents, monitor, user>>
  BY DEF Collect, EvaluateMissing, EvaluateOwned, CreateDownload, SkipSmall, CreateFails,
         RecoverLookup, RecoverRelease, RecoverRequeue, RecoverRequeueFails, GiveUp,
         CollectorRefused, CollectorStep, CollectorGoes
<1>3. RowsInv' /\ RowsKept /\ DeadKept
  <2>1. ASSUME NEW r \in Resources, EvaluateMissing(c, r)
        PROVE  RowsInv' /\ RowsKept /\ DeadKept
    <3>1. PICK entry \in LedgerRow :
            entry = Claimed(None, FeedHash[r], r) /\ entry.active = None
      <4>1. /\ Claimed(None, FeedHash[r], r) \in LedgerRow
            /\ Claimed(None, FeedHash[r], r).active = None
        BY DEF Claimed
      <4> QED
        BY <4>1
    <3>2. EpisodeOf[r] \in Episodes
      OBVIOUS
    <3>3. Claimable(ledger[EpisodeOf[r]])
      BY <2>1 DEF EvaluateMissing
    <3>4. ledger[EpisodeOf[r]].active = None /\ ledger[EpisodeOf[r]].status \notin Settled
      BY <1>1, <3>2, <3>3 DEF RowsInv, FreeEpisodes, Claimable, Settled
    <3>5. /\ ledger' = [ledger EXCEPT ![EpisodeOf[r]] = entry]
          /\ UNCHANGED <<rows, origin>>
      BY <2>1, <3>1 DEF EvaluateMissing
    <3>6. entry.active = None
      BY <3>1
    <3> QED
      BY <1>1, <3>2, <3>4, <3>5, <3>6, ClaimAlive
  <2>2. ASSUME NEW d \in DownloadIds, CreateDownload(c, d)
        PROVE  RowsInv' /\ RowsKept /\ DeadKept
    BY <1>1, <2>2, CreateAlive
  <2>3. ASSUME RecoverRelease(c) \/ GiveUp(c)
        PROVE  RowsInv' /\ RowsKept /\ DeadKept
    <3>1. collector[c].item \in Resources
      BY <1>1, <2>3 DEF RecoverRelease, GiveUp, CollectorAt, CollectorKnows, CollectorState
    <3> QED
      BY <1>1, <2>3, <3>1, ReleaseAlive DEF RecoverRelease, GiveUp
  <2>4. ASSUME RecoverRequeue(c)
        PROVE  RowsInv' /\ RowsKept /\ DeadKept
    <3>1. /\ collector[c].id \in DownloadIds /\ collector[c].row \in DownloadRow
          /\ origin[collector[c].id] # None
      BY <1>1, <2>4 DEF RecoverRequeue, CollectorAt, CollectorKnows, OriginKnown, CollectorState
    <3>2. Requeue(collector[c].id, collector[c].row)
      BY <2>4 DEF RecoverRequeue
    <3> QED
      BY <1>1, <3>1, <3>2, RequeueAlive
  <2>5. ASSUME UNCHANGED <<ledger, rows, origin>>
        PROVE  RowsInv' /\ RowsKept /\ DeadKept
    BY <1>1, <2>5, SameRows
  <2> QED
    BY <2>1, <2>2, <2>3, <2>4, <2>5
    DEF Collect, EvaluateOwned, SkipSmall, CreateFails, RecoverLookup,
        RecoverRequeueFails, CollectorRefused, database
<1>4. NoDeletion'
  BY <1>1, <1>2 DEF NoDeletion
<1> QED
  BY <1>2, <1>3, <1>4, SameTorrents, OthersAlive

LEMMA CompletionAlive ==
  ASSUME Undisturbed, IInv, AliveInv, NEW j \in CompletionJobs, CompletionWorks(j)
  PROVE  AliveInv'
<1>1. RowsInv /\ NoDeletion
  BY DEF AliveInv
<1>2. UNCHANGED <<torrents, monitor, user, origin>>
  BY DEF CompletionWorks, RenameFiles, RenameFails, CommitCompletion, CompletionFails, JobStep
<1>3. CASE CommitCompletion(j)
  <2>1. RowsInv' /\ RowsKept /\ DeadKept
    BY <1>1, <1>3, CommitAlive
  <2> QED
    BY <1>1, <1>2, <2>1, SameTorrents, OthersAlive DEF NoDeletion
<1>4. CASE UNCHANGED <<ledger, rows>>
  <2>1. RowsInv' /\ RowsKept /\ DeadKept
    BY <1>1, <1>2, <1>4, SameRows
  <2> QED
    BY <1>1, <1>2, <2>1, SameTorrents, OthersAlive DEF NoDeletion
<1> QED
  BY <1>3, <1>4 DEF CompletionWorks, RenameFiles, RenameFails, CompletionFails

LEMMA UserAlive ==
  ASSUME Undisturbed, IInv, AliveInv, UserActs
  PROVE  AliveInv'
<1>1. RowsInv /\ NoDeletion
  BY DEF AliveInv
<1>2. ASSUME NEW chosen \in SUBSET Episodes, NEW status \in UserChoices,
             SetUserStatus(chosen, status)
      PROVE  AliveInv'
  <2>1. status \in Settled
    BY DEF Undisturbed, Settled
  <2>2. /\ \A e \in Episodes : ledger'[e] = IF e \in chosen THEN Cleared(status) ELSE ledger[e]
        /\ rows' = rows /\ origin' = origin /\ torrents' = torrents /\ monitor' = monitor
        /\ user' = UserIdle
    BY <1>2 DEF SetUserStatus, UserStep
  <2>3. RowsKept /\ DeadKept
    BY <2>2 DEF RowsKept, DeadKept, Dead, HasStatus
  <2>4. \A x \in DownloadIds : Alive(x)' <=> Alive(x)
    BY <2>2 DEF Alive, Dead, HasStatus
  <2>5. ASSUME NEW x \in DownloadIds, Alive(x)
        PROVE  Backed(x)'
    <3>1. Backed(x) /\ EpisodeOf[origin[x]] \in Episodes
      BY <1>1, <2>5, RowKnown DEF RowsInv, AliveBacked, Alive, IInv, ActorsKnowTheirDownloads,
                                  RowsHaveOrigin
    <3> QED
      BY <2>1, <2>2, <3>1 DEF Backed, Cleared
  <2>6. AliveBacked' /\ OneAlive'
    <3> HIDE DEF Alive
    <3> QED
      BY <1>1, <2>2, <2>4, <2>5 DEF RowsInv, AliveBacked, OneAlive
  <2>7. FreeEpisodes'
    BY <1>1, <2>2 DEF RowsInv, FreeEpisodes, Cleared
  <2>8. HashesUnique'
    BY <1>1, <2>2 DEF RowsInv, HashesUnique
  <2>9. RowsInv'
    BY <2>6, <2>7, <2>8 DEF RowsInv
  <2>10. NoDeletion'
    BY <2>2 DEF NoDeletion, UserIdle
  <2> QED
    BY <2>2, <2>3, <2>9, <2>10, SameTorrents, OthersAlive
<1>3. ASSUME NEW d \in DownloadIds, RetryDownload(d)
      PROVE  AliveInv'
  <2>1. origin[d] # None /\ user.batch[d] \in DownloadRow
    BY <1>3 DEF RetryDownload, IInv, TypeOK, ActorsKnowTheirDownloads, UserKnows, UserState
  <2>2. RowsInv' /\ RowsKept /\ DeadKept
    BY <1>1, <1>3, <2>1, RequeueAlive DEF RetryDownload
  <2>3. user'.pc \in {"idle", "retry"} /\ UNCHANGED <<torrents, monitor>>
    BY <1>3 DEF RetryDownload, RetriesLeft, UserIdle, IInv, TypeOK, UserState
  <2> QED
    BY <2>2, <2>3, SameTorrents, OthersAlive DEF NoDeletion
<1>4. ASSUME UNCHANGED <<ledger, rows, origin, torrents, monitor>>,
             user'.pc \in {"idle", "retry"}
      PROVE  AliveInv'
  <2>1. RowsInv' /\ RowsKept /\ DeadKept
    BY <1>1, <1>4, SameRows
  <2> QED
    BY <1>4, <2>1, SameTorrents, OthersAlive DEF NoDeletion
<1>5. ASSUME NEW ids, RequestRetry(ids)
      PROVE  AliveInv'
  BY <1>4, <1>5 DEF RequestRetry, UserStep, UserIdle
<1>6. ASSUME NEW d \in DownloadIds, RetryRefused(d)
      PROVE  AliveInv'
  <2>1. user'.pc \in {"idle", "retry"}
    BY <1>6 DEF RetryRefused, UserStep, RetriesLeft, UserIdle, IInv, TypeOK, UserState
  <2> QED
    BY <1>4, <1>6, <2>1 DEF RetryRefused, UserStep
<1>7. ~DeletePayload /\ ~DeleteRows
  BY <1>1 DEF NoDeletion, DeletePayload, DeleteRows
<1> QED
  BY <1>2, <1>3, <1>5, <1>6, <1>7 DEF UserActs, Undisturbed

(* The torrents of dead downloads stay failed, whatever else qBittorrent    *)
(* does.                                                                    *)
LEMMA TorrentAlive ==
  ASSUME Undisturbed, IInv, AliveInv, NEW h \in Hashes, TorrentProgresses(h) \/ TorrentDisturbed(h)
  PROVE  AliveInv'
<1>1. PICK torrent :
        /\ TorrentStep(h, torrent) /\ torrents[h] # None
        /\ \/ torrent = None
           \/ torrent.category = torrents[h].category
              /\ (torrents[h].state = "failed" => torrent.state = "failed")
  <2>1. torrents[h] # None => torrents[h] \in Torrent
    BY DEF IInv, TypeOK
  <2>2. \A state \in TorrentStates : torrents[h] # None =>
          /\ [torrents[h] EXCEPT !.state = state].category = torrents[h].category
          /\ [torrents[h] EXCEPT !.state = state].state = state
    BY <2>1 DEF Torrent
  <2> QED
    BY <2>2 DEF TorrentProgresses, TorrentDisturbed, Undisturbed, TorrentStates
<1>2. /\ torrents'[h] = torrent /\ \A x \in Hashes \ {h} : torrents'[x] = torrents[x]
      /\ UNCHANGED <<ledger, rows, origin, monitor, user>>
  BY <1>1 DEF TorrentStep, database, Volatile, IInv, TypeOK
<1>3. TorrentsKept
  BY <1>1, <1>2 DEF TorrentsKept, InAutoRss, Spent
<1>4. RowsInv' /\ RowsKept /\ DeadKept
  BY <1>2, SameRows DEF AliveInv
<1> QED
  BY <1>2, <1>3, <1>4, OthersAlive DEF AliveInv, NoDeletion

-----------------------------------------------------------------------------
(* The monitor.                                                             *)
LEMMA MonitorContext ==
  ASSUME IInv
  PROVE  /\ TypeOK /\ monitor \in MonitorState /\ MonitorKnows(monitor)
         /\ monitor.pc \in {"retry", "pending", "addFailed", "checkpoint", "categorize",
                            "activate", "save"}
              => /\ monitor.id \in DownloadIds /\ origin[monitor.id] # None
                 /\ monitor.row \in DownloadRow
<1>1. TypeOK /\ monitor \in MonitorState /\ MonitorKnows(monitor)
  BY DEF IInv, TypeOK, ActorsKnowTheirDownloads
<1> QED
  BY <1>1 DEF MonitorKnows, MonitorState, OriginKnown

LEMMA RowFields ==
  ASSUME NEW row \in DownloadRow, NEW status \in DownloadStatuses
  PROVE  /\ [row EXCEPT !.status = status] \in DownloadRow
         /\ [row EXCEPT !.status = status].status = status
         /\ [row EXCEPT !.status = status].hash = row.hash
BY DEF DownloadRow

(* The monitor turns away from what it was about.                           *)
LEMMA IdleAlive ==
  ASSUME AliveInv, MonitorStep(MonitorIdle), RowsInv', DeadStay'
  PROVE  AliveInv'
<1>1. monitor'.pc = "idle" /\ user' = user
  BY DEF MonitorStep, MonitorIdle
<1>2. MonitorInv(monitor)'
  BY <1>1 DEF MonitorInv
<1> QED
  BY <1>1, <1>2 DEF AliveInv, NoDeletion

(* Or it looks at something, and goes on with what it has read.             *)
LEMMA LookAlive ==
  ASSUME AliveInv, NEW state, MonitorStep(state), MonitorInv(state),
         UNCHANGED <<ledger, rows, torrents>>
  PROVE  AliveInv'
<1>1. /\ rows' = rows /\ ledger' = ledger /\ torrents' = torrents /\ origin' = origin
      /\ user' = user /\ monitor' = state
  BY DEF MonitorStep
<1>2. RowsInv' /\ RowsKept /\ DeadKept
  BY <1>1, SameRows DEF AliveInv
<1>3. DeadStay'
  BY <1>1, <1>2, SameTorrents, DeadStays DEF AliveInv
<1>4. /\ \A d : Alive(d)' <=> Alive(d)
      /\ \A h : (Spent(h)' <=> Spent(h)) /\ (InAutoRss(h)' <=> InAutoRss(h))
      /\ \A hash : NoDeadHas(hash)' <=> NoDeadHas(hash)
  BY <1>1 DEF Alive, Dead, HasStatus, Spent, InAutoRss, NoDeadHas
<1>5. MonitorInv(monitor)'
  <2> HIDE DEF Alive, Spent, InAutoRss, NoDeadHas
  <2> QED
    BY <1>1, <1>4 DEF MonitorInv
<1> QED
  BY <1>1, <1>2, <1>3, <1>5 DEF AliveInv, NoDeletion

LEMMA TurnsAlive ==
  ASSUME IInv, AliveInv, NEW d \in DownloadIds, MonitorTurns(d)
  PROVE  AliveInv'
<1>1. RowsInv /\ DeadStay /\ TypeOK
  BY DEF AliveInv, IInv
<1>2. CASE RetryVisit(d)
  <2>1. Alive(d)
    BY <1>2 DEF RetryVisit, Alive, Dead, HasStatus
  <2>2. Turn("retry", d).pc = "retry" /\ Turn("retry", d).id = d
    BY DEF Turn, MonitorIdle
  <2>3. MonitorInv(Turn("retry", d))
    <3> HIDE DEF Alive
    <3> QED
      BY <2>1, <2>2 DEF MonitorInv
  <2> QED
    BY <1>2, <2>3, LookAlive DEF RetryVisit
<1>3. CASE PendingVisit(d)
  <2>1. Alive(d) /\ rows[d].status = "pending"
    BY <1>3 DEF PendingVisit, Alive, Dead, HasStatus
  <2>2. /\ Turn("pending", d).pc = "pending" /\ Turn("pending", d).id = d
        /\ Turn("pending", d).row = rows[d]
    BY DEF Turn, MonitorIdle
  <2>3. rows[d].hash \in Hashes => NoDeadHas(rows[d].hash)
    <3>1. \A x \in DownloadIds : Dead(x) => x # d /\ rows[x] # None
      BY <2>1 DEF Dead, HasStatus
    <3>2. rows[d] # None
      BY <2>1 DEF Alive
    <3> HIDE DEF Dead
    <3> QED
      BY <1>1, <3>1, <3>2 DEF NoDeadHas, RowsInv, HashesUnique
  <2>4. MonitorInv(Turn("pending", d))
    <3> HIDE DEF Alive
    <3> QED
      BY <2>1, <2>2, <2>3 DEF MonitorInv
  <2> QED
    BY <1>3, <2>4, LookAlive DEF PendingVisit
<1>4. ASSUME NEW status \in {"retry_cleanup", "retry_cleanup_processing"},
             rows[d] # None, rows[d].status # "failed",
             rows' = [rows EXCEPT ![d].status = status],
             UNCHANGED <<ledger, torrents, origin>>
      PROVE  RowsInv' /\ DeadStay'
  <2>1. PICK row \in DownloadRow :
          row.status # "failed" /\ row.hash = rows[d].hash /\ rows' = [rows EXCEPT ![d] = row]
    <3>1. rows[d] \in DownloadRow
      BY <1>1, <1>4 DEF TypeOK
    <3>2. status \in DownloadStatuses /\ status # "failed"
      BY DEF DownloadStatuses
    <3>3. rows' = [rows EXCEPT ![d] = [rows[d] EXCEPT !.status = status]]
      BY <1>4
    <3> QED
      BY <3>1, <3>2, <3>3, RowFields
  <2>2. Alive(d)
    BY <1>4 DEF Alive, Dead, HasStatus
  <2>3. RowsInv' /\ RowsKept /\ DeadKept
    BY <1>1, <1>4, <2>1, <2>2, LiveWrite
  <2> QED
    BY <1>1, <1>4, <2>3, SameTorrents, DeadStays
<1>5. CASE RecoverCleanupLease(d)
  <2>1. RowsInv' /\ DeadStay'
    BY <1>4, <1>5 DEF RecoverCleanupLease, MonitorStep, HasStatus
  <2> QED
    BY <1>5, <2>1, IdleAlive DEF RecoverCleanupLease
<1>6. CASE ClaimCleanup(d)
  <2>1. RowsInv' /\ DeadStay'
    BY <1>4, <1>6 DEF ClaimCleanup, MonitorStep, HasStatus
  <2>2. monitor'.pc = "cleanup" /\ user' = user
    BY <1>6 DEF ClaimCleanup, MonitorStep, MonitorIdle
  <2>3. MonitorInv(monitor)'
    BY <2>2 DEF MonitorInv
  <2> QED
    BY <2>1, <2>2, <2>3 DEF AliveInv, NoDeletion
<1> QED
  BY <1>2, <1>3, <1>5, <1>6 DEF MonitorTurns

LEMMA LooksAlive ==
  ASSUME IInv, AliveInv, NEW h \in Hashes, MonitorLooks(h)
  PROVE  AliveInv'
<1>1. CASE StatusVisit(h)
  <2> DEFINE state == [MonitorIdle EXCEPT !.pc = "status", !.hash = h,
                                          !.state = torrents[h].state]
  <2>1. state.pc = "status" /\ state.hash = h /\ state.state = torrents[h].state
    BY DEF MonitorIdle
  <2>2. state.state # "failed" => NoDeadHas(h)
    BY <1>1, <2>1 DEF StatusVisit, NoDeadHas, AliveInv, DeadStay, Spent
  <2>3. state.state = "failed" => Spent(h)
    BY <2>1 DEF Spent
  <2>4. MonitorStep(state) /\ UNCHANGED <<ledger, rows, torrents>>
    BY <1>1 DEF StatusVisit
  <2> HIDE DEF state
  <2>5. MonitorInv(state)
    BY <2>1, <2>2, <2>3 DEF MonitorInv
  <2> QED
    BY <2>4, <2>5, LookAlive
<1>2. CASE ReconcileVisit(h)
  <2> DEFINE state == [MonitorIdle EXCEPT !.pc = "reconcile", !.hash = h]
  <2>1. state.pc = "reconcile" /\ state.hash = h
    BY DEF MonitorIdle
  <2>2. MonitorStep(state) /\ UNCHANGED <<ledger, rows, torrents>> /\ ~InAutoRss(h)
    BY <1>2 DEF ReconcileVisit
  <2> HIDE DEF state
  <2>3. MonitorInv(state)
    BY <2>1, <2>2 DEF MonitorInv
  <2> QED
    BY <2>2, <2>3, LookAlive
<1> QED
  BY <1>1, <1>2 DEF MonitorLooks

(* The writes of the cleanup hold for a claimed row only, which is alive.   *)
LEMMA CleanupAlive ==
  ASSUME IInv, AliveInv, monitor.id \in DownloadIds, NEW status \in DownloadStatuses,
         status # "failed", NEW hash \in HashColumn, hash = monitor.hash \/ hash \notin Hashes,
         CleanupWrites(status, hash), UNCHANGED <<ledger, origin>>
  PROVE  RowsInv' /\ RowsKept /\ DeadKept
<1>1. RowsInv /\ TypeOK
  BY DEF AliveInv, IInv
<1> DEFINE claimed == /\ HasStatus(monitor.id, "retry_cleanup_processing")
                      /\ rows[monitor.id].hash = monitor.hash
<1>2. CASE claimed
  <2>1. PICK d \in DownloadIds : d = monitor.id
    OBVIOUS
  <2>2. rows[d] \in DownloadRow /\ Alive(d) /\ rows[d].hash = monitor.hash
    BY <1>1, <1>2, <2>1 DEF TypeOK, HasStatus, Alive, Dead
  <2>3. PICK row \in DownloadRow :
          row = [rows[d] EXCEPT !.status = status, !.hash = hash]
    <3>1. [rows[d] EXCEPT !.status = status, !.hash = hash] \in DownloadRow
      BY <2>2 DEF DownloadRow
    <3> QED
      BY <3>1
  <2>4. row.status = status /\ row.hash = hash
    BY <2>2, <2>3 DEF DownloadRow
  <2>5. rows' = [rows EXCEPT ![d] = row]
    <3>1. rows' = [rows EXCEPT ![d].status = status, ![d].hash = hash]
      BY <1>2, <2>1 DEF CleanupWrites
    <3> QED
      BY <1>1, <2>2, <2>3, <3>1 DEF TypeOK, DownloadRow
  <2> QED
    BY <1>1, <2>2, <2>4, <2>5, LiveWrite
<1>3. CASE ~claimed
  <2>1. UNCHANGED <<ledger, rows, origin>>
    BY <1>3 DEF CleanupWrites
  <2> QED
    BY <1>1, <2>1, SameRows
<1> QED
  BY <1>2, <1>3

(* What the monitor saves: a row that is alive, until this failure.         *)
LEMMA SaveAlive ==
  ASSUME IInv, AliveInv, MonitorStep(MonitorIdle), UNCHANGED torrents,
         NEW d \in DownloadIds, NEW row \in DownloadRow, Alive(d),
         \/ row.status # "failed" /\ rows' = Saved(d, row) /\ UNCHANGED ledger
         \/ /\ row.status = "failed" /\ PersistFailure(d, row)
            /\ row.hash \in Hashes => Spent(row.hash)
  PROVE  AliveInv'
<1>1. RowsInv /\ DeadStay /\ UNCHANGED origin
  BY DEF AliveInv, MonitorStep
<1>2. CASE row.status # "failed"
  <2>1. RowsInv' /\ RowsKept /\ DeadKept
    BY <1>1, <1>2, LiveSave
  <2>2. DeadStay'
    BY <1>1, <2>1, SameTorrents, DeadStays
  <2> QED
    BY <2>1, <2>2, IdleAlive
<1>3. CASE row.status = "failed"
  <2>1. RowsInv' /\ DeadStay'
    BY <1>1, <1>3, LiveFailure
  <2> QED
    BY <2>1, IdleAlive
<1> QED
  BY <1>2, <1>3

LEMMA MonitorAlive ==
  ASSUME IInv, AliveInv, MonitorWorks \/ MonitorSkips
  PROVE  AliveInv'
<1>0. /\ TypeOK /\ monitor \in MonitorState /\ MonitorKnows(monitor)
      /\ RowsInv /\ DeadStay /\ MonitorInv(monitor)
      /\ monitor.pc \in {"retry", "pending", "addFailed", "checkpoint", "categorize",
                         "activate", "save"}
           => /\ monitor.id \in DownloadIds /\ origin[monitor.id] # None
              /\ monitor.row \in DownloadRow
  BY MonitorContext DEF AliveInv
<1>1. monitor.pc \in {"retry", "pending", "addFailed", "checkpoint", "categorize", "activate",
                      "save"} => Alive(monitor.id)
  <2> HIDE DEF Alive
  <2> QED
    BY <1>0 DEF MonitorInv
<1>2. ASSUME MonitorStep(MonitorIdle), UNCHANGED <<ledger, rows, torrents>>
      PROVE  AliveInv'
  <2>1. RowsInv' /\ DeadStay'
    BY <1>0, <1>2, SameRows, SameTorrents, DeadStays DEF MonitorStep
  <2> QED
    BY <1>2, <2>1, IdleAlive
<1>3. CASE PrepareRetry
  <2>1. /\ monitor.id \in DownloadIds /\ monitor.row \in DownloadRow /\ Alive(monitor.id)
        /\ monitor.row.retries < RetryCap
    BY <1>0, <1>1, <1>3 DEF PrepareRetry, MonitorAt, MonitorKnows
  <2>2. PICK row : row = [monitor.row EXCEPT !.status = "pending", !.retries = @ + 1]
    OBVIOUS
  <2>3. row \in DownloadRow /\ row.status # "failed"
    <3>1. [monitor.row EXCEPT !.status = "pending"] \in DownloadRow
      BY <2>1, RowFields DEF DownloadStatuses
    <3>2. row = [[monitor.row EXCEPT !.status = "pending"] EXCEPT !.retries = monitor.row.retries + 1]
      BY <2>1, <2>2 DEF DownloadRow
    <3>3. monitor.row.retries + 1 \in 0..RetryCap
      BY <2>1 DEF DownloadRow
    <3> QED
      BY <2>1, <3>1, <3>2, <3>3 DEF DownloadRow
  <2>4. /\ rows' = Saved(monitor.id, row) /\ MonitorStep(MonitorIdle)
        /\ UNCHANGED <<ledger, torrents>>
    BY <1>3, <2>2 DEF PrepareRetry
  <2> QED
    BY <2>1, <2>3, <2>4, SaveAlive
<1>4. CASE DeleteRetryPayload
  <2>1. /\ torrents' = Without({monitor.hash}) /\ monitor'.pc = "finalize"
        /\ UNCHANGED <<ledger, rows, origin, user>>
    BY <1>0, <1>4 DEF DeleteRetryPayload, MonitorStep, MonitorState
  <2>2. RowsInv' /\ DeadStay'
    BY <1>0, <2>1, SameRows, FewerTorrents, DeadStays
  <2>3. MonitorInv(monitor)'
    BY <2>1 DEF MonitorInv
  <2> QED
    BY <2>1, <2>2, <2>3 DEF AliveInv, NoDeletion
<1>5. CASE DeleteRetryPayloadFails
  <2>1. monitor.id \in DownloadIds /\ monitor.hash \in HashColumn
    BY <1>0, <1>5 DEF DeleteRetryPayloadFails, MonitorAt, MonitorKnows, MonitorState
  <2>2. /\ CleanupWrites("retry_cleanup", monitor.hash) /\ MonitorStep(MonitorIdle)
        /\ UNCHANGED <<ledger, origin>>
    BY <1>5 DEF DeleteRetryPayloadFails, MonitorStep
  <2>3. RowsInv' /\ RowsKept /\ DeadKept
    BY <2>1, <2>2, CleanupAlive DEF DownloadStatuses
  <2>4. TorrentsKept
    BY <1>0, <1>5, SameTorrents, FewerTorrents DEF DeleteRetryPayloadFails
  <2>5. DeadStay'
    BY <1>0, <2>3, <2>4, DeadStays
  <2> QED
    BY <2>2, <2>3, <2>5, IdleAlive
<1>6. CASE FinalizeCleanup
  <2>1. monitor.id \in DownloadIds
    BY <1>0, <1>6 DEF FinalizeCleanup, MonitorAt, MonitorKnows, MonitorState
  <2>2. /\ CleanupWrites("pending", Placeholder(monitor.id)) /\ MonitorStep(MonitorIdle)
        /\ UNCHANGED <<ledger, origin, torrents>>
    BY <1>6 DEF FinalizeCleanup, MonitorStep
  <2>3. Placeholder(monitor.id) \in HashColumn /\ Placeholder(monitor.id) \notin Hashes
    BY <2>1 DEF Placeholder
  <2>4. RowsInv' /\ RowsKept /\ DeadKept
    BY <2>1, <2>2, <2>3, CleanupAlive DEF DownloadStatuses
  <2>5. DeadStay'
    BY <1>0, <2>2, <2>4, SameTorrents, DeadStays
  <2> QED
    BY <2>2, <2>4, <2>5, IdleAlive
<1>7. ASSUME NEW h \in Hashes, ResumeAdded(h)
      PROVE  AliveInv'
  <2> DEFINE state == [monitor EXCEPT !.pc = "checkpoint", !.hash = h]
  <2>1. /\ monitor.pc = "pending" /\ MonitorStep(state) /\ UNCHANGED <<ledger, rows, torrents>>
        /\ state.pc = "checkpoint" /\ state.id = monitor.id /\ state.row = monitor.row
    BY <1>0, <1>7 DEF ResumeAdded, MonitorAt, MonitorState
  <2> HIDE DEF state, Alive, NoDeadHas
  <2>2. MonitorInv(state)
    BY <1>0, <1>1, <2>1 DEF MonitorInv
  <2> QED
    BY <2>1, <2>2, LookAlive
<1>8. CASE ResumeRunning
  <2> DEFINE state == [monitor EXCEPT !.pc = "activate"]
  <2>1. /\ monitor.pc = "pending" /\ MonitorStep(state) /\ UNCHANGED <<ledger, rows, torrents>>
        /\ state.pc = "activate" /\ state.id = monitor.id
    BY <1>0, <1>8 DEF ResumeRunning, MonitorAt, MonitorState
  <2> HIDE DEF state, Alive
  <2>2. MonitorInv(state)
    BY <1>1, <2>1 DEF MonitorInv
  <2> QED
    BY <2>1, <2>2, LookAlive
<1>9. CASE AddTorrent
  <2>1. PICK h \in Hashes : h = HashOf[origin[monitor.id]]
    BY <1>0, <1>9 DEF AddTorrent, MonitorAt, TypeOK
  <2>2. /\ monitor.pc = "pending" /\ ~AlreadyRunning
        /\ torrents' = torrents \/ torrents' = Added(h)
        /\ UNCHANGED <<ledger, rows, origin, user>>
        /\ \/ monitor' = [monitor EXCEPT !.pc = "checkpoint", !.hash = h]
           \/ monitor' = MonitorIdle
           \/ monitor' = [monitor EXCEPT !.pc = "addFailed"]
    BY <1>9, <2>1 DEF AddTorrent, MonitorAt, MonitorStep
  <2>3. TorrentsKept
    <3>1. CASE torrents' = Added(h)
      <4>1. torrents'[h].category = monitor.id
        BY <2>1, <3>1, <1>0 DEF Added, TypeOK
      <4>2. \A x \in Hashes \ {h} : torrents'[x] = torrents[x]
        BY <1>0, <3>1 DEF Added, TypeOK
      <4>3. ~InAutoRss(h)'
        BY <1>0, <2>2, <4>1 DEF InAutoRss
      <4> QED
        BY <4>2, <4>3 DEF TorrentsKept, InAutoRss, Spent
    <3> QED
      BY <2>2, <3>1, SameTorrents
  <2>4. RowsInv' /\ RowsKept /\ DeadKept
    BY <1>0, <2>2, SameRows
  <2>5. DeadStay'
    BY <1>0, <2>3, <2>4, DeadStays
  <2>6. Alive(monitor.id)
    BY <1>1, <2>2
  <2>7. CASE monitor' = [monitor EXCEPT !.pc = "checkpoint", !.hash = h]
    <3>1. /\ monitor'.pc = "checkpoint" /\ monitor'.id = monitor.id
          /\ monitor'.row = monitor.row
      BY <1>0, <2>7 DEF MonitorState
    <3>2. rows' = rows
      BY <2>2
    <3>3. Alive(monitor.id)'
      BY <2>6, <3>1, <3>2 DEF Alive, Dead, HasStatus
    <3>4. monitor.row.hash \in Hashes => NoDeadHas(monitor.row.hash)
      BY <1>0, <2>2 DEF MonitorInv
    <3>5. monitor'.row.hash \in Hashes => NoDeadHas(monitor.row.hash)'
      BY <3>1, <3>2, <3>4 DEF NoDeadHas, Dead, HasStatus
    <3> HIDE DEF Alive, NoDeadHas
    <3>6. MonitorInv(monitor)'
      BY <3>1, <3>3, <3>5 DEF MonitorInv
    <3> QED
      BY <2>2, <2>4, <2>5, <3>6 DEF AliveInv, NoDeletion
  <2>8. CASE monitor' = MonitorIdle
    <3>1. MonitorInv(monitor)'
      BY <2>8 DEF MonitorInv, MonitorIdle
    <3> QED
      BY <2>2, <2>4, <2>5, <3>1 DEF AliveInv, NoDeletion
  <2>9. CASE monitor' = [monitor EXCEPT !.pc = "addFailed"]
    <3>1. /\ monitor'.pc = "addFailed" /\ monitor'.id = monitor.id
          /\ monitor'.row = monitor.row
      BY <1>0, <2>9 DEF MonitorState
    <3>2. rows' = rows
      BY <2>2
    <3>3. Alive(monitor.id)'
      BY <2>6, <3>1, <3>2 DEF Alive, Dead, HasStatus
    <3>4. monitor.row.hash \in Hashes => ~InAutoRss(monitor.row.hash)
      BY <2>2 DEF AlreadyRunning
    <3>5. monitor.row.hash \in Hashes => ~InAutoRss(monitor.row.hash)'
      BY <2>3, <3>1, <3>4 DEF TorrentsKept
    <3> HIDE DEF Alive, InAutoRss
    <3>6. MonitorInv(monitor)'
      BY <3>1, <3>3, <3>5 DEF MonitorInv
    <3> QED
      BY <2>2, <2>4, <2>5, <3>6 DEF AliveInv, NoDeletion
  <2> QED
    BY <2>2, <2>7, <2>8, <2>9
<1>10. CASE FailAdd
  <2>1. monitor.id \in DownloadIds /\ monitor.row \in DownloadRow /\ Alive(monitor.id)
    BY <1>0, <1>1, <1>10 DEF FailAdd, MonitorAt
  <2>2. PICK permanent \in BOOLEAN :
          PersistFailure(monitor.id, [monitor.row EXCEPT !.status = "failed",
                                                         !.permanent = permanent])
    BY <1>10 DEF FailAdd
  <2>3. PICK row : row = [monitor.row EXCEPT !.status = "failed", !.permanent = permanent]
    OBVIOUS
  <2>4. row \in DownloadRow /\ row.status = "failed" /\ row.hash = monitor.row.hash
    BY <2>1, <2>3 DEF DownloadRow, DownloadStatuses
  <2>5. row.hash \in Hashes => Spent(row.hash)
    BY <1>0, <1>10, <2>4 DEF FailAdd, MonitorAt, MonitorInv, Spent
  <2>6. PersistFailure(monitor.id, row)
    BY <2>2, <2>3
  <2>7. MonitorStep(MonitorIdle) /\ UNCHANGED torrents
    BY <1>10 DEF FailAdd
  <2> QED
    BY <2>1, <2>4, <2>5, <2>6, <2>7, SaveAlive
<1>11. CASE Checkpoint
  <2>1. /\ monitor.id \in DownloadIds /\ monitor.row \in DownloadRow /\ Alive(monitor.id)
        /\ monitor.hash \in Hashes /\ monitor.pc = "checkpoint"
    BY <1>0, <1>1, <1>11 DEF Checkpoint, MonitorAt, MonitorKnows
  <2>2. PICK row : row = [monitor.row EXCEPT !.hash = monitor.hash, !.status = "pending"]
    OBVIOUS
  <2>3. row \in DownloadRow /\ row.status # "failed" /\ row.hash = monitor.hash
    BY <2>1, <2>2 DEF DownloadRow, DownloadStatuses
  <2> DEFINE known == monitor.row.hash = monitor.hash
  <2>4. /\ rows' = IF known THEN rows ELSE Saved(monitor.id, row)
        /\ MonitorStep(IF known \/ HashFree(monitor.id, monitor.hash)
                       THEN [monitor EXCEPT !.pc = "categorize", !.row = row]
                       ELSE MonitorIdle)
        /\ UNCHANGED <<ledger, torrents>>
    BY <1>11, <2>2 DEF Checkpoint
  <2>5. UNCHANGED <<origin, user>>
    BY <2>4 DEF MonitorStep
  <2>6. RowsInv' /\ RowsKept /\ DeadKept
    <3>1. CASE known
      BY <1>0, <2>4, <2>5, <3>1, SameRows
    <3>2. CASE ~known
      BY <1>0, <2>1, <2>3, <2>4, <2>5, <3>2, LiveSave
    <3> QED
      BY <3>1, <3>2
  <2>7. DeadStay'
    BY <1>0, <2>4, <2>6, SameTorrents, DeadStays
  <2>8. CASE known \/ HashFree(monitor.id, monitor.hash)
    <3>1. /\ monitor'.pc = "categorize" /\ monitor'.id = monitor.id
          /\ monitor'.hash = monitor.hash
      BY <1>0, <2>4, <2>8 DEF MonitorStep, MonitorState
    <3>2. Alive(monitor.id)'
      <4>1. PICK d \in DownloadIds : d = monitor.id
        BY <2>1
      <4>2. Alive(d)'
        BY <2>1, <2>6, <4>1, AliveStays
      <4> QED
        BY <3>1, <4>1, <4>2 DEF Alive, Dead, HasStatus
    <3>3. NoDeadHas(monitor.hash)
      <4>1. CASE known
        BY <1>0, <2>1, <4>1 DEF MonitorInv
      <4>2. CASE HashFree(monitor.id, monitor.hash)
        BY <2>1, <4>2 DEF NoDeadHas, HashFree, Alive, Dead, HasStatus
      <4> QED
        BY <2>8, <4>1, <4>2
    <3>4. \A d \in DownloadIds : Dead(d)' => rows'[d].hash # monitor.hash
      <4>1. \A d \in DownloadIds : Dead(d)' => Dead(d) /\ rows'[d] = rows[d]
        BY <2>6 DEF DeadKept
      <4> HIDE DEF Dead
      <4> QED
        BY <3>3, <4>1 DEF NoDeadHas
    <3>5. NoDeadHas(monitor.hash)'
      BY <3>1, <3>4 DEF NoDeadHas
    <3> HIDE DEF Alive, NoDeadHas
    <3>6. MonitorInv(monitor)'
      BY <3>1, <3>2, <3>5 DEF MonitorInv
    <3> QED
      BY <2>5, <2>6, <2>7, <3>6 DEF AliveInv, NoDeletion
  <2>9. CASE ~(known \/ HashFree(monitor.id, monitor.hash))
    BY <2>4, <2>6, <2>7, <2>9, IdleAlive
  <2> QED
    BY <2>8, <2>9
<1>12. CASE Categorize
  <2>1. /\ monitor.pc = "categorize" /\ monitor.hash \in Hashes /\ monitor.id \in DownloadIds
        /\ Alive(monitor.id) /\ NoDeadHas(monitor.hash)
    BY <1>0, <1>1, <1>12 DEF Categorize, MonitorAt, MonitorKnows, MonitorInv
  <2>2. /\ \A h \in Hashes \ {monitor.hash} : torrents'[h] = torrents[h]
        /\ monitor'.pc = "activate" /\ monitor'.id = monitor.id
        /\ UNCHANGED <<ledger, rows, origin, user>>
    BY <1>0, <1>12 DEF Categorize, MonitorStep, MonitorState, TypeOK
  <2>3. RowsInv' /\ RowsKept /\ DeadKept
    BY <1>0, <2>2, SameRows
  <2>4. DeadStay'
    <3>1. ASSUME NEW d \in DownloadIds, Dead(d), rows[d].hash \in Hashes
          PROVE  Spent(rows[d].hash)'
      <4>1. rows[d].hash # monitor.hash
        BY <2>1, <3>1 DEF NoDeadHas
      <4>2. Spent(rows[d].hash)
        BY <1>0, <3>1 DEF DeadStay
      <4>3. torrents'[rows[d].hash] = torrents[rows[d].hash] /\ rows'[d] = rows[d]
        BY <2>2, <3>1, <4>1
      <4> QED
        BY <4>2, <4>3 DEF Spent, InAutoRss
    <3>2. \A d \in DownloadIds : (Dead(d)' => Dead(d)) /\ rows'[d] = rows[d]
      BY <2>2 DEF Dead, HasStatus
    <3> HIDE DEF Dead, Spent
    <3> QED
      BY <3>1, <3>2 DEF DeadStay
  <2>5. Alive(monitor.id)'
    BY <2>1, <2>2 DEF Alive, Dead, HasStatus
  <2> HIDE DEF Alive
  <2>6. MonitorInv(monitor)'
    BY <2>2, <2>5 DEF MonitorInv
  <2> QED
    BY <2>2, <2>3, <2>4, <2>6 DEF AliveInv, NoDeletion
<1>13. CASE Activate
  <2>1. monitor.id \in DownloadIds /\ monitor.row \in DownloadRow /\ Alive(monitor.id)
    BY <1>0, <1>1, <1>13 DEF Activate, MonitorAt
  <2>2. PICK row : row = [monitor.row EXCEPT !.status = "downloading"]
    OBVIOUS
  <2>3. row \in DownloadRow /\ row.status # "failed"
    BY <2>1, <2>2, RowFields DEF DownloadStatuses
  <2>4. /\ rows' = Saved(monitor.id, row) /\ MonitorStep(MonitorIdle)
        /\ UNCHANGED <<ledger, torrents>>
    BY <1>13, <2>2 DEF Activate
  <2> QED
    BY <2>1, <2>3, <2>4, SaveAlive
<1>14. ASSUME NEW d \in DownloadIds, UpdateStatus(d)
      PROVE  AliveInv'
  <2>1. /\ monitor.pc = "status" /\ rows[d] # None /\ rows[d].hash = monitor.hash
        /\ monitor.hash \in Hashes /\ rows[d].status # monitor.state
    BY <1>0, <1>14 DEF UpdateStatus, MonitorAt, WithHash, MonitorInv
  <2>2. rows[d] \in DownloadRow /\ monitor.state \in DownloadStatuses
    BY <1>0, <2>1 DEF TypeOK, MonitorKnows, TorrentStates, DownloadStatuses
  <2>3. Alive(d)
    BY <1>0, <2>1 DEF MonitorInv, NoDeadHas, Alive, Dead, HasStatus
  <2>4. PICK row : row = [rows[d] EXCEPT !.status = monitor.state]
    OBVIOUS
  <2>5. row.status = monitor.state /\ row.hash = monitor.hash
    BY <2>1, <2>2, <2>4, RowFields
  <2>6. monitor.state = "failed" => Spent(monitor.hash)
    BY <1>0, <2>1 DEF MonitorInv
  <2> DEFINE state == [monitor EXCEPT !.pc = "save", !.id = d, !.row = row]
  <2>7. /\ state.pc = "save" /\ state.id = d /\ state.row = row
        /\ MonitorStep(state) /\ UNCHANGED <<ledger, rows, torrents>>
    BY <1>0, <1>14, <2>4 DEF UpdateStatus, MonitorState
  <2> HIDE DEF state, Alive, Spent
  <2>8. MonitorInv(state)
    BY <2>1, <2>3, <2>5, <2>6, <2>7 DEF MonitorInv
  <2> QED
    BY <2>7, <2>8, LookAlive
<1>15. ASSUME NEW d \in DownloadIds, ReconcileMissing(d)
      PROVE  AliveInv'
  <2>1. /\ monitor.pc = "reconcile" /\ rows[d] # None /\ rows[d].hash = monitor.hash
        /\ monitor.hash \in Hashes /\ ~InAutoRss(monitor.hash) /\ Alive(d)
    BY <1>0, <1>15 DEF ReconcileMissing, MonitorAt, WithHash, MonitorInv, Running, HasStatus,
                       Alive, Dead
  <2>2. rows[d] \in DownloadRow
    BY <1>0, <2>1 DEF TypeOK
  <2>3. PICK row : row = [rows[d] EXCEPT !.status = "failed"]
    OBVIOUS
  <2>4. row.hash = monitor.hash
    BY <2>1, <2>2, <2>3, RowFields DEF DownloadStatuses
  <2>5. Spent(monitor.hash)
    BY <2>1 DEF Spent
  <2> DEFINE state == [monitor EXCEPT !.pc = "save", !.id = d, !.row = row]
  <2>6. /\ state.pc = "save" /\ state.id = d /\ state.row = row
        /\ MonitorStep(state) /\ UNCHANGED <<ledger, rows, torrents>>
    BY <1>0, <1>15, <2>3 DEF ReconcileMissing, MonitorState
  <2> HIDE DEF state, Alive, Spent
  <2>7. MonitorInv(state)
    BY <2>1, <2>4, <2>5, <2>6 DEF MonitorInv
  <2> QED
    BY <2>6, <2>7, LookAlive
<1>16. CASE SaveStatus
  <2>1. monitor.id \in DownloadIds /\ monitor.row \in DownloadRow /\ Alive(monitor.id)
    BY <1>0, <1>1, <1>16 DEF SaveStatus, MonitorAt
  <2>2. monitor.row.status = "failed" => Spent(monitor.row.hash)
    BY <1>0, <1>16 DEF SaveStatus, MonitorAt, MonitorInv
  <2>3. /\ MonitorStep(MonitorIdle) /\ UNCHANGED torrents
        /\ \/ monitor.row.status = "failed" /\ PersistFailure(monitor.id, monitor.row)
           \/ /\ monitor.row.status # "failed"
              /\ rows' = Saved(monitor.id, monitor.row) /\ UNCHANGED ledger
    BY <1>16 DEF SaveStatus
  <2> QED
    BY <2>1, <2>2, <2>3, SaveAlive
<1>17. CASE MonitorWorks
  BY <1>2, <1>3, <1>4, <1>5, <1>6, <1>7, <1>8, <1>9, <1>10, <1>11, <1>12, <1>13, <1>14, <1>15,
     <1>16, <1>17
  DEF MonitorWorks, StartCompletion, StatusUnchanged, NothingToReconcile
<1>18. CASE MonitorSkips
  BY <1>2, <1>18 DEF MonitorSkips
<1> QED
  BY <1>17, <1>18

LEMMA CrashAlive == ASSUME AliveInv, Crash PROVE AliveInv'
<1>1. /\ UNCHANGED <<ledger, rows, origin, torrents>>
      /\ monitor'.pc = "idle" /\ user'.pc = "idle"
  BY DEF Crash, database, MonitorIdle, UserIdle
<1>2. RowsInv' /\ DeadStay'
  BY <1>1, SameRows, SameTorrents, DeadStays DEF AliveInv
<1>3. MonitorInv(monitor)'
  BY <1>1 DEF MonitorInv
<1> QED
  BY <1>1, <1>2, <1>3 DEF AliveInv, NoDeletion

LEMMA InitAlive == Init => AliveInv
<1> SUFFICES ASSUME Init PROVE AliveInv
  OBVIOUS
<1>1. \A d \in DownloadIds : rows[d] = None
  BY DEF Init
<1>2. RowsInv /\ DeadStay
  BY <1>1 DEF Init, RowsInv, AliveBacked, OneAlive, FreeEpisodes, HashesUnique, DeadStay, Alive,
              Dead, HasStatus, Cleared
<1>3. MonitorInv(monitor) /\ NoDeletion
  BY DEF Init, MonitorInv, MonitorIdle, NoDeletion, UserIdle
<1> QED
  BY <1>2, <1>3 DEF AliveInv

LEMMA StepAlive == ASSUME Undisturbed, IInv, AliveInv, [Next]_vars PROVE AliveInv'
<1>1. CASE Next
  BY <1>1, CollectAlive, TurnsAlive, LooksAlive, TorrentAlive, MonitorAlive, CompletionAlive,
     UserAlive, CrashAlive DEF Next
<1>2. CASE UNCHANGED vars
  <2>1. /\ UNCHANGED <<ledger, rows, origin, torrents, monitor, user>>
    BY <1>2 DEF vars, database
  <2>2. RowsInv' /\ RowsKept /\ DeadKept
    BY <2>1, SameRows DEF AliveInv
  <2> QED
    BY <2>1, <2>2, SameTorrents, OthersAlive DEF AliveInv, NoDeletion
<1> QED
  BY <1>1, <1>2

(* Collectors that run at the same time, retries of the monitor and of the  *)
(* user, crashes, refused writes and calls, torrents that fail or vanish:   *)
(* none of them leaves two unfinished downloads for one episode.            *)
THEOREM OneDownloadAtATime == ASSUME Undisturbed PROVE Spec => []OneDownloadPerEpisode
<1>1. Init => AliveInv
  BY InitAlive
<1>2. IInv /\ AliveInv /\ [Next]_vars => AliveInv'
  BY StepAlive
<1>3. AliveInv => OneDownloadPerEpisode
  BY DEF AliveInv, RowsInv, OneAlive, Alive, Dead, HasStatus, OneDownloadPerEpisode, Unfinished
<1> QED
  BY <1>1, <1>2, <1>3, Invariant, PTL DEF Spec
=============================================================================
