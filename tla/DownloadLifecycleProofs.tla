----------------------- MODULE DownloadLifecycleProofs -----------------------
(* What holds of the life of downloads for every number of episodes,        *)
(* resources, collectors and completions, whatever goes wrong.              *)
EXTENDS DownloadLifecycle, TLAPS

IInv == TypeOK /\ OwnerExists /\ ActorsKnowTheirDownloads

-----------------------------------------------------------------------------
(* No write brings an owner to an episode or takes a row away.              *)
OwnersKept ==
  /\ \A d \in DownloadIds : rows[d] # None => rows'[d] # None
  /\ \A e \in Episodes, d \in DownloadIds : ledger'[e].active = d => ledger[e].active = d

LEMMA OwnerStillExists ==
  ASSUME OwnerExists, OwnersKept, UNCHANGED origin
  PROVE  OwnerExists'
BY DEF OwnerExists, OwnersKept

USE ConstantsAssumption, NoneIsNoRow
USE DEF LedgerRow, EpisodeStatuses, HashColumn

LEMMA ClearedType == ASSUME NEW status \in EpisodeStatuses
  PROVE Cleared(status) \in LedgerRow /\ Cleared(status).active = None
BY DEF Cleared

LEMMA SavedType ==
  ASSUME TypeOK, NEW d \in DownloadIds, NEW row \in DownloadRow
  PROVE  /\ Saved(d, row) \in [DownloadIds -> DownloadRow \cup {None}]
         /\ \A x \in DownloadIds : rows[x] # None => Saved(d, row)[x] # None
         /\ \A x \in DownloadIds : Saved(d, row)[x] # None => x = d \/ rows[x] # None
BY DEF TypeOK, Saved

LEMMA ReleasedType ==
  ASSUME TypeOK, NEW ids \in SUBSET DownloadIds
  PROVE  /\ ReleasedBy(ids) \in [Episodes -> LedgerRow]
         /\ \A e \in Episodes, d \in DownloadIds :
              ReleasedBy(ids)[e].active = d => ledger[e].active = d
BY ClearedType DEF TypeOK, ReleasedBy

LEMMA ResetType ==
  ASSUME NEW row \in DownloadRow PROVE Reset(row) \in DownloadRow
<1>1. ASSUME NEW r \in DownloadRow PROVE [r EXCEPT !.status = "retry_cleanup"] \in DownloadRow
  BY DEF DownloadRow, DownloadStatuses
<1>2. ASSUME NEW r \in DownloadRow PROVE [r EXCEPT !.retries = 0] \in DownloadRow
  BY DEF DownloadRow
<1>3. ASSUME NEW r \in DownloadRow PROVE [r EXCEPT !.permanent = FALSE] \in DownloadRow
  BY DEF DownloadRow
<1> QED
  BY <1>1, <1>2, <1>3 DEF Reset

LEMMA RequeueSafe ==
  ASSUME IInv, NEW d \in DownloadIds, NEW row \in DownloadRow, origin[d] # None,
         Requeue(d, row)
  PROVE  /\ ledger' \in [Episodes -> LedgerRow]
         /\ rows' \in [DownloadIds -> DownloadRow \cup {None}]
         /\ OwnerExists'
         /\ RowsHaveOrigin'
<1>1. Reset(row) \in DownloadRow
  BY ResetType
<1>2. RequeueEpisode(d) \in Episodes
  BY DEF Requeue, MayRequeue, RequeueEpisode, IInv, TypeOK
<1>3. /\ Claimed(d, row.hash, origin[d]) \in LedgerRow
      /\ Claimed(d, row.hash, origin[d]).active = d
  BY DEF Claimed, DownloadRow, IInv, TypeOK
<1>4. /\ ledger' \in [Episodes -> LedgerRow]
      /\ rows' \in [DownloadIds -> DownloadRow \cup {None}]
  BY <1>1, <1>2, <1>3 DEF Requeue, IInv, TypeOK
<1>5. OwnerExists'
  BY <1>1, <1>2, <1>3 DEF Requeue, IInv, TypeOK, OwnerExists, RequeueEpisode
<1>6. RowsHaveOrigin'
  BY DEF Requeue, IInv, TypeOK, ActorsKnowTheirDownloads, RowsHaveOrigin
<1> QED
  BY <1>4, <1>5, <1>6

-----------------------------------------------------------------------------
(* The collectors.                                                          *)

LEMMA CollectorFrame ==
  ASSUME IInv, NEW c \in Collectors, NEW state \in CollectorState,
         CollectorStep(c, state),
         CollectorKnows(state),
         ledger' \in [Episodes -> LedgerRow],
         candidates' \subseteq Episodes \X Resources,
         rows' \in [DownloadIds -> DownloadRow \cup {None}],
         origin' \in [DownloadIds -> Resources \cup {None}],
         \A d \in DownloadIds : origin[d] # None => origin'[d] # None,
         OwnerExists', RowsHaveOrigin'
  PROVE  IInv'
<1> USE DEF IInv, ActorsKnowTheirDownloads, OriginKnown
<1>1. TypeOK'
  BY DEF TypeOK, CollectorStep
<1>2. \A d \in Collectors : CollectorKnows(collector[d])'
  BY DEF TypeOK, CollectorStep, CollectorKnows, CollectorState
<1>3. MonitorKnows(monitor)' /\ UserKnows(user)'
      /\ \A j \in CompletionJobs : JobKnows(job[j])'
  BY DEF TypeOK, CollectorStep, MonitorKnows, JobKnows, UserKnows, MonitorState,
         JobState, UserState
<1> QED
  BY <1>1, <1>2, <1>3

LEMMA IdleCollector ==
  /\ CollectorIdle \in CollectorState
  /\ CollectorKnows(CollectorIdle)
BY DEF CollectorIdle, CollectorState, CollectorKnows, OriginKnown

LEMMA CollectPreserves ==
  ASSUME IInv, NEW c \in Collectors, Collect(c) PROVE IInv'
<1>0. /\ TypeOK /\ OwnerExists /\ RowsHaveOrigin /\ \A d \in Collectors : CollectorKnows(collector[d])
      /\ collector[c] \in CollectorState
  BY DEF IInv, ActorsKnowTheirDownloads, TypeOK
<1> USE <1>0
<1>1. ASSUME NEW r \in Resources, EvaluateMissing(c, r) PROVE IInv'
  <2> DEFINE state == [CollectorIdle EXCEPT !.pc = "claimed", !.item = r]
  <2>1. state \in CollectorState /\ CollectorKnows(state)
    BY DEF CollectorIdle, CollectorState, CollectorKnows, OriginKnown
  <2>2. Claimed(None, FeedHash[r], r) \in LedgerRow /\ Claimed(None, FeedHash[r], r).active = None
    BY DEF Claimed
  <2>3. ledger' \in [Episodes -> LedgerRow] /\ OwnersKept
    BY <1>1, <2>2 DEF EvaluateMissing, TypeOK, OwnersKept
  <2>4. OwnerExists' /\ RowsHaveOrigin'
    BY <1>1, <2>3, OwnerStillExists DEF EvaluateMissing, RowsHaveOrigin
  <2>5. CollectorStep(c, state) /\ UNCHANGED <<candidates, rows, origin>>
    BY <1>1 DEF EvaluateMissing
  <2> HIDE DEF state
  <2> QED
    BY <2>1, <2>3, <2>4, <2>5, CollectorFrame DEF TypeOK
<1>2. ASSUME NEW r \in Resources, EvaluateOwned(c, r) PROVE IInv'
  <2>1. OwnersKept
    BY <1>2 DEF EvaluateOwned, OwnersKept
  <2>2. OwnerExists' /\ RowsHaveOrigin'
    BY <1>2, <2>1, OwnerStillExists DEF EvaluateOwned, RowsHaveOrigin
  <2>3. candidates' \subseteq Episodes \X Resources
    BY <1>2 DEF EvaluateOwned, TypeOK
  <2> QED
    BY <1>2, <2>2, <2>3, IdleCollector, CollectorFrame DEF EvaluateOwned, TypeOK
<1>3. ASSUME NEW d \in DownloadIds, CreateDownload(c, d) PROVE IInv'
  <2> DEFINE r == collector[c].item
  <2>1. r \in Resources
    BY <1>3 DEF CreateDownload, CollectorAt, CollectorKnows, CollectorState
  <2>2. NewRow(r) \in DownloadRow
    BY <2>1 DEF NewRow, DownloadRow, DownloadStatuses
  <2>3. /\ ledger' \in [Episodes -> LedgerRow]
        /\ rows' \in [DownloadIds -> DownloadRow \cup {None}]
        /\ origin' \in [DownloadIds -> Resources \cup {None}]
    <3>1. \A h \in LedgerRow : [h EXCEPT !.active = d] \in LedgerRow
      OBVIOUS
    <3>2. EpisodeOf[r] \in Episodes
      BY <2>1
    <3>3. ledger[EpisodeOf[r]] \in LedgerRow
      BY <3>2 DEF TypeOK
    <3>4. ledger' = [ledger EXCEPT ![EpisodeOf[r]] = [ledger[EpisodeOf[r]] EXCEPT !.active = d]]
      BY <1>3 DEF CreateDownload
    <3>5. ledger' \in [Episodes -> LedgerRow]
      <4> HIDE DEF r, LedgerRow
      <4> QED
        BY <3>1, <3>2, <3>3, <3>4 DEF TypeOK
    <3>6. rows' \in [DownloadIds -> DownloadRow \cup {None}]
      BY <1>3, <2>2 DEF CreateDownload, TypeOK
    <3>7. origin' \in [DownloadIds -> Resources \cup {None}]
      BY <1>3, <2>1 DEF CreateDownload, TypeOK
    <3> QED
      BY <3>5, <3>6, <3>7
  <2>4. \A x \in DownloadIds : origin[x] # None => origin'[x] # None
    BY <1>3 DEF CreateDownload, TypeOK
  <2>5. RowsHaveOrigin'
    BY <1>3, <2>1 DEF CreateDownload, RowsHaveOrigin, TypeOK
  <2>6. \A e \in Episodes, x \in DownloadIds :
          ledger'[e].active = x => (x = d /\ e = EpisodeOf[r]) \/ (x # d /\ ledger[e].active = x)
    BY <1>3, <2>1 DEF CreateDownload, OwnerExists, RowsHaveOrigin, TypeOK
  <2>7. OwnerExists'
    BY <1>3, <2>1, <2>2, <2>6 DEF CreateDownload, OwnerExists, TypeOK
  <2> QED
    BY <1>3, <2>3, <2>4, <2>5, <2>7, IdleCollector, CollectorFrame
    DEF CreateDownload, TypeOK
<1>4. ASSUME UNCHANGED database, NEW state \in CollectorState, CollectorStep(c, state),
             CollectorKnows(state)
      PROVE  IInv'
  <2>1. OwnerExists' /\ RowsHaveOrigin'
    BY <1>4 DEF database, OwnerExists, RowsHaveOrigin
  <2> QED
    BY <1>4, <2>1, CollectorFrame DEF database, TypeOK
<1>41. ASSUME UNCHANGED database, CollectorGoes(c, "release"), collector[c].item # None
       PROVE  IInv'
  <2> DEFINE state == [collector[c] EXCEPT !.pc = "release"]
  <2>1. /\ state \in CollectorState /\ state.id = collector[c].id
        /\ state.item = collector[c].item /\ state.pc = "release"
    BY DEF CollectorState
  <2>2. CollectorStep(c, state)
    BY <1>41 DEF CollectorGoes
  <2>3. CollectorKnows(state)
    BY <1>41, <2>1 DEF CollectorKnows, OriginKnown
  <2> HIDE DEF state
  <2> QED
    BY <1>4, <1>41, <2>1, <2>2, <2>3
<1>5. CASE CreateFails(c)
  <2> DEFINE state == [collector[c] EXCEPT !.pc = "recover"]
  <2>1. /\ state \in CollectorState /\ state.id = collector[c].id
        /\ state.item # None /\ state.pc = "recover"
    BY <1>5 DEF CreateFails, CollectorAt, CollectorKnows, CollectorState
  <2>2. UNCHANGED database /\ CollectorStep(c, state)
    BY <1>5 DEF CreateFails, CollectorGoes
  <2>3. CollectorKnows(state)
    BY <2>1 DEF CollectorKnows, OriginKnown
  <2> HIDE DEF state
  <2> QED
    BY <1>4, <2>1, <2>2, <2>3
<1>6. CASE RecoverLookup(c)
  <2>1. collector[c].item # None /\ OriginKnown(collector[c].id)
    BY <1>6 DEF RecoverLookup, CollectorAt, CollectorKnows
  <2>2. ASSUME NEW d \in DownloadIds, Recoverable(c, d),
               CollectorStep(c, [collector[c] EXCEPT !.pc = "handOver", !.id = d, !.row = rows[d]])
        PROVE  IInv'
    <3> DEFINE state == [collector[c] EXCEPT !.pc = "handOver", !.id = d, !.row = rows[d]]
    <3>1. /\ state \in CollectorState /\ state.id = d /\ state.row = rows[d]
          /\ state.item = collector[c].item
      BY <2>2 DEF CollectorState, TypeOK
    <3>2. rows[d] # None /\ origin[d] # None
      BY <2>2 DEF Recoverable, RowsHaveOrigin
    <3>3. CollectorKnows(state)
      BY <2>1, <3>1, <3>2 DEF CollectorKnows, OriginKnown
    <3>4. UNCHANGED database
      BY <1>6 DEF RecoverLookup
    <3> QED
      BY <1>4, <2>2, <3>1, <3>3, <3>4
  <2>3. CASE CollectorGoes(c, "release")
    BY <1>41, <1>6, <2>1, <2>3 DEF RecoverLookup
  <2> QED
    BY <1>6, <2>2, <2>3 DEF RecoverLookup
<1>7. ASSUME NEW r \in Resources, ReleaseClaim(r), NEW state \in CollectorState,
             CollectorStep(c, state),
             CollectorKnows(state)
      PROVE  IInv'
  <2>1. Cleared("missing") \in LedgerRow /\ Cleared("missing").active = None
    BY ClearedType
  <2>2. ledger' \in [Episodes -> LedgerRow] /\ OwnersKept
    BY <1>7, <2>1 DEF ReleaseClaim, TypeOK, OwnersKept
  <2>3. OwnerExists' /\ RowsHaveOrigin'
    BY <1>7, <2>2, OwnerStillExists DEF ReleaseClaim, RowsHaveOrigin
  <2> QED
    BY <1>7, <2>2, <2>3, CollectorFrame DEF ReleaseClaim, TypeOK
<1>8. CASE RecoverRelease(c)
  <2> DEFINE state == [collector[c] EXCEPT !.pc = "requeue"]
  <2>1. /\ state \in CollectorState /\ state.id = collector[c].id
        /\ state.row = collector[c].row
        /\ state.item = collector[c].item /\ state.pc = "requeue"
    BY DEF CollectorState
  <2>2. /\ collector[c].item \in Resources
        /\ collector[c].id # None /\ collector[c].row # None
        /\ origin[collector[c].id] # None
    BY <1>8 DEF RecoverRelease, CollectorAt, CollectorKnows, OriginKnown, CollectorState
  <2>3. CollectorKnows(state)
    BY <2>1, <2>2 DEF CollectorKnows, OriginKnown
  <2>4. ReleaseClaim(collector[c].item) /\ CollectorStep(c, state)
    BY <1>8 DEF RecoverRelease, CollectorGoes
  <2> QED
    BY <1>7, <2>1, <2>2, <2>3, <2>4
<1>9. CASE RecoverRequeue(c)
  <2>1. /\ collector[c].id \in DownloadIds /\ collector[c].row \in DownloadRow
        /\ origin[collector[c].id] # None
    BY <1>9 DEF RecoverRequeue, CollectorAt, CollectorKnows, OriginKnown, CollectorState
  <2>2. Requeue(collector[c].id, collector[c].row)
    BY <1>9 DEF RecoverRequeue
  <2>3. CollectorStep(c, CollectorIdle) /\ UNCHANGED <<candidates, origin>>
    BY <1>9 DEF RecoverRequeue, Requeue
  <2>4. /\ ledger' \in [Episodes -> LedgerRow]
        /\ rows' \in [DownloadIds -> DownloadRow \cup {None}]
        /\ OwnerExists' /\ RowsHaveOrigin'
    BY <2>1, <2>2, RequeueSafe
  <2> QED
    BY <2>3, <2>4, IdleCollector, CollectorFrame DEF TypeOK
<1>10. CASE RecoverRequeueFails(c)
  <2>1. collector[c].item # None
    BY <1>10 DEF RecoverRequeueFails, CollectorAt, CollectorKnows
  <2> QED
    BY <1>10, <1>41, <2>1 DEF RecoverRequeueFails
<1>11. CASE GiveUp(c)
  <2>1. collector[c].item \in Resources
    BY <1>11 DEF GiveUp, CollectorAt, CollectorKnows, CollectorState
  <2> QED
    BY <1>7, <1>11, <2>1, IdleCollector DEF GiveUp
<1>12. CASE SkipSmall(c)
  <2>1. collector[c].item # None
    BY <1>12 DEF SkipSmall, CollectorAt, CollectorKnows
  <2> QED
    BY <1>12, <1>41, <2>1 DEF SkipSmall
<1>13. CASE CollectorRefused(c)
  <2>1. CASE CollectorGoes(c, "release") /\ ~CollectorAt(c, "idle")
    <3>1. collector[c].item # None
      BY <2>1 DEF CollectorAt, CollectorKnows
    <3> QED
      BY <1>13, <1>41, <2>1, <3>1 DEF CollectorRefused
  <2>2. CASE CollectorStep(c, CollectorIdle)
    BY <1>4, <1>13, <2>2, IdleCollector DEF CollectorRefused
  <2> QED
    BY <1>13, <2>1, <2>2 DEF CollectorRefused, CollectorAt
<1> QED
  BY <1>1, <1>2, <1>3, <1>5, <1>6, <1>8, <1>9, <1>10, <1>11, <1>12, <1>13 DEF Collect

-----------------------------------------------------------------------------
(* The monitor.                                                             *)

(* Writing the row of a download that was created once, with or without the *)
(* release of its episode.                                                  *)
LEMMA SaveSafe ==
  ASSUME IInv, NEW d \in DownloadIds, NEW row \in DownloadRow, origin[d] # None,
         UNCHANGED origin,
         (rows' = Saved(d, row) /\ UNCHANGED ledger) \/ PersistFailure(d, row)
  PROVE  /\ ledger' \in [Episodes -> LedgerRow]
         /\ rows' \in [DownloadIds -> DownloadRow \cup {None}]
         /\ OwnerExists' /\ RowsHaveOrigin'
<1>1. TypeOK /\ OwnerExists /\ RowsHaveOrigin
  BY DEF IInv, ActorsKnowTheirDownloads
<1>2. rows' = Saved(d, row)
  BY DEF PersistFailure
<1>3. ledger' = ledger \/ ledger' = ReleasedBy({d})
  BY DEF PersistFailure
<1>4. rows' \in [DownloadIds -> DownloadRow \cup {None}]
  BY <1>1, <1>2, SavedType
<1>5. ledger' \in [Episodes -> LedgerRow]
  BY <1>1, <1>3, ReleasedType DEF TypeOK
<1>6. \A e \in Episodes, x \in DownloadIds : ledger'[e].active = x => ledger[e].active = x
  BY <1>1, <1>3, ReleasedType
<1>7. OwnersKept
  BY <1>1, <1>2, <1>6, SavedType DEF OwnersKept
<1>8. OwnerExists'
  BY <1>1, <1>7, OwnerStillExists
<1>9. RowsHaveOrigin'
  BY <1>1, <1>2, SavedType DEF RowsHaveOrigin
<1> QED
  BY <1>4, <1>5, <1>8, <1>9

(* Changing columns of rows that exist.                                     *)
LEMMA UpdateSafe ==
  ASSUME IInv, UNCHANGED <<ledger, origin>>,
         rows' \in [DownloadIds -> DownloadRow \cup {None}],
         \A d \in DownloadIds : rows[d] = None <=> rows'[d] = None
  PROVE  /\ ledger' \in [Episodes -> LedgerRow]
         /\ OwnerExists' /\ RowsHaveOrigin'
<1>1. TypeOK /\ OwnerExists /\ RowsHaveOrigin
  BY DEF IInv, ActorsKnowTheirDownloads
<1>2. OwnersKept
  BY DEF OwnersKept
<1> QED
  BY <1>1, <1>2, OwnerStillExists DEF TypeOK, RowsHaveOrigin

LEMMA RowUpdateType ==
  ASSUME NEW row \in DownloadRow
  PROVE  /\ \A status \in DownloadStatuses : [row EXCEPT !.status = status] \in DownloadRow
         /\ \A hash \in HashColumn : [row EXCEPT !.hash = hash] \in DownloadRow
         /\ \A permanent \in BOOLEAN : [row EXCEPT !.permanent = permanent] \in DownloadRow
BY DEF DownloadRow

LEMMA MonitorFrame ==
  ASSUME IInv, NEW state \in MonitorState, MonitorStep(state), MonitorKnows(state),
         ledger' \in [Episodes -> LedgerRow],
         rows' \in [DownloadIds -> DownloadRow \cup {None}],
         torrents' \in [Hashes -> Torrent \cup {None}],
         job' \in [CompletionJobs -> JobState],
         \A j \in CompletionJobs : JobKnows(job'[j]),
         OwnerExists', RowsHaveOrigin'
  PROVE  IInv'
<1> USE DEF IInv, ActorsKnowTheirDownloads, OriginKnown
<1>1. TypeOK'
  BY DEF TypeOK, MonitorStep
<1>2. MonitorKnows(monitor)' /\ UserKnows(user)'
      /\ \A j \in CompletionJobs : JobKnows(job[j])'
  BY DEF TypeOK, MonitorStep, MonitorKnows, JobKnows, UserKnows, MonitorState,
         JobState, UserState
<1>3. \A c \in Collectors : CollectorKnows(collector[c])'
  BY DEF TypeOK, MonitorStep, CollectorKnows, CollectorState
<1> QED
  BY <1>1, <1>2, <1>3

(* A step of the monitor that only looks.                                   *)
LEMMA MonitorLooksSafe ==
  ASSUME IInv, NEW state \in MonitorState, MonitorStep(state), MonitorKnows(state),
         UNCHANGED <<ledger, rows, job>>, torrents' \in [Hashes -> Torrent \cup {None}]
  PROVE  IInv'
<1>1. /\ TypeOK /\ OwnerExists /\ RowsHaveOrigin
      /\ \A j \in CompletionJobs : JobKnows(job[j])
  BY DEF IInv, ActorsKnowTheirDownloads
<1>2. UNCHANGED origin
  BY DEF MonitorStep
<1>3. OwnerExists' /\ RowsHaveOrigin'
  BY <1>1, <1>2 DEF OwnerExists, RowsHaveOrigin
<1>4. /\ ledger' \in [Episodes -> LedgerRow]
      /\ rows' \in [DownloadIds -> DownloadRow \cup {None}]
      /\ job' \in [CompletionJobs -> JobState]
      /\ \A j \in CompletionJobs : JobKnows(job'[j])
  BY <1>1 DEF TypeOK
<1> QED
  BY <1>3, <1>4, MonitorFrame

LEMMA IdleMonitor == MonitorIdle \in MonitorState /\ MonitorKnows(MonitorIdle)
BY DEF MonitorIdle, MonitorState, MonitorKnows, OriginKnown

(* The monitor has written and turns to the next row.                       *)
LEMMA MonitorDone ==
  ASSUME IInv, MonitorStep(MonitorIdle), UNCHANGED job,
         ledger' \in [Episodes -> LedgerRow],
         rows' \in [DownloadIds -> DownloadRow \cup {None}],
         torrents' \in [Hashes -> Torrent \cup {None}],
         OwnerExists', RowsHaveOrigin'
  PROVE  IInv'
<1>1. /\ job' \in [CompletionJobs -> JobState]
      /\ \A j \in CompletionJobs : JobKnows(job'[j])
  BY DEF IInv, TypeOK, ActorsKnowTheirDownloads
<1> QED
  BY <1>1, IdleMonitor, MonitorFrame

LEMMA TurnSafe ==
  ASSUME IInv, NEW d \in DownloadIds, rows[d] # None,
         NEW pc \in {"retry", "pending"},
         pc = "retry" => rows[d].retries < RetryCap
  PROVE  Turn(pc, d) \in MonitorState /\ MonitorKnows(Turn(pc, d))
<1>1. TypeOK /\ RowsHaveOrigin
  BY DEF IInv, ActorsKnowTheirDownloads
<1>2. /\ Turn(pc, d) \in MonitorState
      /\ Turn(pc, d).pc = pc /\ Turn(pc, d).id = d /\ Turn(pc, d).row = rows[d]
  BY <1>1 DEF Turn, MonitorIdle, MonitorState, TypeOK, HashColumn
<1> QED
  BY <1>1, <1>2 DEF MonitorKnows, OriginKnown, RowsHaveOrigin

LEMMA TurnsPreserve ==
  ASSUME IInv, NEW d \in DownloadIds, MonitorTurns(d) PROVE IInv'
<1>0. TypeOK /\ OwnerExists /\ RowsHaveOrigin
  BY DEF IInv, ActorsKnowTheirDownloads
<1>1. CASE RetryVisit(d)
  <2>1. rows[d] # None /\ rows[d] \in DownloadRow
    BY <1>0, <1>1 DEF RetryVisit, HasStatus, TypeOK
  <2>2. rows[d].retries < RetryCap
    BY <1>1, <2>1 DEF RetryVisit, Exhausted, DownloadRow
  <2>3. Turn("retry", d) \in MonitorState /\ MonitorKnows(Turn("retry", d))
    BY <2>1, <2>2, TurnSafe
  <2>4. /\ MonitorStep(Turn("retry", d))
        /\ UNCHANGED <<ledger, rows, job>> /\ torrents' \in [Hashes -> Torrent \cup {None}]
    BY <1>0, <1>1 DEF RetryVisit, TypeOK
  <2> QED
    BY <2>3, <2>4, MonitorLooksSafe
<1>2. CASE PendingVisit(d)
  <2>1. rows[d] # None
    BY <1>2 DEF PendingVisit, HasStatus
  <2>2. Turn("pending", d) \in MonitorState /\ MonitorKnows(Turn("pending", d))
    BY <2>1, TurnSafe
  <2>3. /\ MonitorStep(Turn("pending", d))
        /\ UNCHANGED <<ledger, rows, job>> /\ torrents' \in [Hashes -> Torrent \cup {None}]
    BY <1>0, <1>2 DEF PendingVisit, TypeOK
  <2> QED
    BY <2>2, <2>3, MonitorLooksSafe
<1>3. CASE RecoverCleanupLease(d) \/ ClaimCleanup(d)
  <2> DEFINE status == IF RecoverCleanupLease(d) THEN "retry_cleanup"
                       ELSE "retry_cleanup_processing"
             updated == [rows[d] EXCEPT !.status = status]
  <2>1. rows[d] # None /\ rows[d] \in DownloadRow
    BY <1>0, <1>3 DEF RecoverCleanupLease, ClaimCleanup, HasStatus, TypeOK
  <2>2. updated \in DownloadRow
    BY <2>1, RowUpdateType DEF DownloadStatuses
  <2>3. rows' = [rows EXCEPT ![d] = updated] /\ UNCHANGED <<ledger, torrents, job>>
    BY <1>3 DEF RecoverCleanupLease, ClaimCleanup
  <2>4. UNCHANGED origin
    BY <1>3 DEF RecoverCleanupLease, ClaimCleanup, MonitorStep
  <2> HIDE DEF updated
  <2>5. /\ rows' \in [DownloadIds -> DownloadRow \cup {None}]
        /\ \A x \in DownloadIds : rows[x] = None <=> rows'[x] = None
    BY <1>0, <2>1, <2>2, <2>3 DEF TypeOK
  <2>6. /\ ledger' \in [Episodes -> LedgerRow]
        /\ OwnerExists' /\ RowsHaveOrigin'
    BY <2>3, <2>4, <2>5, UpdateSafe
  <2>7. torrents' \in [Hashes -> Torrent \cup {None}]
    BY <1>0, <2>3 DEF TypeOK
  <2>8. CASE RecoverCleanupLease(d)
    BY <2>3, <2>5, <2>6, <2>7, <2>8, MonitorDone DEF RecoverCleanupLease
  <2>9. CASE ClaimCleanup(d)
    <3> DEFINE state == [MonitorIdle EXCEPT !.pc = "cleanup", !.id = d, !.hash = rows[d].hash]
    <3>1. /\ state \in MonitorState /\ state.pc = "cleanup" /\ state.id = d
      BY <2>1 DEF MonitorIdle, MonitorState, DownloadRow
    <3>2. MonitorKnows(state)
      BY <1>0, <2>1, <3>1 DEF MonitorKnows, OriginKnown, RowsHaveOrigin
    <3>3. MonitorStep(state)
      BY <2>9 DEF ClaimCleanup
    <3>4. /\ job' \in [CompletionJobs -> JobState]
          /\ \A j \in CompletionJobs : JobKnows(job'[j])
      BY <2>3 DEF IInv, TypeOK, ActorsKnowTheirDownloads
    <3> HIDE DEF state
    <3> QED
      BY <2>5, <2>6, <2>7, <3>1, <3>2, <3>3, <3>4, MonitorFrame
  <2> QED
    BY <1>3, <2>8, <2>9
<1> QED
  BY <1>1, <1>2, <1>3 DEF MonitorTurns

LEMMA LooksPreserve ==
  ASSUME IInv, NEW h \in Hashes, MonitorLooks(h) PROVE IInv'
<1>0. TypeOK
  BY DEF IInv
<1>1. CASE StatusVisit(h)
  <2> DEFINE state == [MonitorIdle EXCEPT !.pc = "status", !.hash = h, !.state = torrents[h].state]
  <2>1. torrents[h] \in Torrent
    BY <1>0, <1>1 DEF StatusVisit, InAutoRss, TypeOK
  <2>2. torrents[h].state \in TorrentStates
    BY <2>1 DEF Torrent
  <2>3. state \in MonitorState /\ state.pc = "status" /\ state.id = None
        /\ state.state \in TorrentStates
    BY <2>2 DEF MonitorIdle, MonitorState
  <2>4. MonitorKnows(state)
    BY <2>3 DEF MonitorKnows, OriginKnown
  <2>5. /\ MonitorStep(state)
        /\ UNCHANGED <<ledger, rows, job>> /\ torrents' \in [Hashes -> Torrent \cup {None}]
    BY <1>0, <1>1 DEF StatusVisit, TypeOK
  <2> HIDE DEF state
  <2> QED
    BY <2>3, <2>4, <2>5, MonitorLooksSafe
<1>2. CASE ReconcileVisit(h)
  <2> DEFINE state == [MonitorIdle EXCEPT !.pc = "reconcile", !.hash = h]
  <2>1. state \in MonitorState /\ state.pc = "reconcile" /\ state.id = None
    BY DEF MonitorIdle, MonitorState
  <2>2. MonitorKnows(state)
    BY <2>1 DEF MonitorKnows, OriginKnown
  <2>3. /\ MonitorStep(state)
        /\ UNCHANGED <<ledger, rows, job>> /\ torrents' \in [Hashes -> Torrent \cup {None}]
    BY <1>0, <1>2 DEF ReconcileVisit, TypeOK
  <2> HIDE DEF state
  <2> QED
    BY <2>1, <2>2, <2>3, MonitorLooksSafe
<1> QED
  BY <1>1, <1>2 DEF MonitorLooks

(* A write of the row the monitor has read, and the end of its turn.        *)
LEMMA MonitorSaves ==
  ASSUME IInv, NEW row \in DownloadRow, monitor.id # None,
         (rows' = Saved(monitor.id, row) /\ UNCHANGED ledger)
           \/ PersistFailure(monitor.id, row),
         MonitorStep(MonitorIdle), UNCHANGED <<torrents, job>>
  PROVE  IInv'
<1>1. monitor.id \in DownloadIds /\ origin[monitor.id] # None
  BY DEF IInv, TypeOK, ActorsKnowTheirDownloads, MonitorKnows, OriginKnown, MonitorState
<1>2. UNCHANGED origin
  BY DEF MonitorStep
<1>3. /\ ledger' \in [Episodes -> LedgerRow]
      /\ rows' \in [DownloadIds -> DownloadRow \cup {None}]
      /\ OwnerExists' /\ RowsHaveOrigin'
  BY <1>1, <1>2, SaveSafe
<1>4. torrents' \in [Hashes -> Torrent \cup {None}]
  BY DEF IInv, TypeOK
<1> QED
  BY <1>3, <1>4, MonitorDone

LEMMA CleanupWritesSafe ==
  ASSUME IInv, NEW status \in DownloadStatuses, NEW hash \in HashColumn,
         monitor.id # None, CleanupWrites(status, hash),
         MonitorStep(MonitorIdle), UNCHANGED <<ledger, job>>,
         torrents' \in [Hashes -> Torrent \cup {None}]
  PROVE  IInv'
<1> DEFINE d == monitor.id
           updated == [[rows[d] EXCEPT !.status = status] EXCEPT !.hash = hash]
<1>1. TypeOK /\ d \in DownloadIds
  BY DEF IInv, TypeOK, MonitorState
<1>2. UNCHANGED origin
  BY DEF MonitorStep
<1>3. rows' = rows \/ (rows[d] # None /\ rows' = [rows EXCEPT ![d] = updated])
  BY <1>1 DEF CleanupWrites, HasStatus, TypeOK
<1>4. rows[d] # None => updated \in DownloadRow
  BY <1>1, RowUpdateType DEF TypeOK
<1> HIDE DEF updated, d
<1>5. /\ rows' \in [DownloadIds -> DownloadRow \cup {None}]
      /\ \A x \in DownloadIds : rows[x] = None <=> rows'[x] = None
  BY <1>1, <1>3, <1>4 DEF TypeOK
<1>6. /\ ledger' \in [Episodes -> LedgerRow]
      /\ OwnerExists' /\ RowsHaveOrigin'
  BY <1>2, <1>5, UpdateSafe
<1> QED
  BY <1>5, <1>6, MonitorDone

(* The monitor at work on a pending download, and on retries.               *)
LEMMA PendingPreserves ==
  ASSUME IInv,
         \/ PrepareRetry \/ DeleteRetryPayload \/ DeleteRetryPayloadFails
         \/ FinalizeCleanup \/ ResumeRunning \/ AddTorrent \/ FailAdd
         \/ Checkpoint \/ Categorize \/ Activate
         \/ \E h \in Hashes : ResumeAdded(h)
  PROVE  IInv'
<1>0. TypeOK /\ monitor \in MonitorState /\ MonitorKnows(monitor)
  BY DEF IInv, TypeOK, ActorsKnowTheirDownloads
<1>1. CASE PrepareRetry
  <2>1. monitor.id # None /\ monitor.row \in DownloadRow /\ monitor.row.retries < RetryCap
    BY <1>0, <1>1 DEF PrepareRetry, MonitorAt, MonitorKnows, MonitorState
  <2>2. [monitor.row EXCEPT !.status = "pending", !.retries = @ + 1] \in DownloadRow
    <3> DEFINE tried == [monitor.row EXCEPT !.retries = @ + 1]
    <3>1. tried \in DownloadRow
      BY <2>1 DEF DownloadRow
    <3>2. [tried EXCEPT !.status = "pending"] \in DownloadRow
      <4> HIDE DEF tried
      <4> QED
        BY <3>1, RowUpdateType DEF DownloadStatuses
    <3> QED
      BY <2>1, <3>2 DEF DownloadRow
  <2> QED
    BY <1>1, <2>1, <2>2, MonitorSaves DEF PrepareRetry
<1>2. CASE DeleteRetryPayload
  <2> DEFINE state == [monitor EXCEPT !.pc = "finalize"]
  <2>1. monitor.id # None
    BY <1>0, <1>2 DEF DeleteRetryPayload, MonitorAt, MonitorKnows
  <2>2. state \in MonitorState /\ MonitorKnows(state)
    BY <1>0, <2>1 DEF MonitorState, MonitorKnows, OriginKnown
  <2>3. torrents' \in [Hashes -> Torrent \cup {None}]
    BY <1>0, <1>2 DEF DeleteRetryPayload, Without, TypeOK
  <2>4. MonitorStep(state) /\ UNCHANGED <<ledger, rows, job>>
    BY <1>2 DEF DeleteRetryPayload
  <2> HIDE DEF state
  <2> QED
    BY <2>2, <2>3, <2>4, MonitorLooksSafe
<1>3. CASE DeleteRetryPayloadFails
  <2>1. monitor.id # None /\ monitor.hash \in HashColumn
    BY <1>0, <1>3 DEF DeleteRetryPayloadFails, MonitorAt, MonitorKnows, MonitorState
  <2>2. torrents' \in [Hashes -> Torrent \cup {None}]
    BY <1>0, <1>3 DEF DeleteRetryPayloadFails, Without, TypeOK
  <2>3. "retry_cleanup" \in DownloadStatuses
    BY DEF DownloadStatuses
  <2> QED
    BY <1>3, <2>1, <2>2, <2>3, CleanupWritesSafe DEF DeleteRetryPayloadFails
<1>4. CASE FinalizeCleanup
  <2>1. monitor.id # None /\ Placeholder(monitor.id) \in HashColumn
    BY <1>0, <1>4 DEF FinalizeCleanup, MonitorAt, MonitorKnows, MonitorState, Placeholder
  <2>2. torrents' \in [Hashes -> Torrent \cup {None}]
    BY <1>0, <1>4 DEF FinalizeCleanup, TypeOK
  <2>3. "pending" \in DownloadStatuses
    BY DEF DownloadStatuses
  <2> QED
    BY <1>4, <2>1, <2>2, <2>3, CleanupWritesSafe DEF FinalizeCleanup
<1>5. CASE ResumeRunning \/ \E h \in Hashes : ResumeAdded(h)
  <2>1. monitor.id # None /\ monitor.row # None
    BY <1>0, <1>5 DEF ResumeRunning, ResumeAdded, MonitorAt, MonitorKnows
  <2>2. UNCHANGED <<ledger, rows, job>> /\ torrents' \in [Hashes -> Torrent \cup {None}]
    BY <1>0, <1>5 DEF ResumeRunning, ResumeAdded, TypeOK
  <2>3. ASSUME ResumeRunning PROVE IInv'
    <3>1. MonitorStep([monitor EXCEPT !.pc = "activate"])
      BY <2>3 DEF ResumeRunning
    <3>2. /\ [monitor EXCEPT !.pc = "activate"] \in MonitorState
          /\ MonitorKnows([monitor EXCEPT !.pc = "activate"])
      BY <1>0, <2>1 DEF MonitorState, MonitorKnows, OriginKnown
    <3> QED
      BY <2>2, <3>1, <3>2, MonitorLooksSafe
  <2>4. ASSUME NEW h \in Hashes, ResumeAdded(h) PROVE IInv'
    <3>1. MonitorStep([monitor EXCEPT !.pc = "checkpoint", !.hash = h])
      BY <2>4 DEF ResumeAdded
    <3>2. /\ [monitor EXCEPT !.pc = "checkpoint", !.hash = h] \in MonitorState
          /\ MonitorKnows([monitor EXCEPT !.pc = "checkpoint", !.hash = h])
      BY <1>0, <2>1 DEF MonitorState, MonitorKnows, OriginKnown
    <3> QED
      BY <2>2, <3>1, <3>2, MonitorLooksSafe
  <2> QED
    BY <1>5, <2>3, <2>4
<1>6. CASE AddTorrent
  <2> DEFINE h == HashOf[origin[monitor.id]]
  <2>1. /\ monitor.id \in DownloadIds /\ monitor.row # None
        /\ origin[monitor.id] # None
    BY <1>0, <1>6 DEF AddTorrent, MonitorAt, MonitorKnows, MonitorState, OriginKnown
  <2>2. h \in Hashes
    BY <1>0, <2>1 DEF TypeOK
  <2>3. Added(h) \in [Hashes -> Torrent \cup {None}]
    <3>1. torrents[h] # None => torrents[h].state \in TorrentStates
      BY <1>0, <2>2 DEF TypeOK, Torrent
    <3>2. [category |-> monitor.id,
           state |-> IF torrents[h] = None THEN "downloading" ELSE torrents[h].state] \in Torrent
      BY <2>1, <3>1 DEF Torrent, TorrentStates
    <3> HIDE DEF h
    <3> QED
      BY <1>0, <2>2, <3>2 DEF Added, TypeOK
  <2>4. torrents' \in [Hashes -> Torrent \cup {None}]
    BY <1>0, <1>6, <2>3 DEF AddTorrent, TypeOK
  <2>5. UNCHANGED <<ledger, rows, job>>
    BY <1>6 DEF AddTorrent
  <2>6. CASE MonitorStep([monitor EXCEPT !.pc = "checkpoint", !.hash = h])
    <3>1. /\ [monitor EXCEPT !.pc = "checkpoint", !.hash = h] \in MonitorState
          /\ MonitorKnows([monitor EXCEPT !.pc = "checkpoint", !.hash = h])
      <4> HIDE DEF h
      <4> QED
        BY <1>0, <2>1, <2>2 DEF MonitorState, MonitorKnows, OriginKnown
    <3> QED
      BY <2>4, <2>5, <2>6, <3>1, MonitorLooksSafe
  <2>7. CASE MonitorStep(MonitorIdle)
    BY <2>4, <2>5, <2>7, IdleMonitor, MonitorLooksSafe
  <2>8. CASE MonitorStep([monitor EXCEPT !.pc = "addFailed"])
    <3>1. /\ [monitor EXCEPT !.pc = "addFailed"] \in MonitorState
          /\ MonitorKnows([monitor EXCEPT !.pc = "addFailed"])
      BY <1>0, <2>1 DEF MonitorState, MonitorKnows, OriginKnown
    <3> QED
      BY <2>4, <2>5, <2>8, <3>1, MonitorLooksSafe
  <2> QED
    BY <1>6, <2>6, <2>7, <2>8 DEF AddTorrent
<1>7. CASE FailAdd
  <2>1. monitor.id # None /\ monitor.row \in DownloadRow
    BY <1>0, <1>7 DEF FailAdd, MonitorAt, MonitorKnows, MonitorState
  <2>2. ASSUME NEW permanent \in BOOLEAN
        PROVE  [monitor.row EXCEPT !.status = "failed", !.permanent = permanent] \in DownloadRow
    BY <2>1, RowUpdateType DEF DownloadStatuses
  <2> QED
    BY <1>7, <2>1, <2>2, MonitorSaves DEF FailAdd
<1>8. CASE Checkpoint
  <2> DEFINE row == [monitor.row EXCEPT !.hash = monitor.hash, !.status = "pending"]
             known == monitor.row.hash = monitor.hash
             state == [monitor EXCEPT !.pc = "categorize", !.row = row]
             next == IF known \/ HashFree(monitor.id, monitor.hash) THEN state ELSE MonitorIdle
  <2>1. /\ monitor.id \in DownloadIds /\ monitor.row \in DownloadRow
        /\ origin[monitor.id] # None /\ monitor.hash \in Hashes
    BY <1>0, <1>8 DEF Checkpoint, MonitorAt, MonitorKnows, MonitorState, OriginKnown
  <2>2. row \in DownloadRow
    BY <2>1, RowUpdateType DEF DownloadStatuses
  <2>3. rows' = (IF known THEN rows ELSE Saved(monitor.id, row))
        /\ MonitorStep(next) /\ UNCHANGED <<ledger, torrents, job>>
    BY <1>8 DEF Checkpoint
  <2> HIDE DEF row
  <2>4. state \in MonitorState /\ MonitorKnows(state)
    BY <1>0, <2>1, <2>2 DEF MonitorState, MonitorKnows, OriginKnown
  <2>5. next \in MonitorState /\ MonitorKnows(next)
    BY <2>4, IdleMonitor
  <2> HIDE DEF state, next, known
  <2>6. UNCHANGED origin
    BY <2>3 DEF MonitorStep
  <2>7. CASE rows' = Saved(monitor.id, row)
    <3>1. /\ ledger' \in [Episodes -> LedgerRow]
          /\ rows' \in [DownloadIds -> DownloadRow \cup {None}]
          /\ OwnerExists' /\ RowsHaveOrigin'
      BY <2>1, <2>2, <2>3, <2>6, <2>7, SaveSafe
    <3>2. /\ job' \in [CompletionJobs -> JobState]
          /\ \A j \in CompletionJobs : JobKnows(job'[j])
          /\ torrents' \in [Hashes -> Torrent \cup {None}]
      BY <2>3 DEF IInv, TypeOK, ActorsKnowTheirDownloads
    <3> QED
      BY <2>3, <2>5, <3>1, <3>2, MonitorFrame
  <2>8. CASE rows' = rows
    <3>1. torrents' \in [Hashes -> Torrent \cup {None}]
      BY <1>0, <2>3 DEF TypeOK
    <3> QED
      BY <2>3, <2>5, <2>8, <3>1, MonitorLooksSafe
  <2> QED
    BY <2>3, <2>7, <2>8
<1>9. CASE Categorize
  <2>1. monitor.id # None /\ monitor.row # None /\ monitor.hash \in Hashes
    BY <1>0, <1>9 DEF Categorize, MonitorAt, MonitorKnows
  <2>2. torrents' \in [Hashes -> Torrent \cup {None}]
    <3>1. torrents[monitor.hash] # None =>
            [torrents[monitor.hash] EXCEPT !.category = AutoRss] \in Torrent
      BY <1>0, <2>1 DEF TypeOK, Torrent
    <3>2. torrents' = torrents \/
            /\ torrents[monitor.hash] # None
            /\ torrents' = [torrents EXCEPT ![monitor.hash] =
                              [torrents[monitor.hash] EXCEPT !.category = AutoRss]]
      BY <1>9 DEF Categorize
    <3> QED
      BY <1>0, <2>1, <3>1, <3>2 DEF TypeOK
  <2>3. MonitorStep([monitor EXCEPT !.pc = "activate"]) /\ UNCHANGED <<ledger, rows, job>>
    BY <1>9 DEF Categorize
  <2>4. /\ [monitor EXCEPT !.pc = "activate"] \in MonitorState
        /\ MonitorKnows([monitor EXCEPT !.pc = "activate"])
    BY <1>0, <2>1 DEF MonitorState, MonitorKnows, OriginKnown
  <2> QED
    BY <2>2, <2>3, <2>4, MonitorLooksSafe
<1>10. CASE Activate
  <2>1. monitor.id # None /\ monitor.row \in DownloadRow
    BY <1>0, <1>10 DEF Activate, MonitorAt, MonitorKnows, MonitorState
  <2>2. [monitor.row EXCEPT !.status = "downloading"] \in DownloadRow
    BY <2>1, RowUpdateType DEF DownloadStatuses
  <2> QED
    BY <1>10, <2>1, <2>2, MonitorSaves DEF Activate
<1> QED
  BY <1>1, <1>2, <1>3, <1>4, <1>5, <1>6, <1>7, <1>8, <1>9, <1>10

(* The monitor following the state of the torrents.                         *)
LEMMA SyncPreserves ==
  ASSUME IInv,
         \/ StatusUnchanged \/ NothingToReconcile \/ SaveStatus \/ MonitorSkips
         \/ \E d \in DownloadIds :
              \/ UpdateStatus(d) \/ ReconcileMissing(d)
              \/ \E j \in CompletionJobs : StartCompletion(d, j)
  PROVE  IInv'
<1>0. /\ TypeOK /\ OwnerExists /\ RowsHaveOrigin
      /\ monitor \in MonitorState /\ MonitorKnows(monitor)
  BY DEF IInv, TypeOK, ActorsKnowTheirDownloads
<1>1. CASE StatusUnchanged \/ NothingToReconcile \/ MonitorSkips
  <2>1. MonitorStep(MonitorIdle) /\ UNCHANGED <<ledger, rows, torrents, job>>
    BY <1>1 DEF StatusUnchanged, NothingToReconcile, MonitorSkips
  <2>2. torrents' \in [Hashes -> Torrent \cup {None}]
    BY <1>0, <2>1 DEF TypeOK
  <2> QED
    BY <2>1, <2>2, IdleMonitor, MonitorLooksSafe
<1>2. CASE SaveStatus
  <2>1. monitor.id # None /\ monitor.row \in DownloadRow
    BY <1>0, <1>2 DEF SaveStatus, MonitorAt, MonitorKnows, MonitorState
  <2> QED
    BY <1>2, <2>1, MonitorSaves DEF SaveStatus
<1>3. ASSUME NEW d \in DownloadIds, UpdateStatus(d) \/ ReconcileMissing(d) PROVE IInv'
  <2> DEFINE status == IF UpdateStatus(d) THEN monitor.state ELSE "failed"
             row == [rows[d] EXCEPT !.status = status]
             state == [monitor EXCEPT !.pc = "save", !.id = d, !.row = row]
  <2>1. rows[d] # None /\ rows[d] \in DownloadRow /\ origin[d] # None
    BY <1>0, <1>3 DEF UpdateStatus, ReconcileMissing, WithHash, TypeOK, RowsHaveOrigin
  <2>2. status \in DownloadStatuses /\ status # "completed"
    BY <1>0, <1>3 DEF UpdateStatus, MonitorAt, MonitorKnows, TorrentStates, DownloadStatuses
  <2>3. row \in DownloadRow /\ row.status # "completed"
    <3> HIDE DEF status
    <3> QED
      BY <2>1, <2>2, RowUpdateType DEF DownloadRow
  <2>4. /\ MonitorStep(state) /\ UNCHANGED <<ledger, rows, job>>
        /\ torrents' \in [Hashes -> Torrent \cup {None}]
    BY <1>0, <1>3 DEF UpdateStatus, ReconcileMissing, TypeOK
  <2> HIDE DEF row
  <2>5. state \in MonitorState /\ MonitorKnows(state)
    BY <1>0, <2>1, <2>3 DEF MonitorState, MonitorKnows, OriginKnown
  <2> HIDE DEF state
  <2> QED
    BY <2>4, <2>5, MonitorLooksSafe
<1>4. ASSUME NEW d \in DownloadIds, NEW j \in CompletionJobs, StartCompletion(d, j) PROVE IInv'
  <2> DEFINE started == [pc |-> IF RenameEnabled THEN "rename" ELSE "commit",
                         id |-> d, row |-> rows[d]]
  <2>1. rows[d] # None /\ rows[d] \in DownloadRow /\ origin[d] # None
    BY <1>0, <1>4 DEF StartCompletion, WithHash, TypeOK, RowsHaveOrigin
  <2>2. started \in JobState /\ JobKnows(started)
    BY <2>1 DEF JobState, JobKnows, OriginKnown
  <2>3. job' = [job EXCEPT ![j] = started] /\ MonitorStep(MonitorIdle)
        /\ UNCHANGED <<ledger, rows, torrents>>
    BY <1>4 DEF StartCompletion
  <2> HIDE DEF started
  <2>4. /\ job' \in [CompletionJobs -> JobState]
        /\ \A k \in CompletionJobs : JobKnows(job'[k])
    BY <1>0, <2>2, <2>3 DEF IInv, TypeOK, ActorsKnowTheirDownloads
  <2>5. /\ ledger' \in [Episodes -> LedgerRow]
        /\ rows' \in [DownloadIds -> DownloadRow \cup {None}]
        /\ torrents' \in [Hashes -> Torrent \cup {None}]
        /\ OwnerExists' /\ RowsHaveOrigin'
    BY <1>0, <2>3 DEF MonitorStep, TypeOK, OwnerExists, RowsHaveOrigin
  <2> QED
    BY <2>3, <2>4, <2>5, IdleMonitor, MonitorFrame
<1> QED
  BY <1>1, <1>2, <1>3, <1>4

-----------------------------------------------------------------------------
(* The completion goroutines.                                               *)

LEMMA JobFrame ==
  ASSUME IInv, NEW j \in CompletionJobs, NEW state \in JobState, JobKnows(state),
         JobStep(j, state),
         ledger' \in [Episodes -> LedgerRow],
         rows' \in [DownloadIds -> DownloadRow \cup {None}],
         OwnerExists', RowsHaveOrigin'
  PROVE  IInv'
<1> USE DEF IInv, ActorsKnowTheirDownloads, OriginKnown
<1>1. TypeOK'
  BY DEF TypeOK, JobStep
<1>2. \A k \in CompletionJobs : JobKnows(job[k])'
  BY DEF TypeOK, JobStep, JobKnows, JobState
<1>3. MonitorKnows(monitor)' /\ UserKnows(user)'
      /\ \A c \in Collectors : CollectorKnows(collector[c])'
  BY DEF TypeOK, JobStep, MonitorKnows, UserKnows, CollectorKnows, MonitorState,
         UserState, CollectorState
<1> QED
  BY <1>1, <1>2, <1>3

LEMMA IdleJob == NoJob \in JobState /\ JobKnows(NoJob)
BY DEF NoJob, JobState, JobKnows, OriginKnown

LEMMA CompletionPreserves ==
  ASSUME IInv, NEW j \in CompletionJobs, CompletionWorks(j) PROVE IInv'
<1>0. /\ TypeOK /\ OwnerExists /\ RowsHaveOrigin
      /\ job[j] \in JobState /\ JobKnows(job[j])
  BY DEF IInv, TypeOK, ActorsKnowTheirDownloads
<1>1. ASSUME NEW state \in JobState, JobKnows(state), JobStep(j, state),
             UNCHANGED <<ledger, rows>>
      PROVE  IInv'
  <2>1. /\ ledger' \in [Episodes -> LedgerRow]
        /\ rows' \in [DownloadIds -> DownloadRow \cup {None}]
        /\ OwnerExists' /\ RowsHaveOrigin'
    BY <1>0, <1>1 DEF JobStep, TypeOK, OwnerExists, RowsHaveOrigin
  <2> QED
    BY <1>1, <2>1, JobFrame
<1>2. CASE RenameFiles(j)
  <2> DEFINE state == [job[j] EXCEPT !.pc = "commit"]
  <2>1. state \in JobState /\ JobKnows(state)
    BY <1>0, <1>2 DEF RenameFiles, JobState, JobKnows, OriginKnown
  <2>2. JobStep(j, state) /\ UNCHANGED <<ledger, rows>>
    BY <1>2 DEF RenameFiles
  <2> HIDE DEF state
  <2> QED
    BY <1>1, <2>1, <2>2
<1>3. CASE RenameFails(j) \/ CompletionFails(j)
  BY <1>1, <1>3, IdleJob DEF RenameFails, CompletionFails
<1>4. CASE CommitCompletion(j)
  <2> DEFINE d == job[j].id
             row == [job[j].row EXCEPT !.status = "completed"]
             e == CompletionEpisodeOf[origin[d]]
             entry == [status |-> "downloaded", active |-> d,
                       hash |-> job[j].row.hash, url |-> origin[d]]
  <2>1. d \in DownloadIds /\ job[j].row \in DownloadRow /\ origin[d] \in Resources
    BY <1>0, <1>4 DEF CommitCompletion, JobKnows, JobState, OriginKnown, TypeOK
  <2>2. row \in DownloadRow
    BY <2>1, RowUpdateType DEF DownloadStatuses
  <2>3. e \in Episodes /\ ledger[e].active = d
    BY <1>4, <2>1 DEF CommitCompletion, MayComplete, CompletesEpisode
  <2>4. entry \in LedgerRow /\ entry.active = d
    BY <2>1 DEF DownloadRow
  <2>5. /\ rows' = [rows EXCEPT ![d] = row] /\ ledger' = [ledger EXCEPT ![e] = entry]
        /\ JobStep(j, NoJob) /\ UNCHANGED origin
    BY <1>4 DEF CommitCompletion, JobStep
  <2> HIDE DEF d, row, e, entry
  <2>6. /\ ledger' \in [Episodes -> LedgerRow]
        /\ rows' \in [DownloadIds -> DownloadRow \cup {None}]
    BY <1>0, <2>1, <2>2, <2>3, <2>4, <2>5 DEF TypeOK
  <2>7. OwnersKept
    BY <1>0, <2>1, <2>2, <2>3, <2>4, <2>5 DEF OwnersKept, TypeOK
  <2>8. OwnerExists'
    BY <1>0, <2>5, <2>7, OwnerStillExists
  <2>9. RowsHaveOrigin'
    BY <1>0, <2>1, <2>5 DEF RowsHaveOrigin, TypeOK
  <2> QED
    BY <2>5, <2>6, <2>8, <2>9, IdleJob, JobFrame
<1> QED
  BY <1>2, <1>3, <1>4 DEF CompletionWorks

-----------------------------------------------------------------------------
(* The requests of the user.                                                *)

LEMMA UserFrame ==
  ASSUME IInv, NEW state \in UserState, UserKnows(state), UserStep(state),
         ledger' \in [Episodes -> LedgerRow],
         rows' \in [DownloadIds -> DownloadRow \cup {None}],
         torrents' \in [Hashes -> Torrent \cup {None}],
         OwnerExists', RowsHaveOrigin'
  PROVE  IInv'
<1> USE DEF IInv, ActorsKnowTheirDownloads, OriginKnown
<1>1. TypeOK'
  BY DEF TypeOK, UserStep
<1>2. /\ MonitorKnows(monitor)' /\ UserKnows(user)'
      /\ \A c \in Collectors : CollectorKnows(collector[c])'
      /\ \A j \in CompletionJobs : JobKnows(job[j])'
  BY DEF TypeOK, UserStep, MonitorKnows, UserKnows, CollectorKnows, JobKnows,
         MonitorState, UserState, CollectorState, JobState
<1> QED
  BY <1>1, <1>2

LEMMA IdleUser == UserIdle \in UserState /\ UserKnows(UserIdle)
BY DEF UserIdle, UserState, UserKnows, OriginKnown

LEMMA UserPreserves == ASSUME IInv, UserActs PROVE IInv'
<1>0. /\ TypeOK /\ OwnerExists /\ RowsHaveOrigin
      /\ user \in UserState /\ UserKnows(user)
  BY DEF IInv, TypeOK, ActorsKnowTheirDownloads
<1>1. ASSUME NEW state \in UserState, UserKnows(state), UserStep(state),
             UNCHANGED <<ledger, rows>>, torrents' \in [Hashes -> Torrent \cup {None}]
      PROVE  IInv'
  <2>1. /\ ledger' \in [Episodes -> LedgerRow]
        /\ rows' \in [DownloadIds -> DownloadRow \cup {None}]
        /\ OwnerExists' /\ RowsHaveOrigin'
    BY <1>0, <1>1 DEF UserStep, TypeOK, OwnerExists, RowsHaveOrigin
  <2> QED
    BY <1>1, <2>1, UserFrame
<1>2. ASSUME NEW chosen \in SUBSET Episodes, NEW status \in UserChoices,
             SetUserStatus(chosen, status)
      PROVE  IInv'
  <2>1. Cleared(status) \in LedgerRow /\ Cleared(status).active = None
    BY ClearedType
  <2>2. /\ ledger' = [e \in Episodes |-> IF e \in chosen THEN Cleared(status) ELSE ledger[e]]
        /\ UserStep(UserIdle) /\ UNCHANGED <<rows, torrents, origin>>
    BY <1>2 DEF SetUserStatus, UserStep
  <2>3. ledger' \in [Episodes -> LedgerRow] /\ OwnersKept
    BY <1>0, <2>1, <2>2 DEF OwnersKept, TypeOK
  <2>4. /\ OwnerExists' /\ RowsHaveOrigin'
        /\ rows' \in [DownloadIds -> DownloadRow \cup {None}]
        /\ torrents' \in [Hashes -> Torrent \cup {None}]
    BY <1>0, <2>2, <2>3, OwnerStillExists DEF RowsHaveOrigin, TypeOK
  <2> QED
    BY <2>2, <2>3, <2>4, IdleUser, UserFrame
<1>3. ASSUME NEW ids, RequestRetry(ids) PROVE IInv'
  <2> DEFINE batch == [d \in DownloadIds |-> IF d \in ids THEN rows[d] ELSE None]
             state == [UserIdle EXCEPT !.pc = "retry", !.batch = batch]
  <2>1. UserStep(state) /\ UNCHANGED <<ledger, rows, torrents>>
    BY <1>3 DEF RequestRetry
  <2>2. /\ batch \in [DownloadIds -> DownloadRow \cup {None}]
        /\ \A d \in DownloadIds : batch[d] # None => origin[d] # None
    BY <1>0 DEF TypeOK, RowsHaveOrigin
  <2> HIDE DEF batch
  <2>3. state \in UserState /\ UserKnows(state)
    BY <2>2 DEF UserIdle, UserState, UserKnows
  <2> HIDE DEF state
  <2> QED
    BY <1>0, <1>1, <2>1, <2>3 DEF TypeOK
<1>10. ASSUME NEW d \in DownloadIds
       PROVE  RetriesLeft(d) \in UserState /\ UserKnows(RetriesLeft(d))
  <2> DEFINE batch == [user.batch EXCEPT ![d] = None]
             state == [user EXCEPT !.batch = batch]
  <2>1. /\ batch \in [DownloadIds -> DownloadRow \cup {None}]
        /\ \A x \in DownloadIds : batch[x] # None => origin[x] # None
    BY <1>0 DEF UserState, UserKnows
  <2>2. RetriesLeft(d) = UserIdle \/ RetriesLeft(d) = state
    BY DEF RetriesLeft
  <2> HIDE DEF batch
  <2>3. state \in UserState /\ UserKnows(state)
    BY <1>0, <2>1 DEF UserState, UserKnows
  <2> HIDE DEF state
  <2> QED
    BY <2>2, <2>3, IdleUser
<1>4. ASSUME NEW d \in DownloadIds, RetryDownload(d) PROVE IInv'
  <2>1. user.batch[d] \in DownloadRow /\ origin[d] # None
    BY <1>0, <1>4 DEF RetryDownload, UserKnows, UserState
  <2>2. Requeue(d, user.batch[d])
    BY <1>4 DEF RetryDownload
  <2>3. UserStep(RetriesLeft(d)) /\ UNCHANGED torrents
    BY <1>4 DEF RetryDownload, UserStep, Requeue
  <2>4. /\ ledger' \in [Episodes -> LedgerRow]
        /\ rows' \in [DownloadIds -> DownloadRow \cup {None}]
        /\ OwnerExists' /\ RowsHaveOrigin'
    BY <2>1, <2>2, RequeueSafe
  <2>5. torrents' \in [Hashes -> Torrent \cup {None}]
    BY <1>0, <2>3 DEF TypeOK
  <2> QED
    BY <1>10, <2>3, <2>4, <2>5, UserFrame
<1>5. ASSUME NEW d \in DownloadIds, RetryRefused(d) PROVE IInv'
  <2>1. UserStep(RetriesLeft(d)) /\ UNCHANGED <<ledger, rows, torrents>>
    BY <1>5 DEF RetryRefused
  <2> QED
    BY <1>0, <1>1, <1>10, <2>1 DEF TypeOK
<1>6. ASSUME NEW ids \in DeleteRequests, RequestDelete(ids) PROVE IInv'
  <2> DEFINE hashes == {rows[d].hash : d \in {x \in ids : rows[x] # None}}
             state == [UserIdle EXCEPT !.pc = "deletePayload", !.ids = ids, !.hashes = hashes]
  <2>1. ids \in SUBSET DownloadIds
    OBVIOUS
  <2>2. hashes \in SUBSET HashColumn
    BY <1>0, <2>1 DEF TypeOK, DownloadRow
  <2>3. UserStep(state) /\ UNCHANGED <<ledger, rows, torrents>>
    BY <1>6 DEF RequestDelete
  <2> HIDE DEF hashes
  <2>4. state \in UserState /\ UserKnows(state)
    BY <2>1, <2>2 DEF UserIdle, UserState, UserKnows, OriginKnown
  <2> HIDE DEF state
  <2> QED
    BY <1>0, <1>1, <2>3, <2>4 DEF TypeOK
<1>7. CASE DeletePayload
  <2> DEFINE state == [user EXCEPT !.pc = "deleteRows", !.hashes = {}]
  <2>1. state \in UserState /\ UserKnows(state)
    BY <1>0 DEF UserState, UserKnows, OriginKnown
  <2>2. UserStep(state) /\ UNCHANGED <<ledger, rows>>
    BY <1>7 DEF DeletePayload
  <2>3. torrents' \in [Hashes -> Torrent \cup {None}]
    BY <1>0, <1>7 DEF DeletePayload, Without, TypeOK
  <2> HIDE DEF state
  <2> QED
    BY <1>1, <2>1, <2>2, <2>3
<1>8. CASE DeleteRows
  <2> DEFINE ids == Doomed
  <2>1. ids \subseteq DownloadIds
    BY DEF Doomed
  <2>2. /\ UserStep(UserIdle) /\ UNCHANGED torrents
        /\ ledger' = DetachedFrom(ids)
        /\ rows' = [d \in DownloadIds |-> IF d \in ids THEN None ELSE rows[d]]
    BY <1>8 DEF DeleteRows
  <2> HIDE DEF ids
  <2>3. Cleared("missing") \in LedgerRow /\ Cleared("missing").active = None
    BY ClearedType
  <2>4. \A entry \in LedgerRow : [entry EXCEPT !.active = None] \in LedgerRow
    OBVIOUS
  <2>5. \A e \in Episodes : /\ ledger'[e] \in LedgerRow
                            /\ \/ ledger'[e].active = None
                               \/ ledger'[e] = ledger[e] /\ ledger[e].active \notin ids
    <3> TAKE e \in Episodes
    <3>1. ledger[e] \in LedgerRow
      BY <1>0 DEF TypeOK
    <3>2. CASE ledger[e].active \notin ids
      BY <2>2, <3>1, <3>2 DEF DetachedFrom
    <3>3. CASE ledger[e].active \in ids
      <4>1. ledger'[e] = Cleared("missing") \/ ledger'[e] = [ledger[e] EXCEPT !.active = None]
        BY <2>2, <3>3 DEF DetachedFrom
      <4>2. ASSUME NEW entry \in LedgerRow, ledger'[e] = [entry EXCEPT !.active = None]
            PROVE  ledger'[e] \in LedgerRow /\ ledger'[e].active = None
        BY <4>2
      <4>3. CASE ledger'[e] = Cleared("missing")
        BY <2>3, <4>3
      <4>4. CASE ledger'[e] = [ledger[e] EXCEPT !.active = None]
        BY <3>1, <4>2, <4>4
      <4> QED
        BY <4>1, <4>3, <4>4
    <3> QED
      BY <3>2, <3>3
  <2>6. ledger' \in [Episodes -> LedgerRow]
    BY <2>2, <2>5 DEF DetachedFrom
  <2>7. rows' \in [DownloadIds -> DownloadRow \cup {None}]
    BY <1>0, <2>2 DEF TypeOK
  <2>8. UNCHANGED origin
    BY <2>2 DEF UserStep
  <2>9. OwnerExists'
    BY <1>0, <2>2, <2>5, <2>8 DEF OwnerExists
  <2>10. RowsHaveOrigin' /\ torrents' \in [Hashes -> Torrent \cup {None}]
    BY <1>0, <2>2, <2>8 DEF RowsHaveOrigin, TypeOK
  <2> QED
    BY <2>2, <2>6, <2>7, <2>9, <2>10, IdleUser, UserFrame
<1>9. ASSUME NEW statuses \in ClearRequests, RequestClear(statuses) PROVE IInv'
  <2>1. statuses \in SUBSET DownloadStatuses
    BY ClearsAreOfStatuses
  <2>2. PICK page \in SUBSET DownloadIds :
          /\ \A d \in page : rows[d] # None
          /\ UserStep([UserIdle EXCEPT !.pc = "deletePayload", !.statuses = statuses,
                         !.hashes = {rows[d].hash : d \in page}])
    BY <1>9 DEF RequestClear, Pages
  <2> DEFINE hashes == {rows[d].hash : d \in page}
             state == [UserIdle EXCEPT !.pc = "deletePayload", !.statuses = statuses,
                         !.hashes = hashes]
  <2>3. hashes \in SUBSET HashColumn
    BY <1>0, <2>2 DEF TypeOK, DownloadRow
  <2>4. UserStep(state) /\ UNCHANGED <<ledger, rows, torrents>>
    BY <1>9, <2>2 DEF RequestClear
  <2> HIDE DEF hashes
  <2>5. state \in UserState /\ UserKnows(state)
    BY <2>1, <2>3 DEF UserIdle, UserState, UserKnows, OriginKnown
  <2> HIDE DEF state
  <2> QED
    BY <1>0, <1>1, <2>4, <2>5 DEF TypeOK
<1> QED
  BY <1>2, <1>3, <1>4, <1>5, <1>6, <1>7, <1>8, <1>9 DEF UserActs

-----------------------------------------------------------------------------
(* qBittorrent, the process, and the whole.                                 *)

LEMMA TorrentsPreserve ==
  ASSUME IInv, NEW h \in Hashes, TorrentProgresses(h) \/ TorrentDisturbed(h)
  PROVE  IInv'
<1>1. UNCHANGED <<database, Volatile>>
  BY DEF TorrentProgresses, TorrentDisturbed, TorrentStep
<1>2. TypeOK
  BY DEF IInv
<1>3. torrents[h] # None /\ torrents[h] \in Torrent
  BY <1>2 DEF TorrentProgresses, TorrentDisturbed, TypeOK
<1>4. \A state \in TorrentStates : [torrents[h] EXCEPT !.state = state] \in Torrent
  BY <1>3 DEF Torrent
<1>5. PICK torrent \in Torrent \cup {None} : torrents' = [torrents EXCEPT ![h] = torrent]
  BY <1>4 DEF TorrentProgresses, TorrentDisturbed, TorrentStep, TorrentStates
<1>6. torrents' \in [Hashes -> Torrent \cup {None}]
  BY <1>2, <1>5 DEF TypeOK
<1> QED
  BY <1>1, <1>6 DEF IInv, TypeOK, OwnerExists, ActorsKnowTheirDownloads, RowsHaveOrigin,
     CollectorKnows, MonitorKnows, JobKnows, UserKnows, OriginKnown, database, Volatile

LEMMA CrashPreserves == ASSUME IInv, Crash PROVE IInv'
<1>1. UNCHANGED <<database, torrents>>
  BY DEF Crash
<1>2. TypeOK'
  BY <1>1, IdleCollector, IdleMonitor, IdleJob, IdleUser DEF Crash, IInv, TypeOK, database
<1>3. OwnerExists' /\ RowsHaveOrigin'
  BY <1>1 DEF database, IInv, OwnerExists, ActorsKnowTheirDownloads, RowsHaveOrigin
<1>4. /\ \A c \in Collectors : CollectorKnows(collector[c])'
      /\ MonitorKnows(monitor)'
      /\ \A j \in CompletionJobs : JobKnows(job[j])'
      /\ UserKnows(user)'
  BY DEF Crash, CollectorIdle, MonitorIdle, NoJob, UserIdle, CollectorKnows, MonitorKnows,
         JobKnows, UserKnows, OriginKnown
<1> QED
  BY <1>2, <1>3, <1>4 DEF IInv, ActorsKnowTheirDownloads

LEMMA InitSafe == Init => IInv
<1> SUFFICES ASSUME Init PROVE IInv
  OBVIOUS
<1>1. Cleared("absent") \in LedgerRow /\ Cleared("absent").active = None
  BY ClearedType
<1>2. TypeOK
  BY <1>1, IdleCollector, IdleMonitor, IdleJob, IdleUser DEF Init, TypeOK
<1>3. OwnerExists
  BY <1>1 DEF Init, OwnerExists
<1>4. ActorsKnowTheirDownloads
  BY DEF Init, ActorsKnowTheirDownloads, RowsHaveOrigin, CollectorIdle, MonitorIdle, NoJob,
         UserIdle, CollectorKnows, MonitorKnows, JobKnows, UserKnows, OriginKnown
<1> QED
  BY <1>2, <1>3, <1>4 DEF IInv

LEMMA NextSafe == IInv /\ [Next]_vars => IInv'
<1> SUFFICES ASSUME IInv, [Next]_vars PROVE IInv'
  OBVIOUS
<1>1. CASE UNCHANGED vars
  BY <1>1 DEF vars, database, IInv, TypeOK, OwnerExists, ActorsKnowTheirDownloads,
     RowsHaveOrigin, CollectorKnows, MonitorKnows, JobKnows, UserKnows, OriginKnown
<1>2. CASE \E c \in Collectors : Collect(c)
  BY <1>2, CollectPreserves
<1>3. CASE \E d \in DownloadIds : MonitorTurns(d)
  BY <1>3, TurnsPreserve
<1>4. ASSUME NEW h \in Hashes,
             MonitorLooks(h) \/ TorrentProgresses(h) \/ TorrentDisturbed(h)
      PROVE  IInv'
  BY <1>4, LooksPreserve, TorrentsPreserve
<1>5. CASE MonitorWorks \/ MonitorSkips
  BY <1>5, PendingPreserves, SyncPreserves DEF MonitorWorks
<1>6. CASE \E j \in CompletionJobs : CompletionWorks(j)
  BY <1>6, CompletionPreserves
<1>7. CASE UserActs
  BY <1>7, UserPreserves
<1>8. CASE Crash
  BY <1>8, CrashPreserves
<1> QED
  BY <1>1, <1>2, <1>3, <1>4, <1>5, <1>6, <1>7, <1>8 DEF Next

(* Every reachable state is well typed, every episode that names a download *)
(* names one that exists and is its own, and every actor holds rows of      *)
(* downloads that were created.                                             *)
THEOREM Invariant == Spec => []IInv
BY InitSafe, NextSafe, PTL DEF Spec

(* No interleaving of collectors, monitor, completions, requests and        *)
(* crashes writes an ill-typed row or retries more often than the limit.    *)
THEOREM TypeCorrect == Spec => []TypeOK
BY Invariant, PTL DEF IInv

(* An episode never points to a deleted download or to one of another       *)
(* episode.                                                                 *)
THEOREM OwnersExist == Spec => []OwnerExists
BY Invariant, PTL DEF IInv
=============================================================================
