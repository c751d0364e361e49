---------------------------- MODULE FeedCollector ----------------------------
(***************************************************************************)
(* The collectors: the periodic check of the feeds and the collection a    *)
(* user asks for, scheduler.processFetchedFeedItemsWithSummary, which may  *)
(* run at the same time for the same subscription.  Per RSS item they      *)
(* claim the episode in one transaction and create its download in the     *)
(* next.                                                                   *)
(***************************************************************************)
EXTENDS DownloadTables

CollectorStep(c, state) ==
  /\ collector' = [collector EXCEPT ![c] = state]
  /\ UNCHANGED <<torrents, monitor, job, user>>

CollectorAt(c, pc) == collector[c].pc = pc

CollectorGoes(c, pc) == CollectorStep(c, [collector[c] EXCEPT !.pc = pc])

(* sameResource: by hash when both are known, else by URL.                 *)
SameResource(entry, r) ==
  IF entry.hash # None /\ FeedHash[r] # None
  THEN entry.hash = FeedHash[r] ELSE entry.url = r

(* Mutated: an episode that is downloading is claimed again.               *)
ClaimableUntilOwned(entry) == entry.status \in {"absent", "missing", "downloading"}

Claimable(entry) == entry.status \in {"absent", "missing"}

(* EvaluateRSSItem: ClaimForDownload decides the race for a missing        *)
(* episode; an owned one gets a candidate if the resource is another one.  *)
EvaluateMissing(c, r) ==
  /\ CollectorAt(c, "idle")
  /\ Claimable(ledger[EpisodeOf[r]])
  /\ ledger' = [ledger EXCEPT ![EpisodeOf[r]] = Claimed(None, FeedHash[r], r)]
  /\ CollectorStep(c, [CollectorIdle EXCEPT !.pc = "claimed", !.item = r])
  /\ UNCHANGED <<candidates, rows, origin>>

EvaluateOwned(c, r) ==
  /\ CollectorAt(c, "idle")
  /\ ledger[EpisodeOf[r]].status \in {"downloading", "downloaded", "marked_downloaded"}
  /\ ~SameResource(ledger[EpisodeOf[r]], r)
  /\ <<EpisodeOf[r], r>> \notin candidates
  /\ candidates' = candidates \cup {<<EpisodeOf[r], r>>}
  /\ CollectorStep(c, CollectorIdle)
  /\ UNCHANGED <<ledger, rows, origin>>

(* An item below the configured size is dropped once it is claimed.        *)
SkipSmall(c) ==
  /\ CollectorAt(c, "claimed")
  /\ CollectorGoes(c, "release")
  /\ UNCHANGED database

(* The transaction that creates the row and attaches it to the claim.      *)
NewRow(r) ==
  [status |-> "pending", hash |-> FeedHash[r], retries |-> 0, permanent |-> FALSE]

MayCreate(r) ==
  /\ ledger[EpisodeOf[r]].status = "downloading"
  /\ ledger[EpisodeOf[r]].active = None
  /\ \A d \in DownloadIds : rows[d] # None => rows[d].hash # FeedHash[r]

CreateDownload(c, d) ==
  LET r == collector[c].item IN
  /\ CollectorAt(c, "claimed")
  /\ origin[d] = None
  /\ MayCreate(r)
  /\ rows' = [rows EXCEPT ![d] = NewRow(r)]
  /\ origin' = [origin EXCEPT ![d] = r]
  /\ ledger' = [ledger EXCEPT ![EpisodeOf[r]].active = d]
  /\ CollectorStep(c, CollectorIdle)
  /\ UNCHANGED candidates

CreateFails(c) ==
  /\ CollectorAt(c, "claimed")
  /\ "db" \in Faults \/ ~MayCreate(collector[c].item)
  /\ CollectorGoes(c, "recover")
  /\ UNCHANGED database

(* recoverFailedDownload: the torrent may belong to a failed download of   *)
(* the same episode, which is then used again.                             *)
Recoverable(c, d) ==
  LET r == collector[c].item IN
  /\ FeedHash[r] # None
  /\ rows[d] # None
  /\ rows[d].hash = FeedHash[r]
  /\ CompletionEpisodeOf[origin[d]] = CompletionEpisodeOf[r]
  /\ rows[d].status = "failed"

RecoverLookup(c) ==
  /\ CollectorAt(c, "recover")
  /\ \/ \E d \in DownloadIds :
          /\ Recoverable(c, d)
          /\ CollectorStep(c, [collector[c] EXCEPT !.pc = "handOver",
                                                   !.id = d, !.row = rows[d]])
     \/ /\ \A d \in DownloadIds : ~Recoverable(c, d)
        /\ CollectorGoes(c, "release")
  /\ UNCHANGED database

(* ReleaseDownloadClaim: only a claim of this very resource, unattached.   *)
ClaimIsOf(r) ==
  LET entry == ledger[EpisodeOf[r]] IN
  /\ entry.status = "downloading" /\ entry.active = None
  /\ IF FeedHash[r] # None THEN entry.hash = FeedHash[r]
     ELSE entry.hash = None /\ entry.url = r

ReleaseClaim(r) ==
  /\ ledger' = IF ClaimIsOf(r)
               THEN [ledger EXCEPT ![EpisodeOf[r]] = Cleared("missing")]
               ELSE ledger
  /\ UNCHANGED <<candidates, rows, origin>>

RecoverRelease(c) ==
  /\ CollectorAt(c, "handOver")
  /\ ReleaseClaim(collector[c].item)
  /\ CollectorGoes(c, "requeue")

RecoverRequeue(c) ==
  /\ CollectorAt(c, "requeue")
  /\ Requeue(collector[c].id, collector[c].row)
  /\ CollectorStep(c, CollectorIdle)

RecoverRequeueFails(c) ==
  /\ CollectorAt(c, "requeue")
  /\ "db" \in Faults \/ ~MayRequeue(collector[c].id, collector[c].row)
  /\ CollectorGoes(c, "release")
  /\ UNCHANGED database

(* Mutated: the collector leaves its claim behind.                         *)
GiveUpKeeping(c) ==
  /\ CollectorAt(c, "release")
  /\ CollectorStep(c, CollectorIdle)
  /\ UNCHANGED database

GiveUp(c) ==
  /\ CollectorAt(c, "release")
  /\ ReleaseClaim(collector[c].item)
  /\ CollectorStep(c, CollectorIdle)

(* A refused read or release: the claim of a collector that gives up stays.*)
CollectorRefused(c) ==
  /\ "db" \in Faults
  /\ \/ /\ CollectorAt(c, "recover") \/ CollectorAt(c, "handOver")
        /\ CollectorGoes(c, "release")
     \/ CollectorAt(c, "release") /\ CollectorStep(c, CollectorIdle)
  /\ UNCHANGED database

Collect(c) ==
  \/ \E r \in Resources : EvaluateMissing(c, r) \/ EvaluateOwned(c, r)
  \/ \E d \in DownloadIds : CreateDownload(c, d)
  \/ SkipSmall(c) \/ CreateFails(c) \/ RecoverLookup(c) \/ RecoverRelease(c)
  \/ RecoverRequeue(c) \/ RecoverRequeueFails(c) \/ GiveUp(c)
  \/ CollectorRefused(c)

=============================================================================
