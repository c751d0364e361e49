---------------------------- MODULE EpisodeLedger ----------------------------
(***************************************************************************)
(* The promise of the episode ledger (table subscription_episodes): what   *)
(* may happen to the row of one relative episode of one subscription, no   *)
(* matter which of the program's actors asks for it.                       *)
(*                                                                         *)
(* Every action is one repository call, that is one SQLite transaction; a  *)
(* row that does not exist yet has the status "absent".  The detailed      *)
(* specification of who calls what, and when, is DownloadLifecycle, which  *)
(* implements this one.                                                    *)
(***************************************************************************)
EXTENDS FiniteSets

CONSTANTS
  Episodes,      \* relative episodes of the subscription
  DownloadIds,   \* primary keys of the downloads table
  None           \* SQL NULL

ASSUME NoneIsNoDownload == None \notin DownloadIds

VARIABLE ledger  \* [Episodes -> [status, active]]

(* The statuses a user may choose for an episode.                          *)
UserStatuses == {"missing", "marked_downloaded", "ignored"}

(* Owned episodes count as progress and are never fetched automatically.   *)
OwnedStatuses == {"downloaded", "marked_downloaded", "ignored"}

Statuses == {"absent", "downloading"} \cup UserStatuses \cup OwnedStatuses

Row(status, active) == [status |-> status, active |-> active]

Unclaimed(e) == ledger[e].status \in {"absent", "missing"}

TypeOK ==
  ledger \in [Episodes -> [status : Statuses, active : DownloadIds \cup {None}]]

Init == ledger = [e \in Episodes |-> Row("absent", None)]

-----------------------------------------------------------------------------
(* An RSS item mentions an episode the ledger does not know.               *)
Observe(e) ==
  /\ ledger[e].status = "absent"
  /\ ledger' = [ledger EXCEPT ![e] = Row("missing", None)]

(* A collector reserves a missing episode before it creates a download.    *)
Claim(e) ==
  /\ Unclaimed(e)
  /\ ledger' = [ledger EXCEPT ![e] = Row("downloading", None)]

(* The download created for the claim becomes the owner of the episode.    *)
Attach(e, d) ==
  /\ ledger[e] = Row("downloading", None)
  /\ ledger' = [ledger EXCEPT ![e].active = d]

(* The collector gives a claim back that never got its download.           *)
Release(e) ==
  /\ ledger[e] = Row("downloading", None)
  /\ ledger' = [ledger EXCEPT ![e] = Row("missing", None)]

(* A download that exists already takes over a missing episode.            *)
Requeue(e, d) ==
  /\ ledger[e] = Row("missing", None)
  /\ ledger' = [ledger EXCEPT ![e] = Row("downloading", d)]

(* Mutated: the status of the downloads table is written to the ledger.    *)
CompleteAsDownload(e, d) ==
  /\ ledger[e] = Row("downloading", d)
  /\ ledger' = [ledger EXCEPT ![e] = Row("completed", d)]

(* Only the download that owns the episode can complete it ...             *)
Complete(e, d) ==
  /\ ledger[e] = Row("downloading", d)
  /\ ledger' = [ledger EXCEPT ![e] = Row("downloaded", d)]

(* ... or fail it, for every episode it owns.                              *)
Fail(d) ==
  ledger' = [e \in Episodes |->
               IF ledger[e] = Row("downloading", d) THEN Row("missing", None)
               ELSE ledger[e]]

(* Mutated: a finished episode is missing again as well.                   *)
DetachedToMissing(row, ids) ==
  IF row.active \in ids THEN Row("missing", None) ELSE row

(* The rows of downloads are deleted: an unfinished episode is missing     *)
(* again, a finished one only forgets its download.                        *)
Detached(row, ids) ==
  IF row.active \notin ids THEN row
  ELSE IF row.status = "downloading" THEN Row("missing", None)
  ELSE [row EXCEPT !.active = None]

Detach(ids) == ledger' = [e \in Episodes |-> Detached(ledger[e], ids)]

(* The user decides about a batch of episodes; whatever was downloading    *)
(* them no longer owns them.                                               *)
SetUserStatus(chosen, status) ==
  ledger' = [e \in Episodes |->
               IF e \in chosen THEN Row(status, None) ELSE ledger[e]]

(* What the program does by itself, deletions of downloads included.       *)
Automatic ==
  \/ \E e \in Episodes : Observe(e) \/ Claim(e) \/ Release(e)
  \/ \E e \in Episodes, d \in DownloadIds :
       Attach(e, d) \/ Requeue(e, d) \/ Complete(e, d)
  \/ \E d \in DownloadIds : Fail(d)
  \/ \E ids \in SUBSET DownloadIds : Detach(ids)

Next ==
  \/ Automatic
  \/ \E chosen \in SUBSET Episodes, status \in UserStatuses :
       SetUserStatus(chosen, status)

Spec == Init /\ [][Next]_ledger

-----------------------------------------------------------------------------
(* An episode that is owned, or that the user has decided about, keeps its *)
(* status until the user chooses another one: no completion, failure,      *)
(* collection or deletion of downloads changes it, whatever it raced with  *)
(* (MarkDownloadedInTx, PersistDownloadFailure, ClaimForDownload,          *)
(* detachEpisodeDownloadsInTx).                                            *)
OwnedStatusStands ==
  [][Automatic =>
       \A e \in Episodes :
         ledger[e].status \in OwnedStatuses => ledger'[e].status = ledger[e].status]_ledger
=============================================================================
