-------------------------- MODULE DownloadCompletion --------------------------
(***************************************************************************)
(* The completion goroutines: completionHandler.HandleComplete renames the *)
(* files of a finished torrent, and then writes the download row it was    *)
(* started with and the episode in one transaction.                        *)
(***************************************************************************)
EXTENDS DownloadTables

JobStep(j, state) ==
  /\ job' = [job EXCEPT ![j] = state]
  /\ UNCHANGED <<candidates, origin, torrents, collector, monitor, user>>

RenameFiles(j) ==
  /\ job[j].pc = "rename"
  /\ job[j].row.hash \in Hashes /\ torrents[job[j].row.hash] # None
  /\ JobStep(j, [job[j] EXCEPT !.pc = "commit"])
  /\ UNCHANGED <<ledger, rows>>

RenameFails(j) ==
  /\ job[j].pc = "rename"
  /\ \/ "rename" \in Faults
     \/ job[j].row.hash \notin Hashes \/ torrents[job[j].row.hash] = None
  /\ JobStep(j, NoJob)
  /\ UNCHANGED <<ledger, rows>>

(* Mutated: whoever owns the episode, and whatever the user decided.       *)
CompletesAnyEpisode(d, row) == CompletionEpisodeOf[origin[d]] # None

(* MarkDownloadedInTx: the download still owns the episode, or it is the   *)
(* one that completed it before.                                           *)
CompletesEpisode(d, row) ==
  /\ CompletionEpisodeOf[origin[d]] # None
  /\ LET entry == ledger[CompletionEpisodeOf[origin[d]]] IN
       /\ entry.active = d
       /\ \/ entry.status = "downloading"
          \/ /\ entry.status = "downloaded"
             /\ IF entry.hash # None \/ row.hash # None
                THEN entry.hash = row.hash ELSE entry.url = origin[d]

MayComplete(j) ==
  /\ CompletesEpisode(job[j].id, job[j].row)
  /\ HashFree(job[j].id, job[j].row.hash)

CommitCompletion(j) ==
  LET d == job[j].id IN
  /\ job[j].pc = "commit"
  /\ MayComplete(j)
  /\ rows' = [rows EXCEPT ![d] = [job[j].row EXCEPT !.status = "completed"]]
  /\ ledger' = [ledger EXCEPT ![CompletionEpisodeOf[origin[d]]] =
                  [status |-> "downloaded", active |-> d,
                   hash |-> job[j].row.hash, url |-> origin[d]]]
  /\ JobStep(j, NoJob)

CompletionFails(j) ==
  /\ job[j].pc = "commit"
  /\ "db" \in Faults \/ ~MayComplete(j)
  /\ JobStep(j, NoJob)
  /\ UNCHANGED <<ledger, rows>>

CompletionWorks(j) ==
  RenameFiles(j) \/ RenameFails(j) \/ CommitCompletion(j) \/ CompletionFails(j)

=============================================================================
