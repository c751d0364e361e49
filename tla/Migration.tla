------------------------------ MODULE Migration ------------------------------
(***************************************************************************)
(* The migrations that fill new tables from what an earlier version left:  *)
(* the ledger of a subscription from its downloads, its feed from its      *)
(* columns, and the latest episode from both (pkg/database/migration.go).  *)
(* Each runs and is then recorded; a process that stops in between runs it *)
(* again at the next start.                                                *)
(***************************************************************************)
EXTENDS Naturals, FiniteSets

CONSTANTS OldDownloads,     \* the downloads, numbered by their last update
          MaxRaw            \* bound on the episode numbers

ASSUME MigrationAssumption ==
  /\ OldDownloads \subseteq Nat /\ IsFiniteSet(OldDownloads)
  /\ MaxRaw \in Nat \ {0}

VARIABLES old,        \* what the earlier version left; never changed
          made,       \* the ledger, the feed and the columns the migrations fill
          migration   \* the migration that is to be recorded next, and whether it has run

migrationVars == <<old, made, migration>>

Numbers == 1 .. MaxRaw
None == 0

OldStatuses == {"completed", "downloading", "failed", "cancelled"}

OldRows == [status : OldStatuses, raw : 0 .. MaxRaw, renamed : BOOLEAN]

(* A subscription is calendar-only exactly if it has no RSS URL.           *)
OldSubs == [total : 0 .. MaxRaw, offset : {0, 1}, latest : {0, MaxRaw}, bangumi : {0, MaxRaw},
            active : BOOLEAN, url : BOOLEAN]

NoRow == [status |-> "none", owner |-> None]

MigrationInit ==
  /\ old \in [downloads : [OldDownloads -> OldRows], sub : OldSubs]
  /\ made = [ledger |-> [e \in Numbers |-> NoRow], feed |-> "none", pending |-> FALSE,
             rss |-> 0, latest |-> 0]
  /\ migration = [next |-> "ledger", ran |-> FALSE]

RelativeOf(raw) == IF raw > old.sub.offset THEN raw - old.sub.offset ELSE 0
Raw(relative) == IF relative = 0 THEN 0 ELSE relative + old.sub.offset

(* Mutated: a download that is running counts for more than one completed. *)
PriorityRunning(status) ==
  CASE status = "downloading" -> 3 [] status = "completed" -> 2 [] status = "failed" -> 1 [] OTHER -> 0

Priority(status) ==
  CASE status = "completed" -> 3 [] status = "downloading" -> 2 [] status = "failed" -> 1 [] OTHER -> 0

Preferred(d, c) ==
  LET x == old.downloads[d]
      y == old.downloads[c] IN
  IF Priority(x.status) # Priority(y.status) THEN Priority(x.status) > Priority(y.status)
  ELSE IF x.renamed # y.renamed THEN x.renamed ELSE d > c

(* The downloads that are read, of an episode of the season.               *)
DownloadsOf(e) ==
  {d \in OldDownloads : /\ old.downloads[d].status # "cancelled" /\ old.downloads[d].raw > 0
                        /\ RelativeOf(old.downloads[d].raw) = e}

FromDownload(d) ==
  CASE old.downloads[d].status = "completed" -> [status |-> "downloaded", owner |-> d]
    [] old.downloads[d].status = "downloading" -> [status |-> "downloading", owner |-> d]
    [] OTHER -> [status |-> "missing", owner |-> None]

Known == IF old.sub.total > 0 THEN old.sub.total ELSE RelativeOf(old.sub.latest)

LedgerRow(e) ==
  IF made.ledger[e] # NoRow THEN made.ledger[e]
  ELSE IF DownloadsOf(e) # {}
  THEN FromDownload(CHOOSE d \in DownloadsOf(e) : \A c \in DownloadsOf(e) \ {d} : Preferred(d, c))
  ELSE IF e <= Known THEN [status |-> "missing", owner |-> None] ELSE NoRow

Runs(name) == migration.next = name /\ ~migration.ran

(* One transaction.                                                        *)
BackfillEpisodes ==
  /\ Runs("ledger")
  /\ made' = [made EXCEPT !.ledger = [e \in Numbers |-> LedgerRow(e)], !.pending = @ \/ old.sub.url]
  /\ migration' = [migration EXCEPT !.ran = TRUE]
  /\ UNCHANGED old

(* A feed that should be disabled is created as enabled: the default of    *)
(* the column replaces a false.                                            *)
BackfillFeeds ==
  /\ Runs("feeds")
  /\ made' = [made EXCEPT !.feed = IF old.sub.url THEN "enabled" ELSE @]
  /\ migration' = [migration EXCEPT !.ran = TRUE]
  /\ UNCHANGED old

HighestOf(S) == IF S = {} THEN 0 ELSE CHOOSE n \in S : \A m \in S : m <= n

(* The code also takes the episodes of the items the feeds have seen.  The *)
(* old database here has no feeds yet: the migration before makes them,    *)
(* and none is checked until all have run.  One that an earlier version    *)
(* gave its feeds may have such items.                                     *)
RssLatest(total) ==
  HighestOf({e \in Numbers : /\ made.ledger[e].status \notin {"none", "missing"}
                             /\ total > 0 => e <= total})

Combined(rss) ==
  IF old.sub.total = 0 \/ old.sub.bangumi <= old.sub.total
  THEN HighestOf({rss, old.sub.bangumi}) ELSE rss

BackfillRSSLatest ==
  /\ Runs("latest")
  /\ made' = [made EXCEPT !.rss = Raw(RssLatest(old.sub.total)),
                          !.latest = Raw(Combined(RssLatest(old.sub.total)))]
  /\ migration' = [migration EXCEPT !.ran = TRUE]
  /\ UNCHANGED old

After(name) == CASE name = "ledger" -> "feeds" [] name = "feeds" -> "latest" [] OTHER -> "done"

RecordMigration ==
  /\ migration.ran
  /\ migration' = [next |-> After(migration.next), ran |-> FALSE]
  /\ UNCHANGED <<old, made>>

(* The process stops before the migration is recorded.                     *)
MigrationStops ==
  /\ migration.ran
  /\ migration' = [migration EXCEPT !.ran = FALSE]
  /\ UNCHANGED <<old, made>>

MigrationNext ==
  BackfillEpisodes \/ BackfillFeeds \/ BackfillRSSLatest \/ RecordMigration \/ MigrationStops

MigrationSpec == MigrationInit /\ [][MigrationNext]_migrationVars

-----------------------------------------------------------------------------
Migrated == migration.next = "done"

(* After the migrations the ledger says of every episode what its          *)
(* downloads say: it is owned if one was completed, it is being downloaded *)
(* if one is running and none was completed, the owner is such a download  *)
(* of this very episode, and whatever else is known is missing.            *)
OwnedBy(e, status, downloadStatus) ==
  /\ made.ledger[e].status = status
  /\ made.ledger[e].owner \in {d \in DownloadsOf(e) : old.downloads[d].status = downloadStatus}

LedgerOfDownloads ==
  Migrated => \A e \in Numbers :
    LET has(status) == \E d \in DownloadsOf(e) : old.downloads[d].status = status IN
    /\ has("completed") => OwnedBy(e, "downloaded", "completed")
    /\ has("downloading") /\ ~has("completed") => OwnedBy(e, "downloading", "downloading")
    /\ ~has("completed") /\ ~has("downloading") => made.ledger[e].owner = None
    /\ has("failed") \/ e <= Known => made.ledger[e].status # "none"

=============================================================================
