------------------------------- MODULE Backups -------------------------------
(***************************************************************************)
(* Export of the database to a package and import of a package, by one of  *)
(* three strategies, in one transaction (service/backup/backup.go).  What  *)
(* the rest of the program does to the tables meanwhile is one action per  *)
(* table.  A group stands for a tag and an RSS source as well, and is its  *)
(* colour, the field that a merge treats in a way of its own; the          *)
(* configurations stand for the settings of the notification channels.     *)
(***************************************************************************)
EXTENDS Naturals

CONSTANTS BackupSubs, BackupUrls,
          DefaultUrl      \* the URL in the rss_url column of a subscription

ASSUME BackupAssumption == DefaultUrl \in BackupUrls

VARIABLES db,             \* the tables
          pkg             \* the package at hand

backupVars == <<db, pkg>>

Strategies == {"skip", "merge", "overwrite"}
Texts == {"", "a", "b"}                      \* contents of a field, empty or not
DefaultColor == "#18a058"                    \* of a group that got none
Colors == {"", "a", DefaultColor}
Configs == {"plain", "secret"}
Nothing == "-"                               \* there is no such row
Redacted == "redacted"

EpisodeRows == {[status |-> Nothing, owned |-> FALSE], [status |-> "missing", owned |-> FALSE],
                [status |-> "downloading", owned |-> TRUE], [status |-> "downloaded", owned |-> TRUE]}
CandidateRows == {Nothing, "available", "replacing", "accepted_cleanup_failed"}

NoSub == [there |-> FALSE, text |-> "", enabled |-> FALSE, feeds |-> [u \in BackupUrls |-> Nothing],
          episode |-> [status |-> Nothing, owned |-> FALSE], candidate |-> Nothing]

SubNamed(text, enabled) == [NoSub EXCEPT !.there = TRUE, !.text = text, !.enabled = enabled]
NewTexts == {"", "a"}

EmptyDb == [configs |-> [c \in Configs |-> Nothing], group |-> Nothing,
            subs |-> [s \in BackupSubs |-> NoSub]]

NoPackage == [format |-> "none", content |-> EmptyDb]

BackupInit == db = EmptyDb /\ pkg = NoPackage

-----------------------------------------------------------------------------
(* The rest of the program.                                                *)
ChangeSettings ==
  /\ \E c \in [Configs -> {Nothing, "a", "b"}], g \in Colors \cup {Nothing} :
       db' = [db EXCEPT !.configs = c, !.group = g]
  /\ UNCHANGED pkg

BackedUp(s, row) == db' = [db EXCEPT !.subs[s] = row] /\ UNCHANGED pkg

ChangeSubscription(s) ==
  \/ \E text \in NewTexts, enabled \in BOOLEAN :
       BackedUp(s, IF db.subs[s].there
                   THEN [db.subs[s] EXCEPT !.text = text, !.enabled = enabled]
                   ELSE SubNamed(text, enabled))
  \/ db.subs[s].there /\ BackedUp(s, NoSub)

ChangeBackedFeed(s, u) ==
  /\ db.subs[s].there
  /\ \E f \in {Nothing, "pending", "synced"} : BackedUp(s, [db.subs[s] EXCEPT !.feeds[u] = f])

ChangeEpisode(s) ==
  /\ db.subs[s].there
  /\ \E e \in EpisodeRows :
       BackedUp(s, [db.subs[s] EXCEPT !.episode = e,
                                      !.candidate = IF e.status = Nothing THEN Nothing ELSE @])

ChangeCandidate(s) ==
  /\ db.subs[s].episode.status # Nothing
  /\ \E c \in CandidateRows : BackedUp(s, [db.subs[s] EXCEPT !.candidate = c])

-----------------------------------------------------------------------------
(* Runtime states are not exported, and not imported from a package that   *)
(* was written by hand.                                                    *)
NormalizeEpisode(e) ==
  IF e.status = "downloading" THEN [status |-> "missing", owned |-> FALSE] ELSE e

(* Mutated: only the status of a download in progress is replaced.         *)
NormalizeStatusOnly(c) == IF c = "replacing" THEN "failed" ELSE c

NormalizeCandidate(c) ==
  IF c \in {"replacing", "accepted_cleanup_failed"} THEN "failed" ELSE c

(* sanitizeFeedForBackup: the watermark and the baseline stay behind.      *)
SanitizeFeeds(feeds) == [u \in BackupUrls |-> IF feeds[u] = Nothing THEN Nothing ELSE "recorded"]

SubRecord(row) ==
  [row EXCEPT !.feeds = SanitizeFeeds(@), !.episode = NormalizeEpisode(@),
              !.candidate = NormalizeCandidate(@)]

Redact(config, value, sensitive) ==
  IF config = "secret" /\ value # Nothing /\ ~sensitive THEN Redacted ELSE value

Export(sensitive) ==
  /\ pkg = NoPackage
  /\ pkg' = [format |-> "auto-rss",
             content |-> [configs |-> [c \in Configs |-> Redact(c, db.configs[c], sensitive)],
                          group |-> db.group,
                          subs |-> [s \in BackupSubs |-> SubRecord(db.subs[s])]]]
  /\ UNCHANGED db

(* A package from before subscriptions had several feeds: each has the     *)
(* default one, and runtime states if it was written by hand.              *)
EnsureFeeds(feeds) ==
  IF \A u \in BackupUrls : feeds[u] = Nothing THEN [feeds EXCEPT ![DefaultUrl] = "recorded"] ELSE feeds

LoadOldPackage(s) ==
  /\ pkg = NoPackage
  /\ \E text \in NewTexts, enabled \in BOOLEAN, e \in EpisodeRows, c \in CandidateRows :
       /\ e.status = Nothing => c = Nothing
       /\ pkg' = [format |-> "auto-rss",
                  content |-> [EmptyDb EXCEPT !.subs[s] =
                    [SubNamed(text, enabled) EXCEPT !.feeds = EnsureFeeds(@),
                                                  !.episode = e, !.candidate = c]]]
  /\ UNCHANGED db

(* The rules of AutoBangumi become subscriptions without feeds.            *)
LoadAutoBangumi(s) ==
  /\ pkg = NoPackage
  /\ \E e \in BOOLEAN :
       pkg' = [format |-> "auto-bangumi",
               content |-> [EmptyDb EXCEPT !.subs[s] = SubNamed("b", e)]]
  /\ UNCHANGED db

-----------------------------------------------------------------------------
(* applyPackage.                                                           *)
Importable(record) == record \notin {Nothing, Redacted}

(* Mutated: the placeholder of a secret is taken for its value.            *)
RestoreRedacted(local, record, strategy) ==
  IF record # Nothing /\ (local = Nothing \/ strategy = "overwrite") THEN record ELSE local

RestoreConfig(local, record, strategy) ==
  IF Importable(record) /\ (local = Nothing \/ strategy = "overwrite") THEN record ELSE local

MergeText(local, record) == IF local = "" THEN record ELSE local

(* The default counts as no colour, so that of the package replaces it.    *)
MergeColor(local, record) ==
  IF local \in {"", DefaultColor} /\ record # "" THEN record ELSE local

(* The column has the default too, for the row of a new group.             *)
RestoreGroup(local, record, strategy) ==
  IF record = Nothing THEN local
  ELSE IF local = Nothing THEN IF record = "" THEN DefaultColor ELSE record
  ELSE IF strategy = "overwrite" THEN record
  ELSE IF strategy = "merge" THEN MergeColor(local, record) ELSE local

(* restoreSubscriptionFeeds: what is created waits for its baseline.       *)
Recreated(record) == [u \in BackupUrls |-> IF record[u] = Nothing THEN Nothing ELSE "pending"]

MergeFeeds(local, record) ==
  [u \in BackupUrls |-> IF local[u] # Nothing THEN local[u] ELSE Recreated(record)[u]]

(* The row of a new subscription is enabled whatever the record says: the  *)
(* default of the column replaces a false.                                 *)
RestoreSub(local, record, strategy) ==
  IF ~record.there THEN local
  ELSE IF ~local.there
  THEN [local EXCEPT !.there = TRUE, !.text = record.text, !.enabled = TRUE,
                     !.feeds = Recreated(record.feeds)]
  ELSE IF strategy = "overwrite"
  THEN [local EXCEPT !.text = record.text, !.enabled = record.enabled,
                     !.feeds = Recreated(record.feeds)]
  ELSE IF strategy = "merge"
  THEN [local EXCEPT !.text = MergeText(@, record.text), !.feeds = MergeFeeds(@, record.feeds)]
  ELSE local

(* Episodes and candidates exist, or come back without a download.         *)
RestoreEpisode(local, record, strategy) ==
  IF record.status # Nothing /\ (local.status = Nothing \/ strategy = "overwrite")
  THEN [NormalizeEpisode(record) EXCEPT !.owned = FALSE] ELSE local

RestoreCandidate(local, record, strategy) ==
  IF record # Nothing /\ (local = Nothing \/ strategy = "overwrite")
  THEN NormalizeCandidate(record) ELSE local

Restored(d, p, strategy) ==
  [configs |-> [c \in Configs |-> RestoreConfig(d.configs[c], p.configs[c], strategy)],
   group |-> RestoreGroup(d.group, p.group, strategy),
   subs |-> [s \in BackupSubs |->
     [RestoreSub(d.subs[s], p.subs[s], strategy) EXCEPT
       !.episode = RestoreEpisode(d.subs[s].episode, p.subs[s].episode, strategy),
       !.candidate = RestoreCandidate(d.subs[s].candidate, p.subs[s].candidate, strategy)]]]

(* One transaction: a package that is refused changes nothing.             *)
Import(strategy) ==
  /\ pkg.format # "none"
  /\ db' = Restored(db, pkg.content, strategy)
  /\ pkg' = NoPackage

SettingsNext == ChangeSettings \/ \E b \in BOOLEAN : Export(b)

LibraryNext ==
  \/ \E s \in BackupSubs :
       \/ ChangeSubscription(s) \/ ChangeEpisode(s) \/ ChangeCandidate(s)
       \/ LoadOldPackage(s) \/ LoadAutoBangumi(s)
       \/ \E u \in BackupUrls : ChangeBackedFeed(s, u)
  \/ Export(TRUE)

BackupNext == SettingsNext \/ LibraryNext \/ \E strategy \in Strategies : Import(strategy)

BackupSpec == BackupInit /\ [][BackupNext]_backupVars

-----------------------------------------------------------------------------
Imports == pkg.format # "none" /\ pkg'.format = "none"

(* An import leaves no row behind that says a download or a replacement is *)
(* under way, other than those that said so before, whose row it left      *)
(* alone; and every feed it adds starts with its baseline.                 *)
NothingRunsByImport ==
  [][Imports => \A s \in BackupSubs :
       LET was == db.subs[s]
           new == db'.subs[s] IN
       /\ new.episode # was.episode => new.episode.status # "downloading" /\ ~new.episode.owned
       /\ new.candidate # was.candidate => new.candidate \in {"available", "failed"}
       /\ \A u \in BackupUrls : new.feeds[u] # was.feeds[u] => new.feeds[u] \in {"pending", Nothing}
    ]_backupVars

(* What an import may take away.  Rows of every table are kept, except the *)
(* feeds of a subscription that a package overwrites: the package's feeds  *)
(* replace them all, and those it does not have are gone.  A secret that   *)
(* was left out of the package is not replaced.  An import that is not to  *)
(* overwrite leaves every value that was there, but for an empty one and   *)
(* for the default colour of a group, which a merge fills.                 *)
Kept(was, new) == was \notin {Nothing, ""} => new = was
RowKept(was, new) == was # Nothing => new # Nothing

LocalRowsStay ==
  [][\A how \in Strategies : Import(how) =>
       /\ \A c \in Configs : /\ RowKept(db.configs[c], db'.configs[c])
                             /\ db'.configs[c] # Redacted
                             /\ how # "overwrite" => Kept(db.configs[c], db'.configs[c])
       /\ RowKept(db.group, db'.group)
       /\ how # "overwrite" /\ ~(how = "merge" /\ db.group = DefaultColor) => Kept(db.group, db'.group)
       /\ \A s \in BackupSubs :
            LET was == db.subs[s]
                new == db'.subs[s]
                record == pkg.content.subs[s] IN
            was.there =>
              /\ new.there
              /\ RowKept(was.episode.status, new.episode.status) /\ RowKept(was.candidate, new.candidate)
              /\ \A u \in BackupUrls :
                   (how = "overwrite" /\ record.there /\ record.feeds[u] = Nothing)
                     \/ RowKept(was.feeds[u], new.feeds[u])
              /\ how # "overwrite" =>
                   /\ Kept(was.text, new.text) /\ new.enabled = was.enabled
                   /\ \A u \in BackupUrls : Kept(was.feeds[u], new.feeds[u])
                   /\ Kept(was.episode.status, new.episode.status)
                   /\ Kept(was.candidate, new.candidate)]_backupVars
=============================================================================
