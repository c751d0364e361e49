# A TLA+ model of auto-rss

auto-rss watches RSS feeds of anime releases, decides per episode whether a release is wanted,
hands it to qBittorrent, follows the torrent, renames the files and keeps a ledger of the
episodes of every subscription. All state is in one SQLite database (through gorm), in
qBittorrent, in the media directories and in a few in-memory structures; the work is done by a
periodic scheduler, a monitor loop, completion goroutines, one background task at a time and HTTP
handlers that run concurrently and share the tables. Paths below are relative to `src/internal/`.

## 1. Inventory

| Part | State | Operations | What is hard | What makes it correct |
|---|---|---|---|---|
| episode ledger: `repository/episode.go`, `service/episode/service.go` | `subscription_episodes` (status, owner, active resource), `episode_resource_candidates` | observe, claim, attach, release, complete, fail, requeue, detach, set by user, candidates | several actors, one transaction each | one owner per episode; owned episodes are forgotten by the user only |
| feed collector: `service/scheduler/scheduler.go` | local per RSS item | evaluate, claim, create the download, recover a failed one, release | two collections at once; claim and creation are two transactions | one download per episode; a claim does not leak |
| download monitor: `service/downloader/monitor.go`, `retry.go`, `status_sync.go` | rows of `downloads`, tasks of qBittorrent and their category | retry, retry cleanup, add, checkpoint, categorise, synchronise, reconcile | whole rows are saved after slow external calls; crashes between the checkpoints | no download is lost or added twice; the last failure releases the episode |
| completion: `service/downloader/completion_handler.go` | the row it was started with | move, rename, commit | duplicates, stale rows, user decisions in between | only the owner completes an episode, with its download, atomically |
| downloads and episodes API: `api/handler/download.go`, `episode.go`, the retry of `subscription_diagnostics.go` | — | set status, retry one or all, delete, batch delete, clear | races with all of the above | an owner always exists |
| resource replacement: `service/episode/replacement.go`, `replacement_downloader.go` | stage and paths of a candidate, files on disk, candidate locks | prepare, continue, advance, switch, cleanup, recover, compensate | crash points between file and database steps | the old file survives until the new one is in place; recovery ends every stage |
| feeds: `service/subscriptionfeed`, `repository/subscription_feed.go`, `scheduler.collectFeeds` | watermark, seen items, baseline flag | check, edit, remap, delete | checks decide with the rows they read at their start | no item is passed over; watermarks only grow |
| choice of items: `service/subscriptionmatch`, `scheduler/*_filter.go`, `SubscriptionHandler.Preview` | — (a fetched feed) | evaluate, prioritise, preview | the preview is code of its own | what was shown is what is done |
| smart fetch: `service/scheduler/smart_fetch.go` | `completed_at` | decide whether a subscription is fetched now | windows across the week, columns set by the decision | no subscription is starved or given up early |
| subscriptions and progress: `api/handler/subscription.go`, `repository/subscription.go`, `RefreshSubscriptionProgressInTx` | `subscriptions`, groups | create, edit, toggle, enrich, delete, batch | whole-row saves of old copies | progress columns agree with the ledger in the end |
| discovery: `service/subscriptiondiscovery`, MCP server | drafts with a revision | prepare, revise, confirm | concurrent agents, repeated confirmations | what is created is what was reviewed, once |
| renamer: `downloader/renamer.go`, `completion_handler.go` | save path and names in qBittorrent, `renamed_path` | complete, rename all, reorganise all | each step may fail, tasks and completions overlap | a stored path is where the file is |
| covers: `service/bangumi/image.go` | files, announced downloads | download, wait | several services, one file | a published cover is whole; waiters are served |
| notifications: `service/notification` | hub of WebSocket clients, remembered events | send, register, drop | slow clients, closing of channels | a channel is closed once |
| task manager: `service/task/manager.go` | current task, history | start, cancel, end | cancel racing the end | one task works; cancels are told |
| rate limits: `api/middleware/ratelimit` | buckets per client in a bounded store | take, refill, evict, clean up | cleanup racing a request | dropping an idle bucket gives no tokens away but to requests under way |
| log rows: `pkg/logger/db_writer.go` | `logs` | write, clean up, clear | the count is stale while batches are deleted | recent rows stay |
| backup: `service/backup` | all tables | export, import by three strategies | rows of a running system are imported | nothing seems to run that does not; local rows stay where the strategy says so |
| migration: `pkg/database/migration.go` | rows of an earlier version | fill ledger, feeds, latest episode | several downloads of an episode; repeated runs | the ledger names the download that counts |
| RSS parser, mikan, bangumi clients, NFO, media library, auth, config store, router | — | — | text, I/O, formatting | — |

How they interact: collectors, monitor, completions and handlers share the tables `subscription_episodes`
and `downloads`; every repository call is a transaction, and nothing else orders them (SQLite
serialises the transactions). The monitor, the replacement and the handlers call qBittorrent between
transactions. Rows are written back whole (`gorm.Save`), so a write may carry columns that are older than
the row. Feed checks, the choice of items and the collector are consecutive parts of one goroutine:
`SubscriptionFeeds` follows the rows of the feeds, `ItemSelection` one fetched feed, `FeedCollector` one
item against the tables.

`PROJECT.json` lists the components with their status, and the hazards by line.

## 2. Plan

1. **Done:** the life of a download, the abstract ledger, and the proof that the one implements the other.
2. **Done:** resource replacement, refined from `ResourceSwap`.
3. **Done:** feeds, choice of items, smart fetch, subscriptions with their progress.
4. **Done:** the small components (tasks, logs, rate limiter, hub, covers, renaming, backup, migration,
   drafts).
5. **Done:** every invariant and every action property of the passing runs as a theorem (section 5).
6. **Left:** the import of a batch with its search for duplicates; torrents of a whole season; weaker
   hypotheses for the theorems that have one, should the code close the holes they name.

Operators that proofs need are plain definitions or functions; no module uses `RECURSIVE`.

## 3. Modules

| Module | Models |
|---|---|
| `EpisodeLedger` | what may happen to the ledger row of an episode, one action per repository call; the promise of the ledger |
| `DownloadTables` | tables, qBittorrent, local states, and the transactions several actors share (`Saved`, `PersistFailure`, `Requeue`) |
| `FeedCollector` | `processDownloadItemWithResult` and `recoverFailedDownload`, step by step |
| `DownloadMonitor` | `checkDownloads`: retries, retry cleanup, pending downloads, status synchronisation, reconciliation |
| `DownloadCompletion` | `HandleComplete`: rename, then commit |
| `DownloadRequests` | set status, retry of one download and of all failed and stalled ones, delete, batch delete, clear |
| `DownloadLifecycle` | composes the four with qBittorrent and crashes; fairness, properties, refinement |
| `ResourceSwap` | the promise of a replacement: only the user takes the file of the resource the ledger names |
| `ReplacementTables`, `ReplacementDownload`, `ReplacementFiles`, `Replacement` | candidates, rows, torrents and files; the download into staging; the exchange of the files with its compensation; requests, cleanup, recovery, restarts |
| `SubscriptionFeeds` | checks with their snapshot, baseline, watermark, seen items, edits and deletion of feeds |
| `Subscriptions` | rows of the subscriptions and groups, derived columns, and every whole-row save |
| `SmartFetch` | the decision of a check day by day |
| `ItemSelection` | rules, quality policy, language, order of the items; the preview |
| `Drafts` | discovery: previews, revisions, confirmations of several agents |
| `FileRenaming` | save path, folder and name of torrents, and the stored path |
| `TaskManager`, `LogWriter`, `RateLimiter`, `NotificationHub`, `CoverDownload`, `Backups`, `Migration` | the components of these names |
| `MCDownloadLifecycle`, `MCEpisodeLedger`, `MCReplacement`, `MCComponents` | instances for TLC |
| `...Proofs` | theorems (section 5) |

How the state of a download's life corresponds to the code:

- `ledger[e]` is the row of `subscription_episodes` (status, `active_download_id`, active hash and URL);
  `"absent"` is an episode without a row. `rows[d]` is the row of `downloads` with primary key `d`, its
  status, hash, retry counter and whether its last error is one that is not retried (`permanent`).
  `origin[d]` are the columns that never change (title, URL, episode).
- `torrents[h]` is the task of qBittorrent with info hash `h`: its category (`AutoRss`, or the pending
  category of one download) and its state as `mapQBStateToStatus` sees it.
- One transaction, or one call of qBittorrent, is one action. What an actor carries from one step to
  the next is in its local record (`collector`, `monitor`, `job`, `user`), stale copies of rows
  included: a batch retry holds all the rows it listed. A unique index on the hash makes `Saved` refuse a
  duplicate; `Save` of a deleted row inserts it again.
- `Faults` switches on what may go wrong: a crash (local states are lost, tables and qBittorrent stay),
  a refused transaction, a failed call of qBittorrent (done or not), a failed rename, and torrents
  that stall, fail, recover or are removed. `MonitorSkips` and the `...Fails` actions are the error paths.
- Some steps are merged where nothing the properties see comes in between: `EvaluateOwned` reads the ledger and
  stores the candidate (two calls of the service), and `AddTorrent` leaves out a torrent that appears under another hash
  than the one announced. `Collect` takes an item as judged by its feed: `ObserveRSSItem` and the baseline are in
  `SubscriptionFeeds`.
- Abstracted: names, paths, notifications, media library, filters of items, backoff times and the
  five-minute lease (when it has run out is left open), the grace period of the reconciliation, the
  order and page size of the monitor's lists (it may turn to any row; it reads a row when it turns to
  it, so what it writes is as old as its own turn, not as old as the cycle). The page of `Clear` is any
  set of `MaxPageSize` rows.

The replacement: `candidate[c]` is the row of the candidate with its status and `replacement_stage`; the
file paths of the design are `place` (the final path and whose file is there), `staging[c]` (what was
downloaded and what was renamed) and `rollback[c]`. `worker[c]` is the goroutine that advances a
candidate, for a task of the user or for the recovery; each row save, each file move and each call of qBittorrent
that changes something is a step (a query is part of the step that uses its answer). So is each part of a deletion by
the user (`deleting`): the handler reads the row, has qBittorrent delete the torrent with its files, whether that
works or not, and deletes the row, which detaches the ledger. qBittorrent finds the files by their paths, and the old
torrent has the final path: whoever's file is there goes. `taken` remembers the resources that lost a file this way.
In the code each attempt of a candidate has a download row of its own; in the model it has one per candidate, so a
deletion that goes on after its row was replaced hits the new one, which is more than the code does. `faults` is a
budget: how many crashes, refused saves, failing calls, cancels and so on are still to come. Reads of the database
succeed: a refused transaction is one that writes, so the error of `loadResources` in `advance` does not occur.

Feeds: an item is its number in the order of publication, a mapping a URL with an offset, `judged` remembers
which check has looked at what. `Subscriptions`: a writer reads a row, changes what its kind changes, and saves
it whole. In the other modules the variables are the fields of the Go structures of the same name.

Operators marked "Mutated" in a comment are variants of the definition that follows them, with the
kind of bug this code could have. They occur in no specification; replacing the original by the
variant must break the property named in `PROJECT.json`, which shows that the property bites.

## 4. Runs

Bounds of all runs of `DownloadLifecycle`: one episode (actors meet only at an episode), two
resources for it (two fansubs; one where the race is between the actors of a single download), two
downloads, one retry (`MaxRetries = 1`, so both "retry" and "last failure" occur), one completion
goroutine at a time, one user request at a time, pages of one row (1000 in the code; one is the smallest page that
leaves a row out when there are two). Actors, downloads and resources are symmetric where
no temporal property with fairness is checked. Deadlock is not checked in any run but `ledger`: once there is
nothing to do the other systems really are at rest. `EpisodeLedger` never stops.

| Run | Question | Shows |
|---|---|---|
| `ledger` | what does the ledger promise? | types, `OwnedStatusStands` with 2 episodes, 3 downloads: nothing automatic changes an owned status |
| `claims` | 2 collectors, failing torrents, retries of the user, one by one or of all rows that failed: can an episode have two downloads? | `OneDownloadPerEpisode`; one resource has a hash in its feed, the other not |
| `faults` | 1 collector and every failure except recovering torrents | types, `LastFailureReleases`, `OneDownloadPerEpisode`, `CompletedByOwner` |
| `users` | deletions, clears and decisions of the user against stale writes of the monitor | `OwnerExists`; `KeepsPromise`: the system implements `EpisodeLedger`; `OnlyUserDecides`: what is not a user's decision is an automatic step of it, so `OwnedStatusStands` carries over |
| `liveness` | fair, failing torrents, renames that fail for a while | `ClaimsEnd`, `FinishedTorrentsComplete` |
| `cleanup` | fair, crashes that stop at some time | `CleanupEnds` |
| `replacement` | two candidates of one episode, with an old file or without one, and six budgets of faults | `ImplementsSwap`: the replacement never drops the file of the resource the ledger names, only a deletion by the user does; `CurrentResourceExists` says where that file is; `FailureRestoresOld`, `NeverRolledBack`; `RecoverySettles`: a recovery that starts when no fault is left ends every candidate, or stops before files it leaves to the user |
| `feeds` | one feed of three items, the second without a time, one edit, a periodic and a manual check | `NothingPassedOver`, `ForwardOnly`, `EveryItemJudged` |
| `progress` | one subscription, two groups, every writer | `ProgressHeals` |
| `components` | eleven components side by side | see below |

The budgets of `replacement` (`MCReplacement`): two crashes and a failing torrent; a refused save, a failing
call and a failing move together; a cancel and a failing call; two shutdowns; a deletion by the user with a refused
transaction and a failing call; a deletion with a crash and a decision of the user. A crash is not combined with a cancel
or a refused save, because a compensation that the process does not finish violates `CurrentResourceExists` (run
`interrupted`).

A deletion takes the files first and the row later, or never, after a crash or a refused transaction: in between the
ledger names a download whose file is gone. `CurrentResourceExists` therefore excepts resources in `taken`, and
`ResourceSwap` has a step `Take`. As the old torrent has the final path, the file it takes may be the new one (a
finding): a user who deletes the old download between the promotion and the cleanup.

The run does not take the steps that `Careful` (an `ACTION_CONSTRAINT`) leaves out, of two kinds. One is the
interruption of a compensation after a deletion took a file: what run `interrupted` shows, which a deletion makes possible
without a crash as well. The other is `Orphaned`: the staging directory cannot be made for an attempt that finds a
torrent an earlier one added and did not record, and nobody deletes that torrent (a finding; it violates
`FailureRestoresOld`). What happens after such a step, the end of its recovery included, is not checked.

`RecoverySettles` excepts files the code leaves to the user, such
as one at the final path that no row tracks (`LeftToUser`); the design promises an end there as well (`Untracked.cfg`).
The user may delete the old download, not that of
a replacement under way, which makes it hang (a finding). Two candidates, because one that was accepted is the old resource of the next; three
items, because one of them must be between the watermark of one check and that of the other.

`feeds` lets edits happen only while no check is under way (`EditsAlone`): an edit in the middle of a check
violates `NothingPassedOver` (`Remapped.cfg`). Checks overlap, fail and are cancelled at any point.

`components` is the sum of eleven specifications, not their product: the initial state chooses one, and the others
stay still. What the modules keep of the program does not overlap (where the code shares a table, as an import does, the
module has an action for what the rest of the program does to it), so a product would only multiply the states:

| Component | Instance | Properties |
|---|---|---|
| tasks | 4 tasks, history of 2 | `OneTaskWorks`, `CancelIsTold` |
| logs | limit 2, batches of 2, 5 rows | `RecentLogsStay` |
| rate limiter | 2 clients, 2 requests, a store of 1, burst 2 | `NoFreeTokens` |
| hub | 2 browsers, buffers of 1, 1 channel, 1 event | `ChannelsClosedOnce` |
| covers | 3 callers of one image service, crashes | `CoversAreWhole`, `WaitersAreServed`; the theorems are for any number of services |
| renaming | 2 torrents, one with a folder, 2 titles, 1 completion at a time with the tasks of the user, every failure | `RenameSavesTruePath` |
| backup | 1 subscription with a feed, an episode and a candidate; the settings apart | `NothingRunsByImport`, `LocalRowsStay` |
| migration | 2 downloads in every status, episodes to 2, crashes | `LedgerOfDownloads` |
| smart fetch | 17 strategies, 4 subscriptions, all weekdays | `NobodyStarves`, `GivenUpLate` |
| choice of items | feeds of up to 3 of 10 items, 16 rule sets | `PolicyIsFollowed`, `PreviewHonoured` |
| drafts | 2 agents, 2 drafts, 2 revisions | `ConfirmedAsReviewed`, `OneSubscriptionPerSubject` |

What the statements leave out, because the code does not do it: `RenameSavesTruePath` is about torrents without a
folder (the tasks of the user store the path of a file in a folder without the folder); `PreviewHonoured` is about
feeds of large and new items (the preview knows neither the least size nor the watermark); `CoversAreWhole` excepts
overlapping saves of one cover; `NoFreeTokens` excepts clients pushed out of a full store, and counts one token (`late`) for
each request that took its token from a bucket the cleanup had dropped after the request looked it up: that client
starts again with a full bucket, so the token is a free one; `LocalRowsStay` excepts the feeds of a subscription
that a package overwrites (the package's replace them all) and the default colour of a group, which a merge
replaces; `RecentLogsStay` excepts a clear by the user during a cleanup;
`OneSubscriptionPerSubject` is about subscriptions made by discovery (a user may create a second one by hand).

Two runs expect a violation, and each is a disagreement between the code and its documents:

| Run | What happens |
|---|---|
| `interrupted` | the process stops while a cancelled switch is taken back: files are moved back, the stage still says `promoted`, and the recovery switches to a resource whose file is in the staging directory, or gone |
| `nested` | a completion that runs again for a torrent it already moved nests the directory of the title |

The configurations below are not in the list of runs; they can be checked by hand with
`tlc -config <name>.cfg <module>`, and each shows a violation that `PROJECT.json` reports as a finding:

| Configuration | Module | What happens |
|---|---|---|
| `ZeroRetries` | `MCDownloadLifecycle` | `max_retries = 0` is unlimited, the document says no retry |
| `CrashedClaim` | `MCDownloadLifecycle` | a process that stops between claim and creation leaves the episode claimed forever; nothing recovers it at the start |
| `FeedOffset` | `MCDownloadLifecycle` | a completion uses the offset of the subscription, not of the feed: the episode of a feed with another offset is never completed |
| `Recovered` | `MCDownloadLifecycle` | a torrent that fails finally and is then resumed in qBittorrent runs beside the download that replaced it |
| `ClearedByUser` | `MCDownloadLifecycle` | ignored, then missing: the running download is no longer seen, and a second one is created |
| `OwnCandidate` | `MCDownloadLifecycle` | a placeholder hash in the ledger hides that a resource is the active one |
| `Untracked` | `MCReplacement` | a replacement waits forever before a file at the final path that nobody tracks |
| `Remapped` | `SubscriptionFeeds` | a check that began before an edit of the mapping stores the watermark of the old one |

The assumptions of the passing runs exclude exactly these: recovering torrents in `claims` and
`faults`, user decisions in `claims`, crashes and refused transactions in `liveness` (a refused
release leaves a claim behind just as a crash does), feeds with other offsets everywhere else.

Fairness. `DownloadLifecycle` (`FairSpec`): every goroutine keeps running (weak fairness of the collectors in the
middle of an item, of the monitor in the middle of a row, of completions). A monitor cycle goes through
all rows and all torrents, so a row that asks for its turn again and again gets it: strong fairness
per row and per torrent. No fairness is assumed for qBittorrent's torrents, crashes, users or for
the start of a collection. `ClaimsEnd` and `CleanupEnds` are stated under `Stable`: crashes and the
retries of the user end at some time. `FinishedTorrentsComplete` is stated under `RenamesSucceed`: at some time the files
of a torrent that exists can be renamed. Its run has neither crashes nor refused transactions nor failing calls.
`Replacement`: the recovery runs at every start, its goroutine and that of a task keep running, and a torrent that
is not disturbed ends. `SubscriptionFeeds`: the scheduler starts a check again and again (which presumes that smart
fetch does not skip the subscription), and now and then a source answers, an item does not fail and a check is not
cancelled (strong fairness); nothing is assumed of manual checks and users. `Subscriptions`: weak fairness of the
refresh at the end of a check, for the subscriptions that are checked.

## 5. Proofs

Every theorem is for all values of the constants of its module.

`EpisodeLedgerProofs`: `TypeCorrect` and `OwnedStatusesStand`. The action property follows from the type invariant
and the lemma `OwnedStays`, which has a case per operation of the ledger.

`DownloadLifecycleProofs`, faults included: `Invariant`,
`TypeCorrect`, `OwnersExist`. `OwnerExists` is not inductive: an actor in the middle of its
work is about to write. The inductive invariant `IInv` adds `ActorsKnowTheirDownloads`: a row, and
every download an actor holds, was created once (`origin` is set), and each program counter implies
what the next step reads (an item, a row, a hash, a state, a retry counter below the cap, a row that is
not yet completed). The proof has a
lemma per actor; under it one case per action; and a frame lemma per actor reduces a case to the
tables the action writes. Assumptions: `ConstantsAssumption` (kinds of the constants, `MaxRetries`
not above `RetryCap`), `ClearsAreOfStatuses` and `NoneIsNoRow` (NULL is not a row); TLC evaluates them in every run.

`DownloadRefinementProofs`: `LedgerIsKept` (the system implements
`EpisodeLedger` under the refinement mapping `LedgerView`) and `OnlyTheUserDecides`. One lemma per
transaction maps it to an operation of the ledger (a claim to `Claim`, `PersistFailure` to `Fail` or
a stutter, `Requeue` to `Requeue` or a stutter, `CommitCompletion` to `Complete` or, the second
time, a stutter, `DeleteRows` to `Detach`), and one lemma per actor collects them.

In the same module `LastFailuresRelease` and `CompletedByTheOwner`. Every step is classified: a download becomes failed
by `PersistFailure`, and completed by `CommitCompletion`; every other step is `Quiet`, it ends no download and gives no
episode to a failed one. `LastFailureReleases` is then inductive relative to `IInv`.

And `OneDownloadAtATime`: no episode has two living downloads. Its inductive invariant `AliveInv` says of the tables that
the ledger names a living download or the user has decided its episode, and that the torrent of a dead one failed or is
gone, and of the monitor, at each of its steps, what it knows of the torrent it is about to write into a row:
a whole-row save must not bring a dead download back to life. The theorem assumes `Undisturbed`, four statements about
constants, and without each of them TLC finds the property false: an offset of a feed that is not that of the
subscription (`FeedOffset`), a user who calls an owned episode missing (`ClearedByUser`), torrents that recover from
their last failure (`Recovered`), and a user who deletes or clears downloads while the monitor is about to save one of
them, which inserts the row again beside its successor (`ClearedByUser` with `DeleteRequests <- MCSingle` or
`ClearRequests <- MCClears` in place of the choice). Crashes, refused transactions, failing calls and stale writes are not excluded.

`ReplacementProofs`, for any number of candidates and any budget of faults:

- `ClaimsHold`: at most one candidate is being replaced, and its stage, the columns of its row and the place of its
  worker in the work fit each other (`ClaimInv`). `ReplacementTyped` and `AcceptanceIsFinal` follow.
- `CurrentResourceKept`: the invariant `FileInv` says for every stage, and inside it for every step of the exchange and
  of the compensation, which of the final, staging and rollback paths holds which file, or that a deletion took it
  (`InPlace`, `taken`); of the idle candidates that nothing of the old resource is left in their rollback paths. The
  deletions of the user come in between at every step, of any download. The theorem is about the behaviours without an
  `Interrupted` step: a restart, a refused save, or a deletion of the old file, between a file move of a compensation and
  the save that records it, and a recovery that takes the old file, moved back so, for the new one. That is the
  hole run `interrupted` shows; a crash at any other point is covered.
- `ReplacementImplementsSwap`: in the same behaviours every step is a step of `ResourceSwap` or a stutter. The
  deletion of the files is a `Take`, that of the row a `Forget` or a stutter.
- `FailuresRestoreOld`: the invariant `LeftInv` says what a candidate may own (row, torrent, old file) in which
  stage, and who will resume a paused old torrent. Three steps are excluded (`Forsaken`): qBittorrent refuses to pause a
  torrent that an earlier attempt paused already (the compensation then resumes nothing), the deletion of
  the row of the replacement under way, and `Orphaned`; all three are findings.

`SubscriptionFeedsProofs`: `NoItemIsLost` and `WatermarksAdvance`. `FeedInv` ties the snapshot of every running check
to the row of its feed (a mapping that is the same, a watermark that is not newer) and says that all a check has gone past
was judged. Both assume `EditsAlone`; `Remapped.cfg` shows what happens otherwise. They hold for any number
of feeds, items and overlapping checks.

`CoverDownloadProofs`: `WaitersServed` and `CoversWhole`. A waiter is served because every announcement, although
it may have been overwritten, belongs to a download that will end (`AnnouncedWork`); a published file is whole
because, as long as saves have not overlapped, one caller saves, to the temporary inode, and renames only what it wrote completely.
That a free inode exists for the next file is a pigeonhole argument on cardinalities (`AnInodeIsFree`).

`DraftsProofs`: `ConfirmationsAreReviewed` and `SubjectsAreTrackedOnce`. What an agent holds between reading and
writing is tied to what was shown at the revision it claims.

`ComponentProofs` has a section per component:

| Theorems | Why they hold |
|---|---|
| `TasksWorkAlone`, `CancelsAreTold` | the goroutines are tied to the current task, and the recorded ends to accepted cancels |
| `ChannelsAreClosedOnce` | the channel of a client follows its reader and its registration (`ChannelFollowsReader`) |
| `EverybodyIsFetched`, `GivenUpOnlyLate` | without a check that fetches, no more days pass than since the day of airing (`WaitsSinceAir`), and `completed_at` is not after the last check that saw an episode missing (`CompletedSince`) |
| `NoTokensForFree` | a bucket that was idle long enough to be dropped has earned the tokens it would be given (`IdleIsEarned`); it needs `IdleLimit >= Burst`; what requests take from dropped buckets is in `late` |
| `LedgerIsFilled` | a finite set of downloads has a best one by status and age, and the pass over them ends with it (`Filled`) |
| `PoliciesAreFollowed`, `PreviewsAreHonoured` | an episode has the first item of the order that could be taken for it (`SelectionInv`); the order keeps the items of a feed, by a least counterexample |
| `RecentLogsAreKept` | what was counted as excess is still there, because only this cleanup and a clear remove rows (`ExcessIsThere`) |
| `NothingRunsAfterImport`, `ImportsKeepLocalRows` | lemmas about what an import makes of a row and a record (`RowRestored`), for rows and packages of the right types (`BackupInv`) |
| `TaskSavesTruePath` | a download with a path is not completed again, so after the task has moved and renamed its torrent nobody else does (`OrganizerInv`); it assumes that two completions of one download do not overlap (`Apart`), which run `components` has by its single completion |

Assumptions on constants beyond their kinds: NULL is neither a download nor a category of qBittorrent
(`None`, `AutoRss`), `MaxStop` is a number, the downloads a migration finds are finitely many. All are named `ASSUME`s
of the modules that declare the constants, and TLC evaluates them.

Only model-checked: liveness (`ClaimsEnd`, `FinishedTorrentsComplete`, `CleanupEnds`, `RecoverySettles`,
`EveryItemJudged`, `ProgressHeals`), which the prover cannot reach, and what happens where a theorem's hypothesis fails.

## 6. Not modelled

- Authentication (tokens, passwords), on purpose; the configuration cache, which no code uses; routing and the
  formatting of answers; the clients of mikan, Bangumi, qBittorrent's login, mail and chat services, whose answers are
  choices; parsing of titles and feeds, whose results are fields of an item; NFO files and the refresh of the
  media library, which nothing waits for.
- In the life of a download: downloads of a whole season (episode 0) and their creation by
  `service/subscription/collection.go`, the ten-row pages of the monitor, the requests of two users at once.
- In the feeds: other columns of a feed than the mapping, `enabled`, watermark and baseline; two feeds at once in the
  run (feeds meet only at an episode, which is `claims`).
- In the migration: items that feeds have seen (the database here has no feeds before); in the notifications, that
  an event is announced to the browsers by a goroutine of its own, some time after it was remembered.
- In the renaming: templates without directories, the case of two files that differ in letters only.
- The batch import's search for duplicates, tags, the calendar and the daily status.

Observed while modelling, without a document to compare it with: a completed download can lose its files when the
cleanup of a retry races with a completion of the earlier try; a whole-row save of a subscription takes back
settings the user changed meanwhile and inserts a deleted subscription again; deleting a download while the monitor saves it
brings its row back beside the download that replaced it; deleting a subscription leaves its
feeds, seen items and downloads behind; a move that qBittorrent refuses is only logged, and the path is stored
as if it had been done. Where a document speaks of it, `PROJECT.json` lists a finding; findings without a run are from
reading the code or from the configurations above.
