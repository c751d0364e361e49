-------------------------- MODULE SubscriptionFeeds --------------------------
(***************************************************************************)
(* The feeds of a subscription: a feed is created waiting for its          *)
(* baseline, the first periodic check only takes note of what is there,    *)
(* later checks take what is newer than the watermark.  The periodic check *)
(* and the collection a user starts decide with the rows they read at      *)
(* their start, and the user edits and deletes feeds meanwhile             *)
(* (scheduler.collectFeeds, subscriptionfeed.Service).                     *)
(*                                                                         *)
(* The items of a feed appear in the order of their publication times,     *)
(* which are their numbers; Untimed items carry no time.  A mapping is a   *)
(* URL with an episode offset.                                             *)
(***************************************************************************)
EXTENDS Naturals, FiniteSets, FiniteSetsExt

CONSTANTS Feeds, Mappings,
          MaxItem,      \* bound on the items a feed publishes
          Untimed,      \* the items without a publication time
          MaxEdits,     \* bound on the edits of the user
          EditsAlone    \* TRUE: no edit overlaps with a check

ASSUME FeedAssumption ==
  /\ MaxItem \in Nat /\ MaxEdits \in Nat
  /\ Feeds # {} /\ Mappings # {}
  /\ Untimed \subseteq 1 .. MaxItem
  /\ EditsAlone \in BOOLEAN

Collectors == {"periodic", "manual"}
Items == 1 .. MaxItem

VARIABLES feeds,      \* the rows of the feeds: unborn, live or deleted, mapping, enabled,
                      \* baseline pending, and the watermark, where 0 stands for NULL
          seen,       \* the seen items without a time; other marks are never read
          published,  \* how many items the source of a feed shows
          judged,     \* the items a check has judged: feed, mapping and item
          check,      \* the checks in progress: the rows they read (snap), the feeds left,
                      \* the feed in hand, how much it showed, and its items to look at
          editor      \* the edit in progress: the row to be written back, and how many were made

feedVars == <<feeds, seen, published, judged, check, editor>>

Unborn == [state |-> "unborn", mapping |-> CHOOSE m \in Mappings : TRUE,
           watermark |-> 0, pending |-> TRUE, enabled |-> TRUE]

NoCheck == [pc |-> "idle", snap |-> [f \in Feeds |-> Unborn], left |-> {},
            feed |-> CHOOSE f \in Feeds : TRUE, fetched |-> 0, todo |-> {}]

NoEdit(n) == [pc |-> "idle", feed |-> CHOOSE f \in Feeds : TRUE, row |-> Unborn,
              remapped |-> FALSE, count |-> n]

FeedsInit ==
  /\ feeds = [f \in Feeds |-> Unborn]
  /\ seen = {}
  /\ published = [f \in Feeds |-> 0]
  /\ judged = {}
  /\ check = [c \in Collectors |-> NoCheck]
  /\ editor = NoEdit(0)

(* The source of a feed shows one more item.                               *)
Publish(f) ==
  /\ feeds[f].state = "live"
  /\ published[f] < MaxItem
  /\ published' = [published EXCEPT ![f] = @ + 1]
  /\ UNCHANGED <<feeds, seen, judged, check, editor>>

-----------------------------------------------------------------------------
(* Checks.  Both collectors read the enabled feeds once, and decide with   *)
(* these rows until they end.                                              *)
CheckGoes(c, state) == check' = [check EXCEPT ![c] = state]

EnabledFeeds == {f \in Feeds : feeds[f].state = "live" /\ feeds[f].enabled}

StartCheck(c) ==
  /\ check[c].pc = "idle" /\ EnabledFeeds # {}
  /\ EditsAlone => editor.pc = "idle"
  /\ CheckGoes(c, [check[c] EXCEPT !.pc = "fetch", !.snap = feeds, !.left = EnabledFeeds])
  /\ UNCHANGED <<feeds, seen, published, judged, editor>>

(* The check turns to the next feed, or ends.                              *)
Onward(c) ==
  CheckGoes(c, IF check[c].left = {} THEN NoCheck
               ELSE [check[c] EXCEPT !.pc = "fetch"])

(* UpdateCheckFailure keeps the watermark and the baseline flag.           *)
FetchFails(c, f) ==
  /\ check[c].pc = "fetch" /\ f \in check[c].left
  /\ CheckGoes(c, IF check[c].left = {f} THEN NoCheck ELSE [check[c] EXCEPT !.left = @ \ {f}])
  /\ UNCHANGED <<feeds, seen, published, judged, editor>>

(* Stopped by a restart, or a collection the user cancels.                 *)
Abandon(c) ==
  /\ check[c].pc # "idle"
  /\ CheckGoes(c, NoCheck)
  /\ UNCHANGED <<feeds, seen, published, judged, editor>>

(* A collection looks at every item; the periodic check at those without a *)
(* time unless they were seen, and at those after the watermark, or at all *)
(* while it waits for the baseline.                                        *)
(* Mutated: an item without a time is never newer than the watermark.      *)
WantedTimed(c, row, t) ==
  c = "manual" \/ (t \notin Untimed /\ (row.pending \/ t > row.watermark))

Wanted(c, row, t) ==
  c = "manual" \/ t \in Untimed \/ row.pending \/ t > row.watermark

PassedOver(c, t) == c = "periodic" /\ <<check[c].feed, t>> \in seen

Fetch(c, f) ==
  /\ check[c].pc = "fetch" /\ f \in check[c].left
  /\ CheckGoes(c, [check[c] EXCEPT !.pc = "items", !.left = @ \ {f}, !.feed = f,
                     !.fetched = published[f],
                     !.todo = {t \in 1 .. published[f] : Wanted(c, check[c].snap[f], t)}])
  /\ UNCHANGED <<feeds, seen, published, judged, editor>>

(* Judged: dismissed by the rules, taken note of as history (by the first  *)
(* periodic check), downloaded, or kept as a candidate.                    *)
Judged(c, t) ==
  judged' = judged \cup {<<check[c].feed, check[c].snap[check[c].feed].mapping, t>>}

PassOver(c, t) ==
  /\ check[c].pc = "items" /\ t \in check[c].todo
  /\ PassedOver(c, t)
  /\ CheckGoes(c, [check[c] EXCEPT !.todo = @ \ {t}])
  /\ UNCHANGED <<feeds, seen, published, judged, editor>>

JudgeItem(c, t) ==
  /\ check[c].pc = "items" /\ t \in check[c].todo
  /\ ~PassedOver(c, t)
  /\ Judged(c, t)
  /\ seen' = seen \cup ({<<check[c].feed, t>>} \cap (Feeds \X Untimed))
  /\ CheckGoes(c, [check[c] EXCEPT !.todo = @ \ {t}])
  /\ UNCHANGED <<feeds, published, editor>>

(* Mutated: an item that fails is left out and the check goes on.           *)
JudgeFailsOn(c, t) ==
  /\ check[c].pc = "items" /\ t \in check[c].todo
  /\ ~PassedOver(c, t)
  /\ CheckGoes(c, [check[c] EXCEPT !.todo = @ \ {t}])
  /\ UNCHANGED <<feeds, seen, published, judged, editor>>

(* An error at an item, before or after it was judged, ends the feed.      *)
JudgeFails(c, t) ==
  /\ check[c].pc = "items" /\ t \in check[c].todo
  /\ ~PassedOver(c, t)
  /\ UNCHANGED judged \/ Judged(c, t)
  /\ Onward(c)
  /\ UNCHANGED <<feeds, seen, published, editor>>

(* Mutated: the last time read replaces the watermark.                     *)
CheckedLatest(row, latest, wasPending) ==
  [row EXCEPT !.watermark = IF latest > 0 THEN latest ELSE @,
              !.pending = @ /\ ~wasPending]

(* UpdateCheckSuccess.                                                     *)
Checked(row, latest, wasPending) ==
  [row EXCEPT !.watermark = IF latest > @ THEN latest ELSE @,
              !.pending = @ /\ ~wasPending]

LatestOf(n) == LET timed == (1 .. n) \ Untimed IN IF timed = {} THEN 0 ELSE Max(timed)

FinishFeed(c) ==
  LET f == check[c].feed IN
  /\ check[c].pc = "items" /\ check[c].todo = {}
  /\ feeds' = IF feeds[f].state = "live"
              THEN [feeds EXCEPT ![f] = Checked(@, LatestOf(check[c].fetched),
                                                check[c].snap[f].pending)]
              ELSE feeds
  /\ Onward(c)
  /\ UNCHANGED <<seen, published, judged, editor>>

FinishFails(c) ==
  /\ check[c].pc = "items" /\ check[c].todo = {}
  /\ Onward(c)
  /\ UNCHANGED <<feeds, seen, published, judged, editor>>

Check(c) ==
  \/ StartCheck(c) \/ Abandon(c) \/ FinishFeed(c) \/ FinishFails(c)
  \/ \E f \in Feeds : Fetch(c, f) \/ FetchFails(c, f)
  \/ \E t \in Items : PassOver(c, t) \/ JudgeItem(c, t) \/ JudgeFails(c, t)

-----------------------------------------------------------------------------
(* The user.  A feed is created waiting for its baseline.                  *)
Idle == \A c \in Collectors : check[c].pc = "idle"

Created(m, on) ==
  [state |-> "live", mapping |-> m, watermark |-> 0, pending |-> TRUE, enabled |-> on]

CreateFeed(f, m, on) ==
  /\ feeds[f].state = "unborn"
  /\ feeds' = [feeds EXCEPT ![f] = Created(m, on)]
  /\ UNCHANGED <<seen, published, judged, check, editor>>

(* An edit reads the row and, for another URL or offset, the new feed,     *)
(* before the transaction that saves the row.                              *)
Remapped(row, m) == [row EXCEPT !.mapping = m, !.watermark = 0, !.pending = TRUE]

BeginEdit(f, m, on) ==
  /\ editor.pc = "idle" /\ editor.count < MaxEdits
  /\ feeds[f].state = "live"
  /\ EditsAlone => Idle
  /\ LET row == IF m # feeds[f].mapping THEN Remapped(feeds[f], m) ELSE feeds[f] IN
     editor' = [pc |-> "editing", feed |-> f, row |-> [row EXCEPT !.enabled = on],
                remapped |-> m # feeds[f].mapping, count |-> editor.count + 1]
  /\ UNCHANGED <<feeds, seen, published, judged, check>>

SeenOf(f) == {f} \X Untimed

EditDone == editor' = NoEdit(editor.count)

(* The whole row is written back; a row deleted meanwhile stays deleted.   *)
CommitEdit ==
  LET f == editor.feed IN
  /\ editor.pc = "editing"
  /\ feeds' = IF feeds[f].state = "live" THEN [feeds EXCEPT ![f] = editor.row] ELSE feeds
  /\ seen' = IF editor.remapped THEN seen \ SeenOf(f) ELSE seen
  /\ EditDone
  /\ UNCHANGED <<published, judged, check>>

(* The new feed cannot be read, has no usable item, or the URL is taken.   *)
EditRefused ==
  /\ editor.pc = "editing"
  /\ EditDone
  /\ UNCHANGED <<feeds, seen, published, judged, check>>

DeleteFeed(f) ==
  /\ feeds[f].state = "live"
  /\ feeds' = [feeds EXCEPT ![f].state = "deleted"]
  /\ seen' = seen \ SeenOf(f)
  /\ UNCHANGED <<published, judged, check, editor>>

Edit ==
  \/ \E f \in Feeds, m \in Mappings, on \in BOOLEAN : CreateFeed(f, m, on) \/ BeginEdit(f, m, on)
  \/ CommitEdit \/ EditRefused
  \/ \E f \in Feeds : DeleteFeed(f)

FeedsNext ==
  \/ \E c \in Collectors : Check(c)
  \/ Edit
  \/ \E f \in Feeds : Publish(f)

(* The scheduler starts a check again and again; now and then it is not    *)
(* interrupted, the source answers and no item fails.                      *)
FeedsFairness ==
  LET c == "periodic" IN
  /\ WF_feedVars(StartCheck(c))
  /\ \A f \in Feeds : SF_feedVars(Fetch(c, f))
  /\ \A t \in Items : WF_feedVars(PassOver(c, t)) /\ SF_feedVars(JudgeItem(c, t))
  /\ SF_feedVars(FinishFeed(c))
  /\ WF_feedVars(CommitEdit)

FeedsSpec == FeedsInit /\ [][FeedsNext]_feedVars /\ FeedsFairness

-----------------------------------------------------------------------------
(* No item falls behind the watermark, or counts as seen, before a check   *)
(* has looked at it under the mapping the feed has now: failed and         *)
(* cancelled checks do not move the watermark, and a new mapping begins    *)
(* without it (UpdateCheckSuccess, Service.Update).                        *)
NothingPassedOver ==
  \A f \in Feeds : feeds[f].state = "live" =>
    /\ \A t \in Items \ Untimed :
         ~feeds[f].pending /\ t <= feeds[f].watermark => <<f, feeds[f].mapping, t>> \in judged
    /\ \A t \in Untimed : <<f, t>> \in seen => <<f, feeds[f].mapping, t>> \in judged

(* While a feed keeps its mapping its watermark only grows and its         *)
(* baseline is not asked for again, in whatever order checks end.          *)
ForwardOnly ==
  [][\A f \in Feeds :
       /\ feeds[f].state = "live" /\ feeds'[f].state = "live"
       /\ feeds[f].mapping = feeds'[f].mapping
       => /\ feeds'[f].watermark >= feeds[f].watermark
          /\ feeds'[f].pending => feeds[f].pending]_feedVars

(* Every item of an enabled feed is judged, although checks fail and are   *)
(* interrupted.                                                            *)
Judgeable(f, m, t) ==
  /\ feeds[f].state = "live" /\ feeds[f].enabled
  /\ feeds[f].mapping = m /\ t <= published[f]

EveryItemJudged ==
  \A f \in Feeds, m \in Mappings, t \in Items :
    Judgeable(f, m, t) ~> (<<f, m, t>> \in judged \/ ~Judgeable(f, m, t))

=============================================================================
