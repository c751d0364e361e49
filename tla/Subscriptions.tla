---------------------------- MODULE Subscriptions ----------------------------
(***************************************************************************)
(* The rows of the subscriptions and of their groups.  The progress        *)
(* columns of a subscription are derived from its episodes; the settings   *)
(* belong to the user.  Most writers read a row, work on it, perhaps for   *)
(* minutes, and save it whole; such a save overwrites what others wrote    *)
(* meanwhile and brings a deleted row back.                                *)
(***************************************************************************)
EXTENDS Naturals, FiniteSets

CONSTANTS Subs, Groups, DefaultGroup,
          MaxTotal    \* bound on the number of episodes

ASSUME SubscriptionAssumption ==
  /\ MaxTotal \in Nat \ {0} /\ Subs # {} /\ DefaultGroup \in Groups

VARIABLES subs,       \* the rows of the subscriptions
          episodes,   \* their episodes: how many rows, continuously owned, and the last found
          hasFeed,    \* has the subscription a feed (it is not of the calendar only)
          groups,     \* the groups that exist
          writer      \* the row a writer holds between reading and saving

subVars == <<subs, episodes, hasFeed, groups, writer>>

Ungrouped == "none"
Kinds == {"update", "toggle", "enrich", "updater", "check", "completion"}

SubRow == [state : {"unborn", "live", "deleted"}, total : 0 .. MaxTotal, offset : {0, 1},
           bangumi : 0 .. MaxTotal, current : 0 .. MaxTotal + 1, latest : 0 .. MaxTotal + 1,
           completed : BOOLEAN, enabled : BOOLEAN, group : Groups \cup {Ungrouped}]

NewSub(total, group) ==
  [state |-> "live", total |-> total, offset |-> 0, bangumi |-> 0, current |-> 0,
   latest |-> 0, completed |-> FALSE, enabled |-> TRUE, group |-> group]

NoEpisodes == [rows |-> 0, owned |-> 0, found |-> 0]

NoWriter == [kind |-> "none", sub |-> CHOOSE s \in Subs : TRUE, row |-> NewSub(0, Ungrouped),
             group |-> Ungrouped]

SubsInit ==
  /\ subs = [s \in Subs |-> [NewSub(0, Ungrouped) EXCEPT !.state = "unborn"]]
  /\ episodes = [s \in Subs |-> NoEpisodes]
  /\ hasFeed \in [Subs -> BOOLEAN]
  /\ groups = {DefaultGroup}
  /\ writer = NoWriter

Live(s) == subs[s].state = "live"

Larger(a, b) == IF a >= b THEN a ELSE b

-----------------------------------------------------------------------------
(* RefreshSubscriptionProgress.                                            *)
WithOffset(episode, offset) == IF episode = 0 THEN 0 ELSE episode + offset

Complete(row, led) == row.total > 0 /\ led.owned >= row.total

(* Mutated: a subscription that was completed stays so.                    *)
ProgressKeepingCompletion(row, led) ==
  [row EXCEPT !.current = WithOffset(led.owned, row.offset),
              !.latest = WithOffset(Larger(led.found, row.bangumi), row.offset),
              !.completed = @ \/ Complete(row, led)]

Progress(row, led) ==
  LET aired == IF row.total = 0 \/ row.bangumi <= row.total THEN row.bangumi ELSE 0 IN
  [row EXCEPT !.current = WithOffset(led.owned, row.offset),
              !.latest = WithOffset(Larger(led.found, aired), row.offset),
              !.completed = Complete(row, led)]

(* The check of the feeds ends with it; the smart fetch spares the feeds   *)
(* of a subscription that owns all its episodes.                           *)
Checked(s) == Live(s) /\ hasFeed[s] /\ ~Complete(subs[s], episodes[s])

RefreshProgress(s) ==
  /\ Checked(s)
  /\ subs' = [subs EXCEPT ![s] = Progress(@, episodes[s])]
  /\ UNCHANGED <<episodes, hasFeed, groups, writer>>

(* Transactions on the episodes refresh the progress as well.              *)
ChangeEpisodes(s, led) ==
  /\ Live(s)
  /\ episodes' = [episodes EXCEPT ![s] = led]
  /\ subs' = [subs EXCEPT ![s] = Progress(@, led)]
  /\ UNCHANGED <<hasFeed, groups, writer>>

Find(s) ==
  LET led == episodes[s]
      n == led.found + 1 IN
  /\ n <= MaxTotal
  /\ subs[s].total > 0 => n <= subs[s].total
  /\ ChangeEpisodes(s, [led EXCEPT !.found = n, !.rows = Larger(@, n)])

Own(s) ==
  /\ episodes[s].owned < episodes[s].found
  /\ ChangeEpisodes(s, [episodes[s] EXCEPT !.owned = @ + 1])

Disown(s) ==
  /\ episodes[s].owned > 0
  /\ ChangeEpisodes(s, [episodes[s] EXCEPT !.owned = @ - 1])

(* Feeds write the offset of the first one into the subscription.          *)
ProjectFeed(s, offset) ==
  /\ Live(s) /\ hasFeed[s]
  /\ subs' = [subs EXCEPT ![s].offset = offset]
  /\ UNCHANGED <<episodes, hasFeed, groups, writer>>

-----------------------------------------------------------------------------
(* Creation and import commit the subscription with its episodes.  An      *)
(* import does not look whether the group exists.                          *)
Born(s, total, group) ==
  /\ subs[s].state = "unborn"
  /\ subs' = [subs EXCEPT ![s] = NewSub(total, group)]
  /\ episodes' = [episodes EXCEPT ![s].rows = total]
  /\ UNCHANGED <<hasFeed, groups, writer>>

CreateSubscription(s, total) == Born(s, total, Ungrouped)

ImportSubscription(s, total, group) == Born(s, total, group)

(* deleteByIDs: the episodes go with the subscriptions.                    *)
Removed(S) ==
  /\ subs' = [s \in Subs |-> IF s \in S /\ Live(s) THEN [subs[s] EXCEPT !.state = "deleted"]
                             ELSE subs[s]]
  /\ episodes' = [s \in Subs |-> IF s \in S THEN NoEpisodes ELSE episodes[s]]
  /\ UNCHANGED <<hasFeed, groups, writer>>

Delete(s) == Live(s) /\ Removed({s})

BatchDelete(S) == (\E s \in S : Live(s)) /\ Removed(S)

BatchUpdateEnabled(S, enabled) ==
  /\ S # {} /\ \E s \in S : subs[s].enabled # enabled /\ Live(s)
  /\ subs' = [s \in Subs |-> IF s \in S /\ Live(s) THEN [subs[s] EXCEPT !.enabled = enabled]
                             ELSE subs[s]]
  /\ UNCHANGED <<episodes, hasFeed, groups, writer>>

-----------------------------------------------------------------------------
(* Writers of whole rows.  What each makes of the row it has read; Bangumi *)
(* fills in an unknown total.                                              *)
Edited(row) == {[row EXCEPT !.total = t, !.enabled = e] : t \in 0 .. MaxTotal, e \in BOOLEAN}

Toggled(row) == {[row EXCEPT !.enabled = ~@]}

Enriched(row) ==
  {[row EXCEPT !.bangumi = n, !.total = IF @ = 0 THEN t ELSE @] :
     n \in 0 .. MaxTotal, t \in 0 .. MaxTotal}

Aired(row) == {[row EXCEPT !.bangumi = n] : n \in 1 .. MaxTotal}

Judged(row, led) == {[row EXCEPT !.completed = Complete(row, led)]}

Downloaded(row, led) == {[row EXCEPT !.current = Larger(@, led.owned + 1)]}

ChangesOf(kind, row, led) ==
  CASE kind = "update" -> Edited(row)
    [] kind = "toggle" -> Toggled(row)
    [] kind = "enrich" -> Enriched(row)
    [] kind = "updater" -> Aired(row)
    [] kind = "check" -> Judged(row, led)
    [] kind = "completion" -> Downloaded(row, led)

BeginSave(kind, s) ==
  /\ writer.kind = "none" /\ Live(s)
  /\ kind = "completion" => episodes[s].owned < episodes[s].found
  /\ \E row \in ChangesOf(kind, subs[s], episodes[s]) :
       writer' = [NoWriter EXCEPT !.kind = kind, !.sub = s, !.row = row]
  /\ UNCHANGED <<subs, episodes, hasFeed, groups>>

(* The transaction of Update adds episodes for a larger total, that of the *)
(* completion owns the episode; then the row goes over what it finds.      *)
Save ==
  LET s == writer.sub
      row == writer.row
      led == episodes[s] IN
  /\ writer.kind \in Kinds
  /\ subs' = [subs EXCEPT ![s] = row]
  /\ episodes' = [episodes EXCEPT ![s] =
       IF writer.kind = "update" THEN [led EXCEPT !.rows = Larger(@, row.total)]
       ELSE IF writer.kind = "completion" /\ led.owned < led.found
       THEN [led EXCEPT !.owned = @ + 1] ELSE led]
  /\ writer' = NoWriter
  /\ UNCHANGED <<hasFeed, groups>>

SaveFails ==
  /\ writer.kind # "none"
  /\ writer' = NoWriter
  /\ UNCHANGED <<subs, episodes, hasFeed, groups>>

-----------------------------------------------------------------------------
(* Groups.                                                                 *)
CreateGroup(g) ==
  /\ g \notin groups
  /\ groups' = groups \cup {g}
  /\ UNCHANGED <<subs, episodes, hasFeed, writer>>

DeleteGroup(g) ==
  /\ g \in groups /\ g # DefaultGroup
  /\ groups' = groups \ {g}
  /\ subs' = [s \in Subs |-> IF subs[s].group = g /\ Live(s)
                             THEN [subs[s] EXCEPT !.group = DefaultGroup] ELSE subs[s]]
  /\ UNCHANGED <<episodes, hasFeed, writer>>

(* The group is looked up before the subscriptions are changed.            *)
BeginRegroup(s, g) ==
  /\ writer.kind = "none" /\ Live(s) /\ g \in groups
  /\ writer' = [NoWriter EXCEPT !.kind = "regroup", !.sub = s, !.group = g]
  /\ UNCHANGED <<subs, episodes, hasFeed, groups>>

CommitRegroup ==
  /\ writer.kind = "regroup"
  /\ subs' = IF Live(writer.sub) THEN [subs EXCEPT ![writer.sub].group = writer.group] ELSE subs
  /\ writer' = NoWriter
  /\ UNCHANGED <<episodes, hasFeed, groups>>

SubsNext ==
  \/ \E s \in Subs :
       \/ RefreshProgress(s) \/ Find(s) \/ Own(s) \/ Disown(s)
       \/ \E offset \in {0, 1} : ProjectFeed(s, offset)
       \/ \E t \in 0 .. MaxTotal : CreateSubscription(s, t)
       \/ \E t \in 0 .. MaxTotal, g \in Groups : ImportSubscription(s, t, g)
       \/ \E kind \in Kinds : BeginSave(kind, s)
       \/ \E g \in Groups : BeginRegroup(s, g)
  \/ \E s \in Subs : Delete(s)
  \/ \E S \in SUBSET Subs : BatchDelete(S) \/ \E e \in BOOLEAN : BatchUpdateEnabled(S, e)
  \/ Save \/ SaveFails \/ CommitRegroup
  \/ \E g \in Groups : CreateGroup(g) \/ DeleteGroup(g)

SubsFairness == \A s \in Subs : WF_subVars(RefreshProgress(s))

SubsSpec == SubsInit /\ [][SubsNext]_subVars /\ SubsFairness

-----------------------------------------------------------------------------
(* Whatever is saved over the progress of a subscription, the checks of    *)
(* its feeds put it right again, as long as they are made: always sooner   *)
(* or later the columns say what the episodes say.                         *)
InStep(row, led) ==
  /\ row.current = WithOffset(led.owned, row.offset)
  /\ row.latest >= row.current
  /\ row.completed = Complete(row, led)

ProgressHeals == \A s \in Subs : []<>(Checked(s) => InStep(subs[s], episodes[s]))
=============================================================================
