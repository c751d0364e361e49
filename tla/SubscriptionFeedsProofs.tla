----------------------- MODULE SubscriptionFeedsProofs -----------------------
(* No item of a feed falls behind the watermark unseen, and the watermark   *)
(* only moves forward: for every number of feeds, mappings and items, in    *)
(* whatever order the checks of the scheduler and of the user end, as long  *)
(* as no edit of a feed overlaps with a check.                              *)
EXTENDS SubscriptionFeeds, WellFoundedInduction, TLAPS

USE FeedAssumption

-----------------------------------------------------------------------------
(* The latest time among the items a check was shown.                       *)
LEMMA LatestIsShown ==
  ASSUME NEW n \in Nat
  PROVE  LatestOf(n) \in 0 .. n
<1> DEFINE timed == (1 .. n) \ Untimed
<1>1. CASE timed = {}
  BY <1>1 DEF LatestOf
<1>2. CASE timed # {}
  <2> DEFINE gaps == {n - t : t \in timed}
  <2>1. gaps \subseteq Nat /\ gaps # {}
    BY <1>2
  <2> DEFINE less == {pair \in Nat \X Nat : pair[1] < pair[2]}
  <2>11. IsWellFoundedOn(less, Nat)
    BY NatLessThanWellFounded DEF OpToRel
  <2>2. PICK g \in gaps : \A h \in gaps : ~(<<h, g>> \in less)
    <3> HIDE DEF gaps, less
    <3> QED
      BY <2>1, <2>11, WFMin
  <2>3. \A h \in gaps : ~(h < g)
    BY <2>1, <2>2
  <2>4. PICK x \in timed : g = n - x
    OBVIOUS
  <2>5. \A y \in timed : x >= y
    <3> TAKE y \in timed
    <3>1. ~(n - y < n - x)
      BY <2>3, <2>4
    <3> QED
      BY <3>1
  <2>6. Max(timed) \in timed
    <3> HIDE DEF timed
    <3> QED
      BY <2>5 DEF Max
  <2> QED
    BY <1>2, <2>6 DEF LatestOf
<1> QED
  BY <1>1, <1>2

-----------------------------------------------------------------------------
(* The invariant: what the rows that a check has read still say.  A check   *)
(* decides with them until it ends, so the row of every feed it has left    *)
(* must be no further than the row in the table; an item it was shown and   *)
(* has no more to do with is judged, or was not wanted then and is not now. *)
FeedRow ==
  [state : {"unborn", "live", "deleted"}, mapping : Mappings, watermark : Nat,
   pending : BOOLEAN, enabled : BOOLEAN]

CheckState ==
  [pc : {"idle", "fetch", "items"}, snap : [Feeds -> FeedRow], left : SUBSET Feeds,
   feed : Feeds, fetched : Nat, todo : SUBSET Nat]

EditState ==
  [pc : {"idle", "editing"}, feed : Feeds, row : FeedRow, remapped : BOOLEAN, count : Nat]

FeedsTypeOK ==
  /\ feeds \in [Feeds -> FeedRow]
  /\ seen \subseteq Feeds \X Untimed
  /\ published \in [Feeds -> Nat]
  /\ check \in [Collectors -> CheckState]
  /\ editor \in EditState

Baselines == \A f \in Feeds : feeds[f].pending => feeds[f].watermark = 0

SeenAreBorn == \A f \in Feeds, t \in Untimed : <<f, t>> \in seen => feeds[f].state # "unborn"

UpToDate(row, f) ==
  /\ row.state = "live" /\ feeds[f].state # "unborn"
  /\ feeds[f].state = "live" =>
       /\ row.mapping = feeds[f].mapping
       /\ row.watermark <= feeds[f].watermark
       /\ feeds[f].pending => row.pending

Known(state) == state.left \cup (IF state.pc = "items" THEN {state.feed} ELSE {})

ItemsKept(c, state) ==
  \A t \in (1 .. state.fetched) \ Untimed :
    Wanted(c, state.snap[state.feed], t) =>
      t \in state.todo \/ <<state.feed, state.snap[state.feed].mapping, t>> \in judged

CheckOK(c, state) ==
  state.pc # "idle" =>
    /\ \A f \in Known(state) : UpToDate(state.snap[f], f)
    /\ state.pc = "items" => ItemsKept(c, state)

EditOK(edit) ==
  edit.pc = "editing" =>
    /\ Idle
    /\ edit.row.state = "live" /\ feeds[edit.feed].state # "unborn"
    /\ feeds[edit.feed].state = "live" =>
         IF edit.remapped
         THEN /\ edit.row.pending /\ edit.row.watermark = 0
              /\ edit.row.mapping # feeds[edit.feed].mapping
         ELSE /\ edit.row.mapping = feeds[edit.feed].mapping
              /\ edit.row.watermark = feeds[edit.feed].watermark
              /\ edit.row.pending = feeds[edit.feed].pending

FeedInv ==
  /\ FeedsTypeOK /\ Baselines /\ SeenAreBorn
  /\ \A c \in Collectors : CheckOK(c, check[c])
  /\ EditOK(editor)
  /\ NothingPassedOver

-----------------------------------------------------------------------------
LEMMA UnbornType == Unborn \in FeedRow /\ Unborn.state = "unborn" /\ Unborn.watermark = 0
<1>1. (CHOOSE m \in Mappings : TRUE) \in Mappings
  OBVIOUS
<1> QED
  BY <1>1 DEF Unborn, FeedRow

LEMMA NoCheckType == NoCheck \in CheckState /\ NoCheck.pc = "idle"
<1>1. (CHOOSE f \in Feeds : TRUE) \in Feeds
  OBVIOUS
<1>2. [f \in Feeds |-> Unborn] \in [Feeds -> FeedRow]
  BY UnbornType
<1> QED
  BY <1>1, <1>2 DEF NoCheck, CheckState

LEMMA NoEditType ==
  ASSUME NEW n \in Nat PROVE NoEdit(n) \in EditState /\ NoEdit(n).pc = "idle"
<1>1. (CHOOSE f \in Feeds : TRUE) \in Feeds
  OBVIOUS
<1> QED
  BY <1>1, UnbornType DEF NoEdit, EditState

LEMMA FeedsInitSafe == FeedsInit => FeedInv
<1> SUFFICES ASSUME FeedsInit PROVE FeedInv
  OBVIOUS
<1>1. FeedsTypeOK
  <2>1. feeds \in [Feeds -> FeedRow]
    BY UnbornType DEF FeedsInit
  <2>2. check \in [Collectors -> CheckState]
    BY NoCheckType DEF FeedsInit
  <2>3. editor \in EditState
    BY NoEditType DEF FeedsInit
  <2> QED
    BY <2>1, <2>2, <2>3 DEF FeedsInit, FeedsTypeOK
<1>2. Baselines /\ SeenAreBorn /\ NothingPassedOver
  BY UnbornType DEF FeedsInit, Baselines, SeenAreBorn, NothingPassedOver
<1>3. \A c \in Collectors : CheckOK(c, check[c])
  BY NoCheckType DEF FeedsInit, CheckOK
<1>4. EditOK(editor)
  BY NoEditType DEF FeedsInit, EditOK
<1> QED
  BY <1>1, <1>2, <1>3, <1>4 DEF FeedInv

-----------------------------------------------------------------------------
(* How the row of a feed may change while checks run.                       *)
Later(f) ==
  /\ feeds'[f].state = "unborn" => feeds[f].state = "unborn"
  /\ feeds'[f].state = "live" /\ feeds[f].state # "unborn" =>
       /\ feeds[f].state = "live"
       /\ feeds'[f].mapping = feeds[f].mapping
       /\ feeds'[f].watermark >= feeds[f].watermark
       /\ feeds'[f].pending => feeds[f].pending

Onwards == (\A f \in Feeds : Later(f)) /\ judged \subseteq judged'

LEMMA SameFeeds == UNCHANGED feeds /\ FeedsTypeOK => \A f \in Feeds : Later(f)
BY DEF Later, FeedsTypeOK, FeedRow

LEMMA CheckKept ==
  ASSUME FeedsTypeOK, FeedsTypeOK', Onwards, NEW c \in Collectors, NEW state \in CheckState,
         CheckOK(c, state)
  PROVE  CheckOK(c, state)'
<1>1. ASSUME state.pc # "idle", NEW f \in Known(state)
      PROVE  UpToDate(state.snap[f], f)'
  <2>1. f \in Feeds /\ UpToDate(state.snap[f], f) /\ state.snap[f] \in FeedRow
    BY <1>1 DEF CheckOK, Known, CheckState
  <2>2. feeds[f] \in FeedRow /\ feeds'[f] \in FeedRow /\ Later(f)
    BY <2>1 DEF FeedsTypeOK, Onwards
  <2> QED
    BY <2>1, <2>2 DEF UpToDate, Later, FeedRow
<1>2. ASSUME state.pc = "items"
      PROVE  ItemsKept(c, state)'
  BY <1>2 DEF CheckOK, ItemsKept, Onwards
<1> QED
  BY <1>1, <1>2 DEF CheckOK

(* A step of a check: the others go on with what they have read.            *)
LEMMA CheckFrame ==
  ASSUME FeedInv, NEW c \in Collectors, NEW state \in CheckState, CheckGoes(c, state),
         editor.pc # "editing" \/ state.pc = "idle", editor' = editor, published' = published,
         feeds' \in [Feeds -> FeedRow], seen' \subseteq Feeds \X Untimed,
         Onwards, Baselines', SeenAreBorn', NothingPassedOver',
         CheckOK(c, state)',
         editor.pc = "editing" => UNCHANGED feeds
  PROVE  FeedInv'
<1>1. FeedsTypeOK /\ EditOK(editor)
  BY DEF FeedInv
<1>2. check' \in [Collectors -> CheckState] /\ check'[c] = state
      /\ \A d \in Collectors \ {c} : check'[d] = check[d]
  BY <1>1 DEF CheckGoes, FeedsTypeOK
<1>3. FeedsTypeOK'
  BY <1>1, <1>2 DEF FeedsTypeOK
<1>4. ASSUME NEW d \in Collectors
      PROVE  CheckOK(d, check[d])'
  <2>1. CASE d = c
    BY <1>2, <2>1 DEF CheckOK, ItemsKept
  <2>2. CASE d # c
    <3>1. PICK s \in CheckState : s = check[d] /\ CheckOK(d, s)
      BY <1>1 DEF FeedsTypeOK, FeedInv
    <3>2. CheckOK(d, s)'
      BY <1>1, <1>3, <3>1, CheckKept
    <3> QED
      BY <1>2, <2>2, <3>1, <3>2 DEF CheckOK, ItemsKept
  <2> QED
    BY <2>1, <2>2
<1>5. EditOK(editor)'
  <2>1. CASE editor.pc # "editing"
    BY <2>1 DEF EditOK
  <2>2. CASE editor.pc = "editing"
    <3>1. feeds' = feeds /\ state.pc = "idle"
      BY <2>2
    <3>2. Idle'
      BY <1>1, <1>2, <2>2, <3>1 DEF Idle, EditOK
    <3> QED
      BY <1>1, <2>2, <3>1, <3>2 DEF EditOK
  <2> QED
    BY <2>1, <2>2
<1> QED
  BY <1>3, <1>4, <1>5 DEF FeedInv

-----------------------------------------------------------------------------
(* The checks.                                                              *)
LEMMA QuietFrame ==
  ASSUME FeedInv, NEW c \in Collectors, NEW state \in CheckState, CheckGoes(c, state),
         editor.pc # "editing" \/ state.pc = "idle", CheckOK(c, state),
         UNCHANGED <<feeds, seen, published, judged, editor>>
  PROVE  FeedInv'
<1>1. FeedsTypeOK /\ Baselines /\ SeenAreBorn /\ NothingPassedOver
  BY DEF FeedInv
<1>2. /\ feeds' = feeds /\ seen' = seen /\ published' = published /\ judged' = judged
      /\ editor' = editor
  OBVIOUS
<1>3. Onwards
  BY <1>1, <1>2, SameFeeds DEF Onwards
<1>4. Baselines' /\ SeenAreBorn' /\ NothingPassedOver'
  BY <1>1, <1>2 DEF Baselines, SeenAreBorn, NothingPassedOver
<1>5. CheckOK(c, state)'
  BY <1>2 DEF CheckOK, Known, UpToDate, ItemsKept
<1>6. feeds' \in [Feeds -> FeedRow] /\ seen' \subseteq Feeds \X Untimed
  BY <1>1, <1>2 DEF FeedsTypeOK
<1> QED
  BY <1>2, <1>3, <1>4, <1>5, <1>6, CheckFrame

(* While a check runs no edit is in progress.                               *)
LEMMA Alone ==
  ASSUME FeedInv, NEW c \in Collectors, check[c].pc # "idle"
  PROVE  /\ editor.pc # "editing"
         /\ check[c] \in CheckState /\ CheckOK(c, check[c])
BY DEF FeedInv, EditOK, Idle, FeedsTypeOK

LEMMA OnwardState ==
  ASSUME FeedInv, NEW c \in Collectors, check[c].pc # "idle", Onward(c)
  PROVE  \E state \in CheckState :
           CheckGoes(c, state) /\ CheckOK(c, state)
<1>1. check[c] \in CheckState /\ CheckOK(c, check[c])
  BY Alone
<1>2. CASE check[c].left = {}
  BY <1>2, NoCheckType DEF Onward, CheckOK
<1>3. CASE check[c].left # {}
  <2> DEFINE state == [check[c] EXCEPT !.pc = "fetch"]
  <2>1. /\ state \in CheckState /\ state.pc = "fetch" /\ state.left = check[c].left
        /\ state.snap = check[c].snap
    BY <1>1 DEF CheckState
  <2>2. CheckGoes(c, state)
    BY <1>3 DEF Onward
  <2> HIDE DEF state
  <2>3. CheckOK(c, state)
    BY <1>1, <2>1 DEF CheckOK, Known
  <2> QED
    BY <2>1, <2>2, <2>3
<1> QED
  BY <1>2, <1>3

LEMMA StartSafe ==
  ASSUME EditsAlone, FeedInv, NEW c \in Collectors, StartCheck(c)
  PROVE  FeedInv'
<1>1. feeds \in [Feeds -> FeedRow] /\ check[c] \in CheckState
  BY DEF FeedInv, FeedsTypeOK
<1> DEFINE state == [check[c] EXCEPT !.pc = "fetch", !.snap = feeds, !.left = EnabledFeeds]
<1>2. /\ state \in CheckState /\ state.pc = "fetch" /\ state.snap = feeds
      /\ state.left = EnabledFeeds
  BY <1>1 DEF CheckState, EnabledFeeds
<1>3. /\ CheckGoes(c, state) /\ editor.pc # "editing"
      /\ UNCHANGED <<feeds, seen, published, judged, editor>>
  BY DEF StartCheck
<1> HIDE DEF state
<1>4. ASSUME NEW f \in Known(state)
      PROVE  UpToDate(state.snap[f], f)
  <2>1. f \in Feeds /\ feeds[f].state = "live" /\ feeds[f] \in FeedRow
    BY <1>1, <1>2, <1>4 DEF Known, EnabledFeeds
  <2> QED
    BY <1>2, <2>1 DEF UpToDate, FeedRow
<1>5. CheckOK(c, state)
  BY <1>2, <1>4 DEF CheckOK
<1> QED
  BY <1>2, <1>3, <1>5, QuietFrame

LEMMA FetchSafe ==
  ASSUME FeedInv, NEW c \in Collectors, NEW f \in Feeds, Fetch(c, f) \/ FetchFails(c, f)
  PROVE  FeedInv'
<1>1. /\ check[c].pc = "fetch" /\ f \in check[c].left
      /\ UNCHANGED <<feeds, seen, published, judged, editor>>
  BY DEF Fetch, FetchFails
<1>2. check[c] \in CheckState /\ CheckOK(c, check[c]) /\ editor.pc # "editing"
  BY <1>1, Alone
<1>3. published[f] \in Nat
  BY DEF FeedInv, FeedsTypeOK
<1>4. CASE Fetch(c, f)
  <2> DEFINE todo == {t \in 1 .. published[f] : Wanted(c, check[c].snap[f], t)}
             state == [check[c] EXCEPT !.pc = "items", !.left = @ \ {f}, !.feed = f,
                         !.fetched = published[f], !.todo = todo]
  <2>1. todo \in SUBSET Nat
    BY <1>3
  <2>2. CheckGoes(c, state)
    BY <1>4 DEF Fetch
  <2>3. \A t \in 1 .. published[f] : Wanted(c, check[c].snap[f], t) => t \in todo
    OBVIOUS
  <2> HIDE DEF todo
  <2>4. /\ state \in CheckState /\ state.pc = "items" /\ state.left = check[c].left \ {f}
        /\ state.feed = f /\ state.snap = check[c].snap /\ state.fetched = published[f]
        /\ state.todo = todo
    BY <1>2, <1>3, <2>1 DEF CheckState
  <2> HIDE DEF state
  <2>5. Known(state) \subseteq Known(check[c])
    BY <1>1, <2>4 DEF Known
  <2>6. ItemsKept(c, state)
    BY <2>3, <2>4 DEF ItemsKept
  <2>7. CheckOK(c, state)
    BY <1>1, <1>2, <2>4, <2>5, <2>6 DEF CheckOK
  <2> QED
    BY <1>1, <1>2, <2>2, <2>4, <2>7, QuietFrame
<1>5. CASE FetchFails(c, f)
  <2>1. CASE CheckGoes(c, NoCheck)
    BY <1>1, <2>1, NoCheckType, QuietFrame DEF CheckOK
  <2>2. CASE CheckGoes(c, [check[c] EXCEPT !.left = @ \ {f}])
    <3> DEFINE state == [check[c] EXCEPT !.left = @ \ {f}]
    <3>1. /\ state \in CheckState /\ state.pc = "fetch" /\ state.left = check[c].left \ {f}
          /\ state.snap = check[c].snap
      BY <1>1, <1>2 DEF CheckState
    <3>2. CheckGoes(c, state)
      BY <2>2
    <3> HIDE DEF state
    <3>3. CheckOK(c, state)
      BY <1>1, <1>2, <3>1 DEF CheckOK, Known
    <3> QED
      BY <1>1, <1>2, <3>1, <3>2, <3>3, QuietFrame
  <2> QED
    BY <1>5, <2>1, <2>2 DEF FetchFails
<1> QED
  BY <1>4, <1>5

(* An item leaves the list once it is judged, or because it counts as seen, *)
(* which an item with a time never does.                                    *)
LEMMA ItemSafe ==
  ASSUME FeedInv, NEW c \in Collectors, NEW t \in Items, PassOver(c, t) \/ JudgeItem(c, t)
  PROVE  FeedInv'
<1> DEFINE f == check[c].feed
           m == check[c].snap[f].mapping
<1>1. /\ check[c].pc = "items" /\ t \in check[c].todo
      /\ CheckGoes(c, [check[c] EXCEPT !.todo = @ \ {t}])
      /\ UNCHANGED <<feeds, published, editor>>
  BY DEF PassOver, JudgeItem
<1>2. check[c] \in CheckState /\ CheckOK(c, check[c]) /\ editor.pc # "editing"
  BY <1>1, Alone
<1>3. PICK state \in CheckState :
        /\ CheckGoes(c, state) /\ state.pc = "items" /\ state.left = check[c].left
        /\ state.feed = f /\ state.snap = check[c].snap /\ state.fetched = check[c].fetched
        /\ state.todo = check[c].todo \ {t}
  <2> DEFINE s == [check[c] EXCEPT !.todo = @ \ {t}]
  <2>1. /\ s \in CheckState /\ s.pc = "items" /\ s.left = check[c].left
        /\ s.feed = f /\ s.snap = check[c].snap /\ s.fetched = check[c].fetched
        /\ s.todo = check[c].todo \ {t}
    BY <1>1, <1>2 DEF CheckState
  <2> HIDE DEF s
  <2> QED
    BY <1>1, <2>1 DEF s
<1>4. /\ FeedsTypeOK /\ Baselines /\ SeenAreBorn /\ NothingPassedOver
      /\ f \in Feeds
  BY <1>2 DEF FeedInv, CheckState
<1>5. /\ judged \subseteq judged'
      /\ t \in Untimed \/ <<f, m, t>> \in judged'
  <2>1. CASE PassOver(c, t)
    BY <1>4, <2>1 DEF PassOver, PassedOver, FeedsTypeOK
  <2>2. CASE JudgeItem(c, t)
    BY <2>2 DEF JudgeItem, Judged
  <2> QED
    BY <2>1, <2>2
<1>6. \A g \in Feeds, u \in Untimed :
        <<g, u>> \in seen' => <<g, u>> \in seen \/ (g = f /\ u = t /\ <<f, m, t>> \in judged')
  BY DEF PassOver, JudgeItem, Judged
<1>7. seen' \subseteq Feeds \X Untimed
  BY <1>4 DEF PassOver, JudgeItem, FeedsTypeOK
<1>8. UpToDate(check[c].snap[f], f)
  BY <1>1, <1>2 DEF CheckOK, Known
<1>9. feeds' = feeds /\ Onwards
  BY <1>1, <1>4, <1>5, SameFeeds DEF Onwards
<1>10. Baselines'
  BY <1>4, <1>9 DEF Baselines
<1>11. SeenAreBorn'
  BY <1>4, <1>6, <1>8, <1>9 DEF SeenAreBorn, UpToDate
<1>12. NothingPassedOver'
  BY <1>4, <1>5, <1>6, <1>8, <1>9 DEF NothingPassedOver, UpToDate
<1>13. CheckOK(c, check[c]) /\ check[c].pc = "items"
  BY <1>1, <1>2
<1>14. \A g \in Known(state) : UpToDate(state.snap[g], g)'
  <2>1. Known(state) = Known(check[c])
    BY <1>1, <1>3 DEF Known
  <2>2. \A g \in Known(state) : UpToDate(state.snap[g], g)
    BY <1>3, <1>13, <2>1 DEF CheckOK
  <2>3. \A row, g : UpToDate(row, g) => UpToDate(row, g)'
    BY <1>9 DEF UpToDate
  <2> HIDE DEF UpToDate
  <2> QED
    BY <2>2, <2>3
<1>15. ItemsKept(c, state)'
  <2>1. ItemsKept(c, check[c])
    BY <1>13 DEF CheckOK
  <2> QED
    BY <1>3, <1>5, <2>1 DEF ItemsKept
<1>16. CheckOK(c, state)'
  BY <1>14, <1>15 DEF CheckOK
<1> QED
  BY <1>1, <1>2, <1>3, <1>4, <1>7, <1>9, <1>10, <1>11, <1>12, <1>16, CheckFrame DEF FeedsTypeOK

LEMMA FailedItemSafe ==
  ASSUME FeedInv, NEW c \in Collectors, NEW t \in Items, JudgeFails(c, t)
  PROVE  FeedInv'
<1>1. /\ check[c].pc = "items" /\ Onward(c) /\ judged \subseteq judged'
      /\ UNCHANGED <<feeds, seen, published, editor>>
  BY DEF JudgeFails, Judged
<1>2. editor.pc # "editing"
  BY <1>1, Alone
<1>3. PICK state \in CheckState : CheckGoes(c, state) /\ CheckOK(c, state)
  BY <1>1, OnwardState
<1>4. FeedsTypeOK /\ Baselines /\ SeenAreBorn /\ NothingPassedOver
  BY DEF FeedInv
<1>5. feeds' = feeds /\ Onwards
  BY <1>1, <1>4, SameFeeds DEF Onwards
<1>6. Baselines' /\ SeenAreBorn' /\ NothingPassedOver'
  BY <1>1, <1>4 DEF Baselines, SeenAreBorn, NothingPassedOver
<1>7. CheckOK(c, state)'
  <2>1. \A row, g : UpToDate(row, g) => UpToDate(row, g)'
    BY <1>5 DEF UpToDate
  <2>2. ItemsKept(c, state) => ItemsKept(c, state)'
    BY <1>1 DEF ItemsKept
  <2> HIDE DEF UpToDate, ItemsKept
  <2> QED
    BY <1>3, <2>1, <2>2 DEF CheckOK
<1> QED
  BY <1>1, <1>2, <1>3, <1>4, <1>5, <1>6, <1>7, CheckFrame DEF FeedsTypeOK

(* A check that ends writes the latest time it was shown: everything up to  *)
(* it has been judged, or lay behind the watermark before.                  *)
LEMMA CheckedRow ==
  ASSUME NEW row \in FeedRow, NEW latest \in Nat, NEW pending \in BOOLEAN
  PROVE  LET new == Checked(row, latest, pending) IN
         /\ new \in FeedRow
         /\ new.state = row.state /\ new.mapping = row.mapping /\ new.enabled = row.enabled
         /\ new.watermark >= row.watermark
         /\ new.watermark = row.watermark \/ new.watermark = latest
         /\ new.pending => row.pending /\ ~pending
         /\ row.pending /\ ~pending => new.pending
<1>1. PICK w \in Nat : w = IF latest > row.watermark THEN latest ELSE row.watermark
  BY DEF FeedRow
<1>2. PICK p \in BOOLEAN : p = (row.pending /\ ~pending)
  OBVIOUS
<1>3. Checked(row, latest, pending) = [[row EXCEPT !.watermark = w] EXCEPT !.pending = p]
  BY <1>1, <1>2 DEF Checked, FeedRow
<1>4. [row EXCEPT !.watermark = w] \in FeedRow /\ [row EXCEPT !.watermark = w].watermark = w
  BY DEF FeedRow
<1>5. ASSUME NEW r \in FeedRow
      PROVE  /\ [r EXCEPT !.pending = p] \in FeedRow
             /\ [r EXCEPT !.pending = p].pending = p
             /\ [r EXCEPT !.pending = p].state = r.state
             /\ [r EXCEPT !.pending = p].mapping = r.mapping
             /\ [r EXCEPT !.pending = p].enabled = r.enabled
             /\ [r EXCEPT !.pending = p].watermark = r.watermark
  BY <1>5 DEF FeedRow
<1>6. /\ [row EXCEPT !.watermark = w].state = row.state
      /\ [row EXCEPT !.watermark = w].mapping = row.mapping
      /\ [row EXCEPT !.watermark = w].enabled = row.enabled
  BY DEF FeedRow
<1>7. w >= row.watermark /\ (w = row.watermark \/ w = latest)
  BY <1>1 DEF FeedRow
<1> DEFINE new == Checked(row, latest, pending)
<1>8. /\ new \in FeedRow /\ new.pending = p /\ new.watermark = w
      /\ new.state = row.state /\ new.mapping = row.mapping /\ new.enabled = row.enabled
  BY <1>3, <1>4, <1>5, <1>6
<1>9. (new.pending => row.pending /\ ~pending) /\ (row.pending /\ ~pending => new.pending)
  <2>1. new.pending = (row.pending /\ ~pending)
    BY <1>2, <1>8
  <2> QED
    BY <2>1
<1> QED
  BY <1>7, <1>8, <1>9

LEMMA FinishSafe ==
  ASSUME FeedInv, NEW c \in Collectors, FinishFeed(c)
  PROVE  FeedInv' /\ \A g \in Feeds : Later(g)
<1>1. /\ check[c].pc = "items" /\ check[c].todo = {} /\ Onward(c)
      /\ UNCHANGED <<seen, published, judged, editor>>
  BY DEF FinishFeed
<1>2. editor.pc # "editing" /\ check[c] \in CheckState /\ CheckOK(c, check[c])
  BY <1>1, Alone
<1>3. FeedsTypeOK /\ Baselines /\ SeenAreBorn /\ NothingPassedOver
  BY DEF FeedInv
<1>4. PICK state \in CheckState : CheckGoes(c, state) /\ CheckOK(c, state)
  BY <1>1, OnwardState
<1>5. PICK f \in Feeds : f = check[c].feed
  BY <1>2 DEF CheckState
<1>6. PICK n \in Nat : n = check[c].fetched
  BY <1>2 DEF CheckState
<1>7. PICK read \in FeedRow : read = check[c].snap[f]
  BY <1>2 DEF CheckState
<1>8. PICK latest \in 0 .. n : latest = LatestOf(n)
  BY LatestIsShown
<1>9. UpToDate(read, f)
  BY <1>1, <1>2, <1>5, <1>7 DEF CheckOK, Known
<1>10. \A t \in (1 .. n) \ Untimed : Wanted(c, read, t) => <<f, read.mapping, t>> \in judged
  BY <1>1, <1>2, <1>5, <1>6, <1>7 DEF CheckOK, ItemsKept
<1>11. feeds' = IF feeds[f].state = "live"
                THEN [feeds EXCEPT ![f] = Checked(feeds[f], latest, read.pending)]
                ELSE feeds
  BY <1>5, <1>6, <1>7, <1>8 DEF FinishFeed
<1>12. CASE feeds[f].state # "live"
  <2>1. UNCHANGED <<feeds, seen, published, judged, editor>>
    BY <1>1, <1>11, <1>12
  <2>2. FeedInv'
    BY <1>2, <1>4, <2>1, QuietFrame
  <2> QED
    BY <1>3, <2>1, <2>2, SameFeeds
<1>13. CASE feeds[f].state = "live"
  <2>1. PICK row \in FeedRow : row = feeds[f]
    BY <1>3 DEF FeedsTypeOK
  <2>2. PICK new \in FeedRow :
          /\ new = Checked(row, latest, read.pending)
          /\ new.state = row.state /\ new.mapping = row.mapping
          /\ new.watermark >= row.watermark
          /\ new.watermark = row.watermark \/ new.watermark = latest
          /\ new.pending => row.pending /\ ~read.pending
    <3>1. read.pending \in BOOLEAN /\ latest \in Nat
      BY DEF FeedRow
    <3> QED
      BY <2>1, <3>1, CheckedRow
  <2>3. feeds' = [feeds EXCEPT ![f] = new]
    BY <1>11, <1>13, <2>1, <2>2
  <2>4. feeds'[f] = new /\ \A g \in Feeds \ {f} : feeds'[g] = feeds[g]
    BY <1>3, <2>3 DEF FeedsTypeOK
  <2>5. feeds' \in [Feeds -> FeedRow]
    BY <1>3, <2>3 DEF FeedsTypeOK
  <2>6. \A g \in Feeds : Later(g)
    <3>1. Later(f)
      BY <1>13, <2>1, <2>2, <2>4 DEF Later
    <3>2. ASSUME NEW g \in Feeds \ {f}
          PROVE  Later(g)
      BY <1>3, <2>4 DEF Later, FeedsTypeOK, FeedRow
    <3> QED
      BY <3>1, <3>2
  <2>7. row.pending => read.pending
    BY <1>9, <1>13, <2>1 DEF UpToDate
  <2>8. ~new.pending
    BY <2>2, <2>7
  <2>9. Baselines'
    BY <1>3, <2>4, <2>8 DEF Baselines
  <2>10. SeenAreBorn'
    BY <1>1, <1>3, <1>13, <2>1, <2>2, <2>4 DEF SeenAreBorn
  <2>11. ASSUME NEW t \in Items \ Untimed, t <= new.watermark
         PROVE  <<f, new.mapping, t>> \in judged
    <3>1. read.mapping = new.mapping /\ read.watermark <= row.watermark
      BY <1>9, <1>13, <2>1, <2>2 DEF UpToDate
    <3>2. ASSUME t <= row.watermark, ~row.pending
          PROVE  <<f, new.mapping, t>> \in judged
      BY <1>3, <1>13, <2>1, <2>2, <3>2 DEF NothingPassedOver
    <3>3. t \in Nat /\ t >= 1 /\ row.watermark \in Nat /\ read.watermark \in Nat
      BY DEF Items, FeedRow
    <3>4. CASE Wanted(c, read, t) /\ t <= latest
      <4>1. t \in (1 .. n) \ Untimed
        BY <3>3, <3>4
      <4> QED
        BY <1>10, <3>1, <3>4, <4>1
    <3>5. CASE ~Wanted(c, read, t)
      <4>1. ~read.pending /\ t <= read.watermark
        BY <3>3, <3>5 DEF Wanted
      <4>2. t <= row.watermark
        BY <3>1, <3>3, <4>1
      <4> QED
        BY <2>7, <3>2, <4>1, <4>2
    <3>6. CASE ~(t <= latest)
      <4>1. t <= row.watermark
        BY <2>2, <2>11, <3>6
      <4>2. ~row.pending
        BY <1>3, <2>1, <3>3, <4>1 DEF Baselines
      <4> QED
        BY <3>2, <4>1, <4>2
    <3> QED
      BY <3>4, <3>5, <3>6
  <2>12. NothingPassedOver'
    BY <1>1, <1>3, <1>13, <2>1, <2>2, <2>4, <2>11 DEF NothingPassedOver
  <2>13. Onwards
    BY <1>1, <2>6 DEF Onwards
  <2>14. FeedsTypeOK'
    <3>1. check' \in [Collectors -> CheckState]
      BY <1>3, <1>4 DEF CheckGoes, FeedsTypeOK
    <3> QED
      BY <1>1, <1>3, <2>5, <3>1 DEF FeedsTypeOK
  <2>15. CheckOK(c, state)'
    BY <1>3, <1>4, <2>13, <2>14, CheckKept
  <2>16. seen' \subseteq Feeds \X Untimed
    BY <1>1, <1>3 DEF FeedsTypeOK
  <2>17. FeedInv'
    BY <1>1, <1>2, <1>4, <2>5, <2>9, <2>10, <2>12, <2>13, <2>15, <2>16, CheckFrame
  <2> QED
    BY <2>6, <2>17
<1> QED
  BY <1>12, <1>13

LEMMA CheckSafe ==
  ASSUME EditsAlone, FeedInv, NEW c \in Collectors, Check(c)
  PROVE  FeedInv' /\ \A f \in Feeds : Later(f)
<1>1. FeedsTypeOK
  BY DEF FeedInv
<1>2. ASSUME FeedInv', UNCHANGED feeds
      PROVE  FeedInv' /\ \A f \in Feeds : Later(f)
  BY <1>1, <1>2, SameFeeds
<1>3. CASE StartCheck(c)
  BY <1>2, <1>3, StartSafe DEF StartCheck
<1>4. CASE Abandon(c)
  BY <1>2, <1>4, NoCheckType, QuietFrame DEF Abandon, CheckOK
<1>5. CASE FinishFeed(c)
  BY <1>5, FinishSafe
<1>6. CASE FinishFails(c)
  <2>1. check[c].pc # "idle" /\ Onward(c) /\ UNCHANGED <<feeds, seen, published, judged, editor>>
    BY <1>6 DEF FinishFails
  <2>2. PICK state \in CheckState : CheckGoes(c, state) /\ CheckOK(c, state)
    BY <2>1, OnwardState
  <2>3. editor.pc # "editing"
    BY <2>1, Alone
  <2> QED
    BY <1>2, <2>1, <2>2, <2>3, QuietFrame
<1>7. ASSUME NEW f \in Feeds, Fetch(c, f) \/ FetchFails(c, f)
      PROVE  FeedInv' /\ \A g \in Feeds : Later(g)
  BY <1>2, <1>7, FetchSafe DEF Fetch, FetchFails
<1>8. ASSUME NEW t \in Items, PassOver(c, t) \/ JudgeItem(c, t)
      PROVE  FeedInv' /\ \A g \in Feeds : Later(g)
  BY <1>2, <1>8, ItemSafe DEF PassOver, JudgeItem
<1>9. ASSUME NEW t \in Items, JudgeFails(c, t)
      PROVE  FeedInv' /\ \A g \in Feeds : Later(g)
  BY <1>2, <1>9, FailedItemSafe DEF JudgeFails
<1> QED
  BY <1>3, <1>4, <1>5, <1>6, <1>7, <1>8, <1>9 DEF Check

-----------------------------------------------------------------------------
(* The source and the user.                                                 *)
Forward(f) ==
  /\ feeds[f].state = "live" /\ feeds'[f].state = "live"
  /\ feeds[f].mapping = feeds'[f].mapping
  => /\ feeds'[f].watermark >= feeds[f].watermark
     /\ feeds'[f].pending => feeds[f].pending

LEMMA LaterIsForward == ASSUME NEW f \in Feeds, Later(f) PROVE Forward(f)
BY DEF Later, Forward

LEMMA EditFrame ==
  ASSUME FeedInv, FeedsTypeOK', \A f \in Feeds : Later(f), UNCHANGED <<judged, check>>,
         Baselines', SeenAreBorn', NothingPassedOver', EditOK(editor)'
  PROVE  FeedInv' /\ \A f \in Feeds : Forward(f)
<1>1. FeedsTypeOK /\ Onwards
  BY DEF FeedInv, Onwards
<1>2. ASSUME NEW c \in Collectors
      PROVE  CheckOK(c, check[c])'
  <2>1. PICK state \in CheckState : state = check[c] /\ CheckOK(c, state)
    BY <1>1 DEF FeedInv, FeedsTypeOK
  <2>2. CheckOK(c, state)'
    BY <1>1, <2>1, CheckKept
  <2> QED
    BY <2>1, <2>2 DEF CheckOK, ItemsKept
<1> QED
  BY <1>2, LaterIsForward DEF FeedInv

LEMMA PublishSafe ==
  ASSUME FeedInv, NEW f \in Feeds, Publish(f)
  PROVE  FeedInv' /\ \A g \in Feeds : Forward(g)
<1>1. FeedsTypeOK /\ Baselines /\ SeenAreBorn /\ NothingPassedOver /\ EditOK(editor)
  BY DEF FeedInv
<1>2. /\ feeds' = feeds /\ seen' = seen /\ judged' = judged /\ check' = check
      /\ editor' = editor
  BY DEF Publish
<1>3. published' \in [Feeds -> Nat]
  <2>1. published[f] + 1 \in Nat
    BY <1>1 DEF FeedsTypeOK
  <2> QED
    BY <1>1, <2>1 DEF Publish, FeedsTypeOK
<1>4. FeedsTypeOK' /\ \A g \in Feeds : Later(g)
  BY <1>1, <1>2, <1>3, SameFeeds DEF FeedsTypeOK
<1>5. Baselines' /\ SeenAreBorn' /\ NothingPassedOver' /\ EditOK(editor)'
  BY <1>1, <1>2 DEF Baselines, SeenAreBorn, NothingPassedOver, EditOK, Idle
<1> QED
  BY <1>2, <1>4, <1>5, EditFrame

LEMMA CreateSafe ==
  ASSUME FeedInv, NEW f \in Feeds, NEW m \in Mappings, NEW on \in BOOLEAN, CreateFeed(f, m, on)
  PROVE  FeedInv' /\ \A g \in Feeds : Forward(g)
<1>1. FeedsTypeOK /\ Baselines /\ SeenAreBorn /\ NothingPassedOver /\ EditOK(editor)
  BY DEF FeedInv
<1>2. PICK row \in FeedRow :
        /\ row = Created(m, on) /\ row.state = "live" /\ row.pending /\ row.watermark = 0
  <2>1. /\ Created(m, on) \in FeedRow /\ Created(m, on).state = "live"
        /\ Created(m, on).pending /\ Created(m, on).watermark = 0
    BY DEF Created, FeedRow
  <2> QED
    BY <2>1
<1>3. /\ feeds[f].state = "unborn" /\ feeds'[f] = row
      /\ \A g \in Feeds \ {f} : feeds'[g] = feeds[g]
      /\ feeds' \in [Feeds -> FeedRow]
      /\ UNCHANGED <<seen, published, judged, check, editor>>
  BY <1>1, <1>2 DEF CreateFeed, FeedsTypeOK
<1>4. FeedsTypeOK'
  BY <1>1, <1>3 DEF FeedsTypeOK
<1>5. \A g \in Feeds : Later(g)
  <2>1. Later(f)
    BY <1>2, <1>3 DEF Later
  <2>2. ASSUME NEW g \in Feeds \ {f}
        PROVE  Later(g)
    BY <1>1, <1>3 DEF Later, FeedsTypeOK, FeedRow
  <2> QED
    BY <2>1, <2>2
<1>6. Baselines'
  BY <1>1, <1>2, <1>3 DEF Baselines
<1>7. SeenAreBorn'
  BY <1>1, <1>2, <1>3 DEF SeenAreBorn
<1>8. NothingPassedOver'
  <2>1. \A t \in Untimed : <<f, t>> \notin seen'
    BY <1>1, <1>3 DEF SeenAreBorn
  <2> QED
    BY <1>1, <1>2, <1>3, <2>1 DEF NothingPassedOver
<1>9. EditOK(editor)'
  <2>1. editor.pc = "editing" => editor.feed # f /\ editor.feed \in Feeds
    BY <1>1, <1>3 DEF EditOK, FeedsTypeOK, EditState
  <2> QED
    BY <1>1, <1>3, <2>1 DEF EditOK, Idle
<1> QED
  BY <1>3, <1>4, <1>5, <1>6, <1>7, <1>8, <1>9, EditFrame

LEMMA DeleteSafe ==
  ASSUME FeedInv, NEW f \in Feeds, DeleteFeed(f)
  PROVE  FeedInv' /\ \A g \in Feeds : Forward(g)
<1>1. FeedsTypeOK /\ Baselines /\ SeenAreBorn /\ NothingPassedOver /\ EditOK(editor)
  BY DEF FeedInv
<1>2. PICK row \in FeedRow :
        /\ row = [feeds[f] EXCEPT !.state = "deleted"] /\ row.state = "deleted"
        /\ row.pending = feeds[f].pending /\ row.watermark = feeds[f].watermark
  <2>1. feeds[f] \in FeedRow
    BY <1>1 DEF FeedsTypeOK
  <2>2. ASSUME NEW r \in FeedRow
        PROVE  /\ [r EXCEPT !.state = "deleted"] \in FeedRow
               /\ [r EXCEPT !.state = "deleted"].state = "deleted"
               /\ [r EXCEPT !.state = "deleted"].pending = r.pending
               /\ [r EXCEPT !.state = "deleted"].watermark = r.watermark
    BY DEF FeedRow
  <2> QED
    BY <2>1, <2>2
<1>3. /\ feeds'[f] = row
      /\ \A g \in Feeds \ {f} : feeds'[g] = feeds[g]
      /\ feeds' \in [Feeds -> FeedRow]
      /\ seen' \subseteq seen
      /\ UNCHANGED <<published, judged, check, editor>>
  BY <1>1, <1>2 DEF DeleteFeed, FeedsTypeOK
<1>4. FeedsTypeOK'
  BY <1>1, <1>3 DEF FeedsTypeOK
<1>5. \A g \in Feeds : Later(g)
  <2>1. Later(f)
    BY <1>2, <1>3 DEF Later
  <2>2. ASSUME NEW g \in Feeds \ {f}
        PROVE  Later(g)
    BY <1>1, <1>3 DEF Later, FeedsTypeOK, FeedRow
  <2> QED
    BY <2>1, <2>2
<1>6. Baselines'
  BY <1>1, <1>2, <1>3 DEF Baselines
<1>7. SeenAreBorn'
  BY <1>1, <1>2, <1>3 DEF SeenAreBorn
<1>8. NothingPassedOver'
  BY <1>1, <1>2, <1>3 DEF NothingPassedOver
<1>9. EditOK(editor)'
  <2>1. editor.pc = "editing" => editor.feed \in Feeds
    BY <1>1 DEF FeedsTypeOK, EditState
  <2>2. feeds'[f].state # "live" /\ feeds'[f].state # "unborn"
    BY <1>2, <1>3
  <2> QED
    BY <1>1, <1>3, <2>1, <2>2 DEF EditOK, Idle
<1> QED
  BY <1>3, <1>4, <1>5, <1>6, <1>7, <1>8, <1>9, EditFrame

LEMMA BeginEditSafe ==
  ASSUME EditsAlone, FeedInv, NEW f \in Feeds, NEW m \in Mappings, NEW on \in BOOLEAN,
         BeginEdit(f, m, on)
  PROVE  FeedInv' /\ \A g \in Feeds : Forward(g)
<1>1. FeedsTypeOK /\ Baselines /\ SeenAreBorn /\ NothingPassedOver
  BY DEF FeedInv
<1>2. /\ feeds' = feeds /\ seen' = seen /\ judged' = judged /\ check' = check
      /\ published' = published /\ feeds[f].state = "live" /\ Idle /\ feeds[f] \in FeedRow
  BY <1>1 DEF BeginEdit, FeedsTypeOK
<1>3. PICK row \in FeedRow :
        /\ row = IF m # feeds[f].mapping THEN Remapped(feeds[f], m) ELSE feeds[f]
        /\ row.state = "live"
        /\ IF m # feeds[f].mapping
           THEN row.pending /\ row.watermark = 0 /\ row.mapping # feeds[f].mapping
           ELSE row = feeds[f]
  <2>1. PICK old \in FeedRow : old = feeds[f]
    BY <1>2
  <2>2. /\ Remapped(old, m) \in FeedRow
        /\ Remapped(old, m).state = old.state /\ Remapped(old, m).watermark = 0
        /\ Remapped(old, m).mapping = m
    BY DEF Remapped, FeedRow
  <2>3. Remapped(old, m).pending
    <3>1. /\ [old EXCEPT !.mapping = m] \in FeedRow
      BY DEF FeedRow
    <3>2. [[old EXCEPT !.mapping = m] EXCEPT !.watermark = 0] \in FeedRow
      BY <3>1 DEF FeedRow
    <3>3. ASSUME NEW r \in FeedRow
          PROVE  [r EXCEPT !.pending = TRUE].pending
      BY DEF FeedRow
    <3>4. Remapped(old, m) =
            [[[old EXCEPT !.mapping = m] EXCEPT !.watermark = 0] EXCEPT !.pending = TRUE]
      BY DEF Remapped
    <3> QED
      BY <3>2, <3>3, <3>4
  <2> QED
    BY <1>2, <2>1, <2>2, <2>3
<1>4. PICK saved \in FeedRow :
        /\ saved = [row EXCEPT !.enabled = on]
        /\ saved.state = row.state /\ saved.mapping = row.mapping
        /\ saved.watermark = row.watermark /\ saved.pending = row.pending
  <2>1. ASSUME NEW r \in FeedRow
        PROVE  /\ [r EXCEPT !.enabled = on] \in FeedRow
               /\ [r EXCEPT !.enabled = on].state = r.state
               /\ [r EXCEPT !.enabled = on].mapping = r.mapping
               /\ [r EXCEPT !.enabled = on].watermark = r.watermark
               /\ [r EXCEPT !.enabled = on].pending = r.pending
    BY DEF FeedRow
  <2> QED
    BY <2>1
<1>5. editor' = [pc |-> "editing", feed |-> f, row |-> saved,
                 remapped |-> m # feeds[f].mapping, count |-> editor.count + 1]
  BY <1>3, <1>4 DEF BeginEdit
<1>6. editor.count + 1 \in Nat
  BY <1>1 DEF FeedsTypeOK, EditState
<1>7. editor' \in EditState /\ editor'.feed = f /\ editor'.row = saved
      /\ editor'.remapped = (m # feeds[f].mapping)
  BY <1>5, <1>6 DEF EditState
<1>8. FeedsTypeOK' /\ \A g \in Feeds : Later(g)
  BY <1>1, <1>2, <1>7, SameFeeds DEF FeedsTypeOK
<1>9. Baselines' /\ SeenAreBorn' /\ NothingPassedOver'
  BY <1>1, <1>2 DEF Baselines, SeenAreBorn, NothingPassedOver
<1>10. EditOK(editor)'
  <2>1. Idle' /\ editor'.row.state = "live" /\ feeds'[editor'.feed].state # "unborn"
    BY <1>2, <1>3, <1>4, <1>7 DEF Idle
  <2>2. CASE m # feeds[f].mapping
    <3>1. editor'.remapped /\ saved.pending /\ saved.watermark = 0
          /\ saved.mapping # feeds[f].mapping
      BY <1>3, <1>4, <1>7, <2>2
    <3> QED
      BY <1>2, <1>7, <2>1, <3>1 DEF EditOK
  <2>3. CASE m = feeds[f].mapping
    <3>1. ~editor'.remapped /\ row = feeds[f]
      BY <1>3, <1>7, <2>3
    <3> QED
      BY <1>2, <1>4, <1>7, <2>1, <3>1 DEF EditOK
  <2> QED
    BY <2>2, <2>3
<1> QED
  BY <1>2, <1>8, <1>9, <1>10, EditFrame

LEMMA RefusedSafe ==
  ASSUME FeedInv, EditRefused
  PROVE  FeedInv' /\ \A g \in Feeds : Forward(g)
<1>1. FeedsTypeOK /\ Baselines /\ SeenAreBorn /\ NothingPassedOver
  BY DEF FeedInv
<1>2. /\ feeds' = feeds /\ seen' = seen /\ judged' = judged /\ check' = check
      /\ published' = published
  BY DEF EditRefused
<1>3. editor' \in EditState /\ editor'.pc = "idle"
  <2>1. editor.count \in Nat
    BY <1>1 DEF FeedsTypeOK, EditState
  <2> QED
    BY <2>1, NoEditType DEF EditRefused, EditDone
<1>4. FeedsTypeOK' /\ \A g \in Feeds : Later(g)
  BY <1>1, <1>2, <1>3, SameFeeds DEF FeedsTypeOK
<1>5. Baselines' /\ SeenAreBorn' /\ NothingPassedOver' /\ EditOK(editor)'
  BY <1>1, <1>2, <1>3 DEF Baselines, SeenAreBorn, NothingPassedOver, EditOK
<1> QED
  BY <1>2, <1>4, <1>5, EditFrame

(* The transaction of the edit: no check holds an old row, and a feed that  *)
(* is mapped anew starts from its baseline, with nothing seen.              *)
LEMMA CommitEditSafe ==
  ASSUME FeedInv, CommitEdit
  PROVE  FeedInv' /\ \A g \in Feeds : Forward(g)
<1>1. FeedsTypeOK /\ Baselines /\ SeenAreBorn /\ NothingPassedOver /\ EditOK(editor)
  BY DEF FeedInv
<1>2. PICK f \in Feeds : f = editor.feed
  BY <1>1 DEF FeedsTypeOK, EditState
<1>3. PICK row \in FeedRow : row = editor.row
  BY <1>1 DEF FeedsTypeOK, EditState
<1>4. /\ Idle /\ row.state = "live" /\ feeds[f].state # "unborn"
      /\ feeds[f].state = "live" =>
           IF editor.remapped
           THEN row.pending /\ row.watermark = 0 /\ row.mapping # feeds[f].mapping
           ELSE /\ row.mapping = feeds[f].mapping /\ row.watermark = feeds[f].watermark
                /\ row.pending = feeds[f].pending
  BY <1>1, <1>2, <1>3 DEF CommitEdit, EditOK
<1>5. /\ feeds' = IF feeds[f].state = "live" THEN [feeds EXCEPT ![f] = row] ELSE feeds
      /\ seen' = IF editor.remapped THEN seen \ SeenOf(f) ELSE seen
      /\ editor' = NoEdit(editor.count)
      /\ published' = published /\ judged' = judged /\ check' = check
  BY <1>2, <1>3 DEF CommitEdit, EditDone
<1>6. editor' \in EditState /\ editor'.pc = "idle"
  <2>1. editor.count \in Nat
    BY <1>1 DEF FeedsTypeOK, EditState
  <2> QED
    BY <1>5, <2>1, NoEditType
<1>7. feeds' \in [Feeds -> FeedRow]
  BY <1>1, <1>5 DEF FeedsTypeOK
<1>8. FeedsTypeOK'
  BY <1>1, <1>5, <1>6, <1>7 DEF FeedsTypeOK
<1>9. ASSUME NEW c \in Collectors
      PROVE  CheckOK(c, check[c])'
  BY <1>4, <1>5 DEF CheckOK, Idle
<1>10. EditOK(editor)'
  BY <1>6 DEF EditOK
<1>11. CASE feeds[f].state # "live"
  <2>1. feeds' = feeds /\ seen' \subseteq seen
    BY <1>5, <1>11
  <2>2. Baselines' /\ SeenAreBorn' /\ NothingPassedOver'
    BY <1>1, <1>5, <2>1 DEF Baselines, SeenAreBorn, NothingPassedOver
  <2>3. \A g \in Feeds : Forward(g)
    BY <1>1, <2>1, SameFeeds, LaterIsForward
  <2> QED
    BY <1>8, <1>9, <1>10, <2>2, <2>3 DEF FeedInv
<1>12. CASE feeds[f].state = "live"
  <2>1. feeds'[f] = row /\ \A g \in Feeds \ {f} : feeds'[g] = feeds[g]
    BY <1>1, <1>5, <1>12 DEF FeedsTypeOK
  <2>2. seen' \subseteq seen
    BY <1>5
  <2>3. Baselines'
    BY <1>1, <1>4, <1>12, <2>1 DEF Baselines
  <2>4. SeenAreBorn'
    BY <1>1, <1>4, <1>12, <2>1, <2>2 DEF SeenAreBorn
  <2>5. NothingPassedOver'
    <3>1. CASE editor.remapped
      <4>1. row.pending /\ \A t \in Untimed : <<f, t>> \notin seen'
        BY <1>4, <1>5, <1>12, <3>1 DEF SeenOf
      <4> QED
        BY <1>1, <1>5, <2>1, <2>2, <4>1 DEF NothingPassedOver
    <3>2. CASE ~editor.remapped
      <4>1. /\ row.mapping = feeds[f].mapping /\ row.watermark = feeds[f].watermark
            /\ row.pending = feeds[f].pending
        BY <1>4, <1>12, <3>2
      <4> QED
        BY <1>1, <1>5, <1>12, <2>1, <2>2, <4>1 DEF NothingPassedOver
    <3> QED
      BY <3>1, <3>2
  <2>6. \A g \in Feeds : Forward(g)
    <3>1. Forward(f)
      BY <1>4, <1>12, <2>1 DEF Forward, FeedRow
    <3>2. ASSUME NEW g \in Feeds \ {f}
          PROVE  Forward(g)
      BY <1>1, <2>1 DEF Forward, FeedsTypeOK, FeedRow
    <3> QED
      BY <3>1, <3>2
  <2> QED
    BY <1>8, <1>9, <1>10, <2>3, <2>4, <2>5, <2>6 DEF FeedInv
<1> QED
  BY <1>11, <1>12

LEMMA FeedsStepSafe ==
  ASSUME EditsAlone, FeedInv, [FeedsNext]_feedVars
  PROVE  FeedInv' /\ \A f \in Feeds : Forward(f)
<1>1. ASSUME NEW c \in Collectors, Check(c)
      PROVE  FeedInv' /\ \A f \in Feeds : Forward(f)
  BY <1>1, CheckSafe, LaterIsForward
<1>2. CASE Edit
  BY <1>2, CreateSafe, BeginEditSafe, CommitEditSafe, RefusedSafe, DeleteSafe DEF Edit
<1>3. CASE UNCHANGED feedVars
  <2>1. /\ feeds' = feeds /\ seen' = seen /\ published' = published /\ judged' = judged
        /\ check' = check /\ editor' = editor
    BY <1>3 DEF feedVars
  <2>2. FeedsTypeOK' /\ \A g \in Feeds : Later(g)
    BY <2>1, SameFeeds DEF FeedInv, FeedsTypeOK
  <2>3. Baselines' /\ SeenAreBorn' /\ NothingPassedOver' /\ EditOK(editor)'
    BY <2>1 DEF FeedInv, Baselines, SeenAreBorn, NothingPassedOver, EditOK, Idle
  <2> QED
    BY <2>1, <2>2, <2>3, EditFrame
<1> QED
  BY <1>1, <1>2, <1>3, PublishSafe DEF FeedsNext

-----------------------------------------------------------------------------
LEMMA FeedsInvariant == ASSUME EditsAlone PROVE FeedsSpec => []FeedInv
<1>1. FeedInv /\ [FeedsNext]_feedVars => FeedInv'
  BY FeedsStepSafe
<1> QED
  BY <1>1, FeedsInitSafe, PTL DEF FeedsSpec

(* No item falls behind the watermark, or counts as seen, before a check    *)
(* has looked at it under the mapping the feed has now, although checks     *)
(* fail, are cancelled and end in any order (UpdateCheckSuccess).           *)
THEOREM NoItemIsLost == ASSUME EditsAlone PROVE FeedsSpec => []NothingPassedOver
<1>1. FeedInv => NothingPassedOver
  BY DEF FeedInv
<1> QED
  BY <1>1, FeedsInvariant, PTL

(* The watermark of a feed only grows while it keeps its mapping, and the   *)
(* baseline is not asked for again, whichever check writes last.            *)
THEOREM WatermarksAdvance == ASSUME EditsAlone PROVE FeedsSpec => ForwardOnly
<1>1. FeedInv /\ [FeedsNext]_feedVars => \A f \in Feeds : Forward(f)
  BY FeedsStepSafe
<1>2. FeedInv /\ [FeedsNext]_feedVars =>
        [\A f \in Feeds :
           /\ feeds[f].state = "live" /\ feeds'[f].state = "live"
           /\ feeds[f].mapping = feeds'[f].mapping
           => /\ feeds'[f].watermark >= feeds[f].watermark
              /\ feeds'[f].pending => feeds[f].pending]_feedVars
  BY <1>1 DEF Forward
<1> QED
  BY <1>2, FeedsInvariant, PTL DEF FeedsSpec, ForwardOnly
=============================================================================
