---------------------------- MODULE ItemSelection ----------------------------
(***************************************************************************)
(* Which items of one fetched feed are downloaded: the items that have the *)
(* preferred resolution are looked at first, each has to pass the rules of *)
(* the subscription, its keyword filter, its language preference and the   *)
(* least size, and the first one that does gets its episode; later ones    *)
(* become candidates (service/subscriptionmatch, the item loop of          *)
(* scheduler.processFetchedFeedItemsWithSummary).  The preview a user is   *)
(* shown of a feed repeats these decisions in code of its own              *)
(* (SubscriptionHandler.Preview).                                          *)
(*                                                                         *)
(* What the title of an item says is a field of the item.                  *)
(***************************************************************************)
EXTENDS Naturals, Sequences, SequencesExt

CONSTANTS Items,        \* items a feed may have
          RuleSets,     \* rules a subscription may have
          MaxItems      \* bound on the items of a feed

Sizes == {720, 1080}
Languages == {"unknown", "chs", "cht"}
Episodes == 1 .. 3

ItemRecords ==
  [single : BOOLEAN,            \* neither a batch nor a special
   titled : BOOLEAN, season : 0 .. 2, suffix : BOOLEAN, episode : 0 .. 3, trusted : BOOLEAN,
   fansub : {"a", "b"}, words : SUBSET {"x", "y"}, sizes : SUBSET Sizes, language : Languages,
   large : BOOLEAN,             \* not below the least size, or of unknown size
   fresh : BOOLEAN]             \* newer than the watermark, or not seen

Policies == [on : BOOLEAN, excluded : SUBSET Sizes, preferred : Sizes \cup {0}, fallback : {"wait", "allow"}]

RuleRecords ==
  [legacy : BOOLEAN,            \* without rules
   season : 1 .. 2, scoped : BOOLEAN, offset : 0 .. 1, total : 0 .. 2, trusted : BOOLEAN,
   fansub : {"", "a"}, required : SUBSET {"x", "y"}, excluded : SUBSET {"x", "y"},
   size : Sizes \cup {0}, policy : Policies,
   language : {"any", "chs", "cht"},
   include : SUBSET {"x", "y"}, exclude : SUBSET {"x", "y"}, preference : {"chs", "cht", "both"}]

(* Rules.Validate, QualityPolicy.Validate.                                 *)
Valid(r) ==
  r.policy.on =>
    /\ r.policy.fallback = "wait" => r.policy.preferred # 0
    /\ {r.size, r.policy.preferred} \cap r.policy.excluded = {}
    /\ r.size # 0 /\ r.policy.preferred # 0 => r.size = r.policy.preferred

ASSUME SelectionAssumption ==
  /\ Items \subseteq ItemRecords /\ MaxItems \in Nat
  /\ RuleSets \subseteq {r \in RuleRecords : Valid(r)}

VARIABLES feed, rules,  \* the items of the fetch, as published, and the rules; constant
          loop,         \* the items in the order they are looked at, and the next one
          picked        \* the item each episode is downloaded from, and the candidates

selectionVars == <<feed, rules, loop, picked>>

NoItem == [none |-> TRUE]

-----------------------------------------------------------------------------
Relative(item) == IF item.episode > rules.offset THEN item.episode - rules.offset ELSE 0

InRange(item) ==
  Relative(item) > 0 /\ (rules.total > 0 => Relative(item) <= rules.total)

(* The season of the title, or what stands for it.                         *)
SeasonFits(item) ==
  IF item.season = 0 THEN ~item.suffix /\ (rules.season > 1 => rules.scoped \/ rules.offset # 0)
  ELSE item.season = rules.season

(* QualityPolicy.Match.                                                    *)
QualityFits(item) ==
  ~rules.policy.on \/
  \E s \in Sizes : /\ item.sizes = {s} /\ s \notin rules.policy.excluded
                   /\ rules.policy.fallback = "wait" => s = rules.policy.preferred

(* Rules.Match, EvaluateForFeed.                                           *)
Matches(item) ==
  \/ rules.legacy
  \/ /\ item.single /\ item.titled /\ SeasonFits(item) /\ InRange(item)
     /\ rules.trusted => item.trusted
     /\ rules.fansub # "" => item.fansub = rules.fansub
     /\ rules.excluded \cap item.words = {} /\ rules.required \subseteq item.words
     /\ QualityFits(item)
     /\ rules.size # 0 => rules.size \in item.sizes
     /\ rules.language # "any" => item.language = rules.language

(* matchesFilter.                                                          *)
PassesFilter(item) ==
  /\ rules.exclude \cap item.words = {}
  /\ rules.include # {} => rules.include \cap item.words # {}

(* ShouldDownload, with the languages the episode already has.             *)
ShouldDownload(language, have) ==
  \/ language = "unknown"
  \/ /\ language \notin have
     /\ rules.preference = "both" \/ language = rules.preference \/ rules.preference \notin have

(* CheckLanguageAllow passes no language that is already there.            *)
LanguageAllowed(item) == ShouldDownload(item.language, {})

Eligible(item) ==
  item.fresh /\ Matches(item) /\ InRange(item) /\ PassesFilter(item) /\ LanguageAllowed(item) /\ item.large

-----------------------------------------------------------------------------
HasPreferred(item) == rules.policy.preferred \in item.sizes

Ranked == ~rules.legacy /\ rules.policy.on /\ rules.policy.preferred # 0

(* Mutated: the items are looked at as they were published.                *)
AsPublished(items) == items

(* The items that are in S, in their order.                                *)
ItemsIn(items, S) ==
  LET upTo[n \in 0 .. Len(items)] ==
        IF n = 0 THEN <<>>
        ELSE IF items[n] \in S THEN Append(upTo[n - 1], items[n]) ELSE upTo[n - 1]
  IN upTo[Len(items)]

Prioritize(items) ==
  LET best == {i \in ToSet(items) : HasPreferred(i)} IN
  IF ~Ranked THEN items ELSE ItemsIn(items, best) \o ItemsIn(items, ToSet(items) \ best)

SelectionInit ==
  /\ feed \in SeqOf(Items, MaxItems)
  /\ rules \in RuleSets
  /\ loop = [order |-> <<>>, next |-> 0]
  /\ picked = [owner |-> [e \in Episodes |-> NoItem], candidates |-> {}]

BeginItems ==
  /\ loop.next = 0
  /\ loop' = [order |-> Prioritize(feed), next |-> 1]
  /\ UNCHANGED <<feed, rules, picked>>

Item == loop.order[loop.next]
Looking == loop.next \in 1 .. Len(loop.order)
NextItem == loop' = [loop EXCEPT !.next = @ + 1]

Finished == loop.next = Len(loop.order) + 1
Aborted == Len(loop.order) + 2

SkipItem ==
  /\ Looking /\ ~Eligible(Item)
  /\ NextItem
  /\ UNCHANGED <<feed, rules, picked>>

(* EvaluateRSSItem; for another resource than the owner.                   *)
TakeItem ==
  LET e == Relative(Item) IN
  /\ Looking /\ Eligible(Item)
  /\ picked' = IF picked.owner[e] = NoItem THEN [picked EXCEPT !.owner[e] = Item]
               ELSE [picked EXCEPT !.candidates = @ \cup ({Item} \ {picked.owner[e]})]
  /\ NextItem
  /\ UNCHANGED <<feed, rules>>

(* The claim or the download cannot be written: the fetch ends, and its    *)
(* items come again with the next one.                                     *)
TakeFails ==
  /\ Looking /\ Eligible(Item)
  /\ loop' = [loop EXCEPT !.next = Aborted]
  /\ UNCHANGED <<feed, rules, picked>>

SelectionNext == BeginItems \/ SkipItem \/ TakeItem \/ TakeFails

SelectionSpec == SelectionInit /\ [][SelectionNext]_selectionVars

-----------------------------------------------------------------------------
(* The preview of a feed.  It reads the keywords of the filter itself, and *)
(* knows neither watermark nor language preference nor least size.         *)
MatchesSubscriptionFilters(item) ==
  /\ \A word \in rules.exclude : word \notin item.words
  /\ rules.include = {} \/ \E word \in rules.include : word \in item.words

PreviewRelative(item) ==
  IF rules.offset = 0 THEN item.episode ELSE Relative(item)

Previewable(item) ==
  LET relative == PreviewRelative(item) IN
  /\ relative > 0 /\ (rules.total > 0 => relative <= rules.total)
  /\ Matches(item) /\ MatchesSubscriptionFilters(item)

(* PreviewRSSItem, with the episodes that have an owner.                   *)
PreviewRSSItem(item, owner) ==
  LET known == owner[PreviewRelative(item)] IN
  IF known = NoItem THEN "download" ELSE IF known = item THEN "duplicate" ELSE "manual_review"

(* An earlier item has decided about the episode.                          *)
Processed(order, n) ==
  \E k \in 1 .. n - 1 : Previewable(order[k]) /\ order[k].episode = order[n].episode

(* Mutated: the items are shown as they were published.                    *)
PreviewAsPublished(items, owner) ==
  LET order == items IN
  [n \in DOMAIN order |->
     IF Previewable(order[n]) /\ ~Processed(order, n) THEN PreviewRSSItem(order[n], owner) ELSE "skip"]

(* The action shown for each item, in the order they are looked at.        *)
Preview(items, owner) ==
  LET order == Prioritize(items) IN
  [n \in DOMAIN order |->
     IF Previewable(order[n]) /\ ~Processed(order, n) THEN PreviewRSSItem(order[n], owner) ELSE "skip"]

-----------------------------------------------------------------------------
Owned(e) == picked.owner[e] # NoItem

(* Whatever the order of a feed, nothing is downloaded whose title names   *)
(* an excluded resolution, more than one, or (when the policy is to wait)  *)
(* another than the preferred one; and an episode is downloaded in the     *)
(* preferred resolution if the feed has an item that could be taken for it.*)
Admitted(sizes) ==
  /\ sizes \cap rules.policy.excluded = {}
  /\ \A s, t \in sizes : s = t
  /\ rules.policy.fallback = "wait" => sizes = {rules.policy.preferred}

BestOffered(e) ==
  HasPreferred(picked.owner[e]) \/
  \A item \in ToSet(feed) : Eligible(item) /\ Relative(item) = e => ~HasPreferred(item)

PolicyIsFollowed ==
  ~rules.legacy /\ rules.policy.on =>
    \A e \in {n \in Episodes : Owned(n)} :
      Admitted(picked.owner[e].sizes) /\ (Ranked => BestOffered(e))

(* A preview is honoured: if no item of the feed is too small or out of    *)
(* date, a check that comes to its end has downloaded the items shown as   *)
(* "download" before it and no other, and a preview after it shows none.   *)
PreviewHonoured ==
  LET shown(owner) ==
        LET actions == Preview(feed, owner) IN
        {Prioritize(feed)[n] : n \in {k \in DOMAIN actions : actions[k] = "download"}}
  IN Finished /\ (\A item \in ToSet(feed) : item.large /\ item.fresh) =>
       /\ {picked.owner[e] : e \in {n \in Episodes : Owned(n)}} = shown([e \in Episodes |-> NoItem])
       /\ shown(picked.owner) = {}
=============================================================================
