------------------------------ MODULE SmartFetch ------------------------------
(***************************************************************************)
(* Which subscriptions the periodic check fetches: by the air day, by what *)
(* is missing, and by how long a subscription has been complete            *)
(* (service/scheduler/smart_fetch.go).  One subscription, at least one     *)
(* check a day; a day passes between two first checks.                     *)
(***************************************************************************)
EXTENDS Integers

CONSTANTS FetchSettings,   \* strategies of the configuration
          FetchSubs,       \* what a subscription says for itself
          MaxStop          \* bound on CompletedStopDays

ASSUME FetchAssumption ==
  /\ MaxStop \in Nat
  /\ FetchSettings \subseteq [enabled : BOOLEAN, before : Nat, after : Nat, skip : BOOLEAN,
                              stop : 0 .. MaxStop, local : BOOLEAN]
  /\ FetchSubs \subseteq [override : {"always", "never", "follow", ""},
                          own : {"unset", "on", "off"}, air : -1 .. 6, rss : BOOLEAN]

VARIABLES strategy, sub,   \* constant in a behaviour
          library,         \* is the total known, are all episodes owned, is one missing, is a feed
                           \* waiting for its baseline
          completed,       \* days since CompletedAt, -1 if it is not set
          clock            \* weekday, was there a check today, days since a check fetched it or saw it
                           \* complete, and days since a check last saw it incomplete

fetchVars == <<strategy, sub, library, completed, clock>>

Libraries == {l \in [known : BOOLEAN, complete : BOOLEAN, missing : BOOLEAN, pending : BOOLEAN] :
                l.complete \/ l.missing => l.known}

NotCompleted == -1
NoAirDay == -1
Week == 7

FetchInit ==
  /\ strategy \in FetchSettings
  /\ sub \in FetchSubs
  /\ library = [known |-> FALSE, complete |-> FALSE, missing |-> FALSE, pending |-> FALSE]
  /\ completed = NotCompleted
  /\ clock = [weekday |-> 0, checked |-> FALSE, waited |-> 0, incomplete |-> 0]

(* isSmartFetchEnabledForSubscription.                                     *)
SmartFetchEnabled ==
  CASE sub.override = "always" -> TRUE
    [] sub.override = "never" -> FALSE
    [] sub.override = "follow" -> strategy.enabled
    [] OTHER -> IF sub.own = "unset" THEN strategy.enabled ELSE sub.own = "on"

DaysUntilAir == (sub.air - clock.weekday) % Week

(* Mutated: the air day itself is outside the window.                      *)
InWindowAround ==
  \/ sub.air = NoAirDay
  \/ DaysUntilAir < strategy.before
  \/ Week - DaysUntilAir <= strategy.after

InActiveWindow ==
  \/ sub.air = NoAirDay
  \/ DaysUntilAir <= strategy.before
  \/ Week - DaysUntilAir <= strategy.after

ChecksLedger == strategy.local /\ library.known

Missing == ChecksLedger /\ library.missing

(* Mutated: CompletedAt stays when episodes are added.                     *)
LookedKeeping(readable) ==
  IF ~library.pending /\ SmartFetchEnabled /\ (ChecksLedger => readable) /\ library.complete
     /\ completed = NotCompleted THEN 0 ELSE completed

(* A stale CompletedAt is cleared, a missing one is set when the strategy  *)
(* comes to use it; a subscription whose feed waits for its baseline is    *)
(* fetched before either.                                                  *)
Looked(readable) ==
  IF library.pending THEN completed
  ELSE IF ~library.complete THEN NotCompleted
  ELSE IF SmartFetchEnabled /\ (ChecksLedger => readable) /\ completed = NotCompleted THEN 0
  ELSE completed

GivenUp(days) == library.complete /\ strategy.stop > 0 /\ days >= strategy.stop

Wanted(readable) ==
  \/ library.pending
  \/ ~SmartFetchEnabled
  \/ ChecksLedger /\ ~readable
  \/ /\ ~GivenUp(Looked(readable))
     /\ IF library.complete THEN ~strategy.skip /\ Missing ELSE InActiveWindow \/ Missing

(* RefreshSubscriptionProgress, at the end of a collection.                *)
Refreshed(days) ==
  IF ~library.complete THEN NotCompleted ELSE IF days = NotCompleted THEN 0 ELSE days

(* checkRSSFeeds, for the subscription.  The ledger may not be readable.   *)
CheckSubscription(readable) ==
  LET fetched == sub.rss /\ Wanted(readable)
      looked == IF sub.rss THEN Looked(readable) ELSE completed IN
  /\ completed' = IF fetched THEN Refreshed(looked) ELSE looked
  /\ clock' = [clock EXCEPT !.checked = TRUE,
                            !.waited = IF fetched \/ library.complete THEN 0 ELSE @,
                            !.incomplete = IF library.complete THEN @ ELSE 0]
  /\ UNCHANGED <<strategy, sub, library>>

LeastDays(a, b) == IF a <= b THEN a ELSE b

NextDay ==
  /\ clock.checked
  /\ clock' = [weekday |-> (clock.weekday + 1) % Week, checked |-> FALSE,
               waited |-> LeastDays(clock.waited + 1, Week),
               incomplete |-> LeastDays(clock.incomplete + 1, MaxStop)]
  /\ completed' = IF completed = NotCompleted THEN completed ELSE LeastDays(completed + 1, MaxStop)
  /\ UNCHANGED <<strategy, sub, library>>

(* Episodes are downloaded, marked or deleted, which refreshes the         *)
(* progress, or only the row of the subscription is saved.                 *)
ChangeLibrary(l) ==
  /\ library' = l
  /\ completed' \in {completed, IF ~l.complete THEN NotCompleted
                                ELSE IF completed = NotCompleted THEN 0 ELSE completed}
  /\ UNCHANGED <<strategy, sub, clock>>

FetchNext ==
  \/ \E readable \in BOOLEAN : CheckSubscription(readable)
  \/ NextDay
  \/ \E l \in Libraries : ChangeLibrary(l)

FetchSpec == FetchInit /\ [][FetchNext]_fetchVars

-----------------------------------------------------------------------------
(* No strategy starves a subscription: among the checks of seven days that *)
(* all saw it incomplete there is one that fetches it, whatever the window *)
(* and whatever is missing.                                                *)
NobodyStarves == sub.rss /\ clock.checked => clock.waited < Week

(* A complete subscription is given up only when every check of the last   *)
(* CompletedStopDays days saw it complete.                                 *)
GivenUpLate ==
  sub.rss /\ ~library.pending /\ SmartFetchEnabled /\ GivenUp(completed) =>
    clock.incomplete >= strategy.stop
=============================================================================
