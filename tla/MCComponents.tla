---- MODULE MCComponents ----
(***************************************************************************)
(* The components that share no state with each other, side by side: a     *)
(* behaviour chooses one of them and runs it alone, so the states of one   *)
(* are not multiplied by those of the others.                              *)
(***************************************************************************)
EXTENDS TaskManager, LogWriter, RateLimiter, NotificationHub, CoverDownload, FileRenaming,
        Backups, Migration, SmartFetch, ItemSelection, Drafts

VARIABLE part

-----------------------------------------------------------------------------
(* Values of the constants.                                                *)
ImageServiceOf == "c1" :> "handler" @@ "c2" :> "handler" @@ "c3" :> "handler"

\* The air day alone, and a window around it.
Windows == {<<0, 0>>, <<1, 2>>}
Strategy(on, window, skip, stop, local) ==
  [enabled |-> on, before |-> window[1], after |-> window[2], skip |-> skip, stop |-> stop, local |-> local]
Settings ==
  {Strategy(TRUE, w, skip, stop, local) : w \in Windows, skip \in BOOLEAN, stop \in {0, 2}, local \in BOOLEAN}
    \cup {Strategy(FALSE, <<1, 2>>, TRUE, 2, TRUE)}
Says(override, own, air, rss) == [override |-> override, own |-> own, air |-> air, rss |-> rss]
Followers == {Says("follow", "unset", 3, TRUE), Says("follow", "unset", -1, TRUE),
              Says("", "off", 3, TRUE), Says("always", "off", 3, FALSE)}

\* An item that every rule lets pass, and items that differ from it in one way.
Good == [single |-> TRUE, titled |-> TRUE, season |-> 0, suffix |-> FALSE, episode |-> 2, trusted |-> TRUE,
         fansub |-> "a", words |-> {"x"}, sizes |-> {1080}, language |-> "chs", large |-> TRUE, fresh |-> TRUE]
FeedItems ==
  {[Good EXCEPT !.sizes = s] : s \in SUBSET Sizes}
    \cup {[Good EXCEPT !.sizes = {720}, !.episode = 3], [Good EXCEPT !.language = "cht"],
          [Good EXCEPT !.large = FALSE], [Good EXCEPT !.fresh = FALSE], [Good EXCEPT !.titled = FALSE],
          [Good EXCEPT !.words = {"y"}]}

\* Rules with every policy on the resolution, and rules without one.
NoPolicy == [on |-> FALSE, excluded |-> {}, preferred |-> 0, fallback |-> "allow"]
Rule == [legacy |-> FALSE, season |-> 2, scoped |-> TRUE, offset |-> 1, total |-> 2, trusted |-> TRUE,
         fansub |-> "a", required |-> {}, excluded |-> {}, size |-> 0, policy |-> NoPolicy, language |-> "any",
         include |-> {}, exclude |-> {}, preference |-> "chs"]
FeedRules ==
  {r \in {[Rule EXCEPT !.policy = p] : p \in {q \in Policies : q.on}} : Valid(r)}
    \cup {Rule, [Rule EXCEPT !.legacy = TRUE, !.include = {"x"}],
          [Rule EXCEPT !.required = {"x"}, !.size = 1080],
          [Rule EXCEPT !.excluded = {"y"}, !.language = "cht", !.preference = "cht"]}

SourcePreviews ==
  {[subject |-> "s1", feeds |-> {"mikan", "nyaa"}], [subject |-> "s2", feeds |-> {"mikan"}], NoPreview}

-----------------------------------------------------------------------------
Parts == {"tasks", "logs", "rate", "hub", "covers", "renaming", "settings", "library",
          "migration", "fetch", "selection", "drafts"}

\* Where the initial states of a part are many, the others keep to one of them.
ComponentsInit ==
  /\ part \in Parts
  /\ TasksInit /\ LogsInit /\ RateInit /\ HubInit /\ CoversInit /\ RenamingInit /\ BackupInit /\ DraftsInit
  /\ \/ part = "migration"
     \/ /\ part # "migration"
        /\ old = [downloads |-> [d \in OldDownloads |-> CHOOSE row \in OldRows : TRUE],
                  sub |-> CHOOSE row \in OldSubs : TRUE]
  /\ MigrationInit
  /\ \/ part = "fetch"
     \/ /\ part # "fetch"
        /\ strategy = (CHOOSE s \in FetchSettings : TRUE) /\ sub = (CHOOSE s \in FetchSubs : TRUE)
  /\ FetchInit
  /\ \/ part = "selection"
     \/ part # "selection" /\ feed = <<>> /\ rules = (CHOOSE r \in RuleSets : TRUE)
  /\ SelectionInit

ComponentsNext ==
  \/ /\ part = "tasks" /\ TasksNext
     /\ UNCHANGED <<part, logVars, rateVars, hubVars, coverVars, renamingVars, backupVars,
                   migrationVars, fetchVars, selectionVars, draftVars>>
  \/ /\ part = "logs" /\ LogsNext
     /\ UNCHANGED <<part, taskVars, rateVars, hubVars, coverVars, renamingVars, backupVars,
                   migrationVars, fetchVars, selectionVars, draftVars>>
  \/ /\ part = "rate" /\ RateNext
     /\ UNCHANGED <<part, taskVars, logVars, hubVars, coverVars, renamingVars, backupVars,
                   migrationVars, fetchVars, selectionVars, draftVars>>
  \/ /\ part = "hub" /\ HubNext
     /\ UNCHANGED <<part, taskVars, logVars, rateVars, coverVars, renamingVars, backupVars,
                   migrationVars, fetchVars, selectionVars, draftVars>>
  \/ /\ part = "covers" /\ CoversNext
     /\ UNCHANGED <<part, taskVars, logVars, rateVars, hubVars, renamingVars, backupVars,
                   migrationVars, fetchVars, selectionVars, draftVars>>
  \/ /\ part = "renaming" /\ RenamingNext
     /\ UNCHANGED <<part, taskVars, logVars, rateVars, hubVars, coverVars, backupVars, migrationVars,
                   fetchVars, selectionVars, draftVars>>
  \/ /\ \/ part = "settings" /\ SettingsNext
        \/ part = "library" /\ LibraryNext
        \/ part \in {"settings", "library"} /\ \E s \in Strategies : Import(s)
     /\ UNCHANGED <<part, taskVars, logVars, rateVars, hubVars, coverVars, renamingVars, migrationVars,
                   fetchVars, selectionVars, draftVars>>
  \/ /\ part = "migration" /\ MigrationNext
     /\ UNCHANGED <<part, taskVars, logVars, rateVars, hubVars, coverVars, renamingVars, backupVars,
                   fetchVars, selectionVars, draftVars>>
  \/ /\ part = "fetch" /\ FetchNext
     /\ UNCHANGED <<part, taskVars, logVars, rateVars, hubVars, coverVars, renamingVars, backupVars,
                   migrationVars, selectionVars, draftVars>>
  \/ /\ part = "selection" /\ SelectionNext
     /\ UNCHANGED <<part, taskVars, logVars, rateVars, hubVars, coverVars, renamingVars, backupVars,
                   migrationVars, fetchVars, draftVars>>
  \/ /\ part = "drafts" /\ DraftsNext
     /\ UNCHANGED <<part, taskVars, logVars, rateVars, hubVars, coverVars, renamingVars, backupVars,
                   migrationVars, fetchVars, selectionVars>>

componentVars ==
  <<part, taskVars, logVars, rateVars, hubVars, coverVars, renamingVars,
    backupVars, migrationVars, fetchVars, selectionVars, draftVars>>

ComponentsSpec == ComponentsInit /\ [][ComponentsNext]_componentVars
====
