---- MODULE FileRenaming ----
(***************************************************************************)
(* Where the files of a subscription lie: the completion goroutine moves   *)
(* and renames the torrent of a finished download                          *)
(* (completion_handler.go, renameFile), the user's two tasks do it again   *)
(* for all of them (renamer.go).  The template is one with directories,    *)
(* as the default: title / season / title and episode.                     *)
(*                                                                         *)
(* A directory is a sequence of names below the download directory.        *)
(***************************************************************************)
EXTENDS Naturals, Sequences, SequencesExt

CONSTANTS Torrents,             \* of one episode of the subscription
          Foldered,             \* torrents that hold their video in a folder
          Titles, FirstTitle,   \* names the user may give the subscription
          Jobs,                 \* completion goroutines that run at once
          Faults,               \* what may fail: "list", "move", "rename", "commit"
          MaxDepth              \* bound on the length of a directory

ASSUME RenamingAssumption ==
    /\ Foldered \subseteq Torrents
    /\ FirstTitle \in Titles /\ MaxDepth \in Nat

VARIABLES title,      \* of the subscription
          torrents,   \* in qBittorrent: save path, the video in its folder or not, its name
          paths,      \* of the completed downloads: their renamed path
          jobs, organizer

renamingVars == <<title, torrents, paths, jobs, organizer>>

Season == "Season 1"
NoPath == [location |-> <<>>, folder |-> FALSE, name |-> <<>>]
NoJob == [pc |-> "idle"]

LibraryDir(name) == <<name, Season>>
FileName(name) == <<name, "S01E01">>
RawName(t) == <<t>>

RenamingInit ==
    /\ title = FirstTitle
    /\ torrents = [t \in Torrents |-> [location |-> <<FirstTitle>>, folder |-> t \in Foldered,
                                       name |-> RawName(t)]]
    /\ paths = [t \in Torrents |-> NoPath]
    /\ jobs = [j \in Jobs |-> NoJob]
    /\ organizer = NoJob

Completed(t) == paths[t] # NoPath

-----------------------------------------------------------------------------
\* qBittorrent: a rename is refused with 409 when the file is not there any
\* more under its old name or another file has the new one.
Occupied(t, place) == \E u \in Torrents \ {t} : torrents[u] = place

NewPlace(t, new) == [location |-> torrents[t].location, folder |-> new.folder, name |-> new.name]

Renamed(t, old, new) ==
    IF torrents[t].folder = old.folder /\ torrents[t].name = old.name /\ ~Occupied(t, NewPlace(t, new))
    THEN [torrents EXCEPT ![t] = NewPlace(t, new)]
    ELSE torrents

Conflicts(t, old, new) == Renamed(t, old, new) = torrents /\ old # new

Moved(t, target) == [torrents EXCEPT ![t].location = target]

FileOf(t) == [folder |-> torrents[t].folder, name |-> torrents[t].name]

-----------------------------------------------------------------------------
\* The directory the library wants, next to the directory the torrent is in.
CompletionTarget(location, name) == Front(location) \o LibraryDir(name)

JobGoes(j, state) ==
    /\ jobs' = [jobs EXCEPT ![j] = state]
    /\ UNCHANGED <<title, organizer>>

\* A monitor cycle sees a finished torrent of a download that is not completed.
StartCompletion(j, t) ==
    /\ jobs[j] = NoJob /\ ~Completed(t)
    /\ Len(torrents[t].location) < MaxDepth
    /\ JobGoes(j, [pc |-> "move", torrent |-> t, title |-> title,
                   target |-> CompletionTarget(torrents[t].location, title),
                   stays |-> torrents[t].location = CompletionTarget(torrents[t].location, title)])
    /\ UNCHANGED <<torrents, paths>>

\* A failing move does not stop the rename.
MoveTorrent(j) ==
    LET job == jobs[j] IN
    /\ job.pc = "move"
    /\ \/ torrents' = IF job.stays THEN torrents ELSE Moved(job.torrent, job.target)
       \/ "move" \in Faults /\ torrents' = torrents
    /\ JobGoes(j, [pc |-> "rename", torrent |-> job.torrent, title |-> job.title,
                   target |-> job.target, file |-> FileOf(job.torrent)])
    /\ UNCHANGED paths

\* The video leaves its folder; a conflict is taken for a rename that was
\* done before.
RenameVideo(j) ==
    LET job == jobs[j]
        new == [folder |-> FALSE, name |-> FileName(job.title)] IN
    /\ job.pc = "rename"
    /\ torrents' = Renamed(job.torrent, job.file, new)
    /\ JobGoes(j, [pc |-> "commit", torrent |-> job.torrent,
                   path |-> [location |-> job.target, folder |-> FALSE, name |-> new.name]])
    /\ UNCHANGED paths

CommitPath(j) ==
    LET job == jobs[j] IN
    /\ job.pc = "commit"
    /\ paths' = [paths EXCEPT ![job.torrent] = job.path]
    /\ JobGoes(j, NoJob)
    /\ UNCHANGED torrents

\* Each of these ends HandleComplete; the next cycle starts it again.
CompletionEnds(j) ==
    /\ \/ jobs[j].pc = "move" /\ "list" \in Faults
       \/ jobs[j].pc = "rename" /\ "rename" \in Faults
       \/ jobs[j].pc = "commit" /\ "commit" \in Faults
    /\ JobGoes(j, NoJob)
    /\ UNCHANGED <<torrents, paths>>

-----------------------------------------------------------------------------
OrganizerGoes(state) ==
    /\ organizer' = state
    /\ UNCHANGED <<title, jobs>>

\* RenameSubscriptionFiles, ReorganizeSubscriptionFiles: the completed
\* downloads and the subscription are read once.
StartOrganizer(kind) ==
    /\ organizer = NoJob
    /\ \E t \in Torrents : Completed(t)
    /\ OrganizerGoes([pc |-> "next", kind |-> kind, title |-> title,
                      todo |-> {t \in Torrents : Completed(t)}])
    /\ UNCHANGED <<torrents, paths>>

NextDownload == [pc |-> "next", kind |-> organizer.kind, title |-> organizer.title, todo |-> organizer.todo]
LeftOut(t) == [NextDownload EXCEPT !.todo = @ \ {t}]
Naming(t) == [pc |-> "rename", kind |-> organizer.kind, title |-> organizer.title,
              todo |-> organizer.todo \ {t}, torrent |-> t, file |-> FileOf(t)]

\* Mutated: a failing move is only logged, as on completion.
NamedAnyway(t) == Naming(t)

\* A download that could not be moved is left out.
AfterFailedMove(t) == LeftOut(t)

OrganizeMove(t) ==
    LET target == LibraryDir(organizer.title) IN
    /\ organizer.pc = "next" /\ t \in organizer.todo
    /\ \/ torrents' = Moved(t, target) /\ OrganizerGoes(Naming(t))
       \/ /\ "list" \in Faults
          /\ OrganizerGoes(LeftOut(t)) /\ UNCHANGED torrents
       \/ /\ "move" \in Faults /\ torrents[t].location # target
          /\ OrganizerGoes(AfterFailedMove(t)) /\ UNCHANGED torrents
    /\ UNCHANGED paths

\* The video stays in its folder.  A rename that was refused ends this
\* download; a reorganization has nothing left to do with it either way.
OrganizeRename ==
    LET t == organizer.torrent
        old == organizer.file
        new == [old EXCEPT !.name = FileName(organizer.title)]
        named == [pc |-> "save", kind |-> organizer.kind, title |-> organizer.title,
                  todo |-> organizer.todo, torrent |-> t] IN
    /\ organizer.pc = "rename"
    /\ \/ /\ torrents' = Renamed(t, old, new)
          /\ IF organizer.kind = "reorganize" \/ Conflicts(t, old, new)
             THEN OrganizerGoes(NextDownload) ELSE OrganizerGoes(named)
       \/ /\ "rename" \in Faults /\ old # new
          /\ OrganizerGoes(NextDownload)
          /\ UNCHANGED torrents
    /\ UNCHANGED paths

\* The renamed path is saved without the folder.
OrganizedPath(t) ==
    [location |-> LibraryDir(organizer.title), folder |-> FALSE, name |-> FileName(organizer.title)]

OrganizeSave ==
    LET t == organizer.torrent IN
    /\ organizer.pc = "save"
    /\ \/ paths' = [paths EXCEPT ![t] = OrganizedPath(t)]
       \/ "commit" \in Faults /\ paths' = paths
    /\ OrganizerGoes(NextDownload)
    /\ UNCHANGED torrents

\* The last download, or the task was cancelled.
OrganizerEnds ==
    /\ organizer.pc = "next"
    /\ OrganizerGoes(NoJob)
    /\ UNCHANGED <<torrents, paths>>

ChangeTitle(name) ==
    /\ title' = name
    /\ UNCHANGED <<torrents, paths, jobs, organizer>>

RenamingNext ==
    \/ \E j \in Jobs : \/ \E t \in Torrents : StartCompletion(j, t)
                       \/ MoveTorrent(j) \/ RenameVideo(j) \/ CommitPath(j) \/ CompletionEnds(j)
    \/ \E kind \in {"rename", "reorganize"} : StartOrganizer(kind)
    \/ \E t \in Torrents : OrganizeMove(t)
    \/ OrganizeRename \/ OrganizeSave \/ OrganizerEnds
    \/ \E name \in Titles : ChangeTitle(name)

RenamingSpec == RenamingInit /\ [][RenamingNext]_renamingVars

-----------------------------------------------------------------------------
\* The library directory of a download is the directory of its title, however
\* often the completion runs: "joining them directly would nest the title
\* twice" (completion_handler.go:264).
TitleNotNested ==
    \A t \in Torrents : \A i, k \in 1..Len(torrents[t].location) :
        torrents[t].location[i] = torrents[t].location[k] => i = k

\* When the user's rename task saves a path, the file is there, whatever an
\* earlier completion, a failing move or rename, or a new title left behind;
\* except for a video in a folder.  It needs that two completions of one
\* download do not overlap.
RenameSavesTruePath ==
    [][\A t \in Torrents \ Foldered :
         organizer.pc = "save" /\ organizer.torrent = t /\ paths'[t] # paths[t] =>
             paths'[t] = torrents'[t]]_renamingVars
====
