---------------------------- MODULE CoverDownload ----------------------------
(***************************************************************************)
(* The cover of a series, downloaded into a file of the cover directory.   *)
(* A download is announced to later callers of the same image service, who *)
(* wait for it; but the program has several image services, and looking    *)
(* for an announcement, for the file, and announcing are separate steps,   *)
(* so two downloads of the same cover may write the same temporary file    *)
(* (service/bangumi/image.go).                                             *)
(***************************************************************************)
EXTENDS Naturals, FiniteSets

CONSTANTS Callers, Services, ServiceOf

NoCaller == "nobody"

ASSUME CoverAssumption ==
  /\ ServiceOf \in [Callers -> Services]
  /\ IsFiniteSet(Callers) /\ NoCaller \notin Callers

VARIABLES caller,     \* where each caller of DownloadCover is, whom it waits for, what it has open
          announced,  \* pendingCache of each service: the caller whose download is announced
          disk,       \* what the two names of the cover point to, and the inodes that are whole
          clash       \* were two downloads saving the cover at the same time

coverVars == <<caller, announced, disk, clash>>

NoFile == 0
Inodes == 1 .. Cardinality(Callers) + 1

Idle == [pc |-> "idle", waits |-> NoCaller, open |-> NoFile]
Saving == {c \in Callers : caller[c].pc \in {"writing", "renaming"}}
Working(c) == caller[c].pc \in {"token", "fetching", "create", "writing", "renaming", "ending"}

CoversInit ==
  /\ caller = [c \in Callers |-> Idle]
  /\ announced = [s \in Services |-> NoCaller]
  /\ disk = [cover |-> NoFile, temp |-> NoFile, whole |-> {}]
  /\ clash = FALSE

Goes(c, pc) == caller' = [caller EXCEPT ![c].pc = pc]

(* getPendingDownload.                                                     *)
StartCover(c) ==
  LET other == announced[ServiceOf[c]] IN
  /\ caller[c].pc = "idle"
  /\ caller' = [caller EXCEPT ![c].pc = IF other = NoCaller THEN "looking" ELSE "waiting",
                              ![c].waits = other]
  /\ UNCHANGED <<announced, disk, clash>>

LookForCover(c) ==
  /\ caller[c].pc = "looking"
  /\ Goes(c, IF disk.cover # NoFile THEN "idle" ELSE "announce")
  /\ UNCHANGED <<announced, disk, clash>>

(* markPendingDownload: over what another caller may have announced.       *)
Announce(c) ==
  /\ caller[c].pc = "announce"
  /\ announced' = [announced EXCEPT ![ServiceOf[c]] = c]
  /\ Goes(c, "token")
  /\ UNCHANGED <<disk, clash>>

(* The rate limiter lets it go on, or the time is up.                      *)
GetToken(c) ==
  /\ caller[c].pc = "token"
  /\ \E pc \in {"fetching", "ending"} : Goes(c, pc)
  /\ UNCHANGED <<announced, disk, clash>>

(* downloadWithRetry, with all its attempts.                               *)
FetchCover(c) ==
  /\ caller[c].pc = "fetching"
  /\ \E pc \in {"create", "ending"} : Goes(c, pc)
  /\ UNCHANGED <<announced, disk, clash>>

(* saveFile: os.Create empties a temporary file that is there.             *)
Opened == IF disk.temp # NoFile THEN disk.temp
          ELSE CHOOSE i \in Inodes : /\ i # disk.cover
                                     /\ \A c \in Callers : caller[c].open # i

(* Mutated: the image is written into the file itself.                     *)
CreateInPlace(c) ==
  /\ caller[c].pc = "create"
  /\ disk' = [disk EXCEPT !.cover = Opened, !.temp = Opened, !.whole = @ \ {Opened}]
  /\ caller' = [caller EXCEPT ![c].pc = "writing", ![c].open = Opened]
  /\ clash' = (clash \/ Saving # {})
  /\ UNCHANGED announced

CreateTemp(c) ==
  /\ caller[c].pc = "create"
  /\ disk' = [disk EXCEPT !.temp = Opened, !.whole = @ \ {Opened}]
  /\ caller' = [caller EXCEPT ![c].pc = "writing", ![c].open = Opened]
  /\ clash' = (clash \/ Saving # {})
  /\ UNCHANGED announced

WriteTemp(c) ==
  /\ caller[c].pc = "writing"
  /\ disk' = [disk EXCEPT !.whole = @ \cup {caller[c].open}]
  /\ Goes(c, "renaming")
  /\ UNCHANGED <<announced, clash>>

WriteFails(c) ==
  /\ caller[c].pc = "writing"
  /\ disk' = [disk EXCEPT !.temp = NoFile]
  /\ caller' = [caller EXCEPT ![c].pc = "ending", ![c].open = NoFile]
  /\ UNCHANGED <<announced, clash>>

(* A rename without a temporary file is refused and changes nothing.       *)
RenameTemp(c) ==
  /\ caller[c].pc = "renaming"
  /\ disk' = IF disk.temp = NoFile THEN disk
             ELSE [disk EXCEPT !.cover = disk.temp, !.temp = NoFile]
  /\ caller' = [caller EXCEPT ![c].pc = "ending", ![c].open = NoFile]
  /\ UNCHANGED <<announced, clash>>

(* Mutated: only the end of the announced download wakes those who wait.   *)
EndIfAnnounced(c) ==
  /\ caller[c].pc = "ending"
  /\ announced' = [announced EXCEPT ![ServiceOf[c]] = IF @ = c THEN NoCaller ELSE @]
  /\ caller' = [d \in Callers |->
       IF d = c THEN Idle
       ELSE IF caller[d].waits = c /\ announced[ServiceOf[c]] = c
       THEN [caller[d] EXCEPT !.pc = "looking", !.waits = NoCaller] ELSE caller[d]]
  /\ UNCHANGED <<disk, clash>>

(* unmarkPendingDownload: whose announcement it removes it does not ask,   *)
(* but it wakes those who wait for this download.                          *)
EndCover(c) ==
  /\ caller[c].pc = "ending"
  /\ announced' = [announced EXCEPT ![ServiceOf[c]] = NoCaller]
  /\ caller' = [d \in Callers |->
       IF d = c THEN Idle
       ELSE IF caller[d].waits = c THEN [caller[d] EXCEPT !.pc = "looking", !.waits = NoCaller]
       ELSE caller[d]]
  /\ UNCHANGED <<disk, clash>>

CoversRestart ==
  /\ caller' = [c \in Callers |-> Idle]
  /\ announced' = [s \in Services |-> NoCaller]
  /\ UNCHANGED <<disk, clash>>

CoversNext ==
  \/ \E c \in Callers :
       \/ StartCover(c) \/ LookForCover(c) \/ Announce(c) \/ GetToken(c) \/ FetchCover(c)
       \/ CreateTemp(c) \/ WriteTemp(c) \/ WriteFails(c) \/ RenameTemp(c) \/ EndCover(c)
  \/ CoversRestart

CoversSpec == CoversInit /\ [][CoversNext]_coverVars

(* A cover that is there is a whole image, whatever fails and whenever the *)
(* program stops, unless two downloads of it were saved at the same time   *)
(* (an image that is there is never downloaded again).                     *)
CoversAreWhole == disk.cover \in disk.whole \cup {NoFile} \/ clash

(* Who waits for a download waits for one that is still being worked on,   *)
(* although announcements are overwritten and removed by others.           *)
WaitersAreServed == \A c \in Callers : caller[c].pc = "waiting" => Working(caller[c].waits)
=============================================================================
