------------------------- MODULE CoverDownloadProofs -------------------------
(* Whoever waits for a cover is served, and a cover that is there is whole  *)
(* unless two downloads of it were saved at the same time, for every number *)
(* of callers and of image services.                                        *)
EXTENDS CoverDownload, FiniteSetTheorems, TLAPS

USE CoverAssumption

Places == {"idle", "waiting", "looking", "announce", "token", "fetching", "create",
           "writing", "renaming", "ending"}
CallerRow == [pc : Places, waits : Callers \cup {NoCaller}, open : Nat]

CoversTypeOK ==
  /\ caller \in [Callers -> CallerRow]
  /\ announced \in [Services -> Callers \cup {NoCaller}]
  /\ disk \in [cover : Nat, temp : Nat, whole : SUBSET Nat]
  /\ clash \in BOOLEAN

(* An announcement is of a download that is being worked on, and who waits, *)
(* and nobody else, has somebody to wait for.                               *)
AnnouncedWork ==
  \A s \in Services : announced[s] # NoCaller =>
    ServiceOf[announced[s]] = s /\ Working(announced[s])

OnlyWaitersWait == \A c \in Callers : caller[c].pc = "waiting" <=> caller[c].waits # NoCaller

WaitersInv == CoversTypeOK /\ AnnouncedWork /\ OnlyWaitersWait /\ WaitersAreServed

OnlySaversOpen == \A c \in Callers : caller[c].open # NoFile => c \in Saving

(* As long as no two downloads were saved at once: the one that is being    *)
(* saved writes the temporary file, whose inode is not that of the cover.   *)
OneSaves == \A c, d \in Saving : c = d

SavesToTemp == \A c \in Saving : caller[c].open = disk.temp /\ disk.temp # NoFile

RenamesWhole == \A c \in Callers : caller[c].pc = "renaming" => disk.temp \in disk.whole

TempIsApart == disk.temp # NoFile => disk.temp # disk.cover

FilesInv ==
  ~clash => /\ OneSaves /\ SavesToTemp /\ RenamesWhole /\ TempIsApart
            /\ disk.cover \in disk.whole \cup {NoFile}

CoversInv == WaitersInv /\ OnlySaversOpen /\ FilesInv

-----------------------------------------------------------------------------
LEMMA IdleRow == Idle \in CallerRow
BY DEF CallerRow, Places, Idle, NoFile

LEMMA TypeInit == CoversInit => CoversTypeOK
<1> SUFFICES ASSUME CoversInit PROVE CoversTypeOK
  OBVIOUS
<1>1. caller \in [Callers -> CallerRow]
  BY IdleRow DEF CoversInit
<1>2. disk \in [cover : Nat, temp : Nat, whole : SUBSET Nat]
  BY DEF CoversInit, NoFile
<1> QED
  BY <1>1, <1>2 DEF CoversInit, CoversTypeOK

LEMMA InodesAreNumbers == Inodes \subseteq Nat \ {0} /\ (Callers # {} => {1, 2} \subseteq Inodes)
<1>1. Cardinality(Callers) \in Nat
  BY FS_CardinalityType
<1>2. Callers # {} => Cardinality(Callers) # 0
  BY FS_EmptySet
<1> QED
  BY <1>1, <1>2 DEF Inodes

LEMMA CoversStart == CoversInit => CoversInv
<1> SUFFICES ASSUME CoversInit PROVE CoversInv
  OBVIOUS
<1>1. CoversTypeOK
  BY TypeInit
<1>2. AnnouncedWork /\ OnlyWaitersWait /\ WaitersAreServed
  BY DEF CoversInit, AnnouncedWork, OnlyWaitersWait, WaitersAreServed, Idle
<1>3. OnlySaversOpen /\ FilesInv
  BY DEF CoversInit, OnlySaversOpen, FilesInv, OneSaves, SavesToTemp, RenamesWhole, TempIsApart,
         Saving, Idle
<1> QED
  BY <1>1, <1>2, <1>3 DEF CoversInv, WaitersInv

(* One caller goes on: who is worked on stays worked on, or the step is     *)
(* EndCover.                                                                *)
LEMMA GoesOn ==
  ASSUME WaitersInv, NEW c \in Callers, NEW pc \in Places, NEW n \in Nat,
         caller' = [caller EXCEPT ![c].pc = pc, ![c].open = n],
         caller[c].pc # "waiting", pc # "waiting",
         Working(c) => Working(c)',
         UNCHANGED announced
  PROVE  /\ caller' \in [Callers -> CallerRow]
         /\ AnnouncedWork' /\ OnlyWaitersWait' /\ WaitersAreServed'
<1>1. caller' \in [Callers -> CallerRow]
  BY DEF WaitersInv, CoversTypeOK, CallerRow
<1>2. \A d \in Callers : /\ d # c => caller'[d] = caller[d]
                         /\ caller'[d].waits = caller[d].waits
  BY DEF WaitersInv, CoversTypeOK, CallerRow
<1>3. \A d \in Callers : Working(d) => Working(d)'
  BY <1>2 DEF Working
<1>4. caller'[c].pc = pc
  BY DEF WaitersInv, CoversTypeOK, CallerRow
<1>5. \A d \in Callers : caller[d].pc = "waiting" => caller[d].waits \in Callers
  BY DEF WaitersInv, CoversTypeOK, CallerRow, OnlyWaitersWait
<1>6. AnnouncedWork'
  BY <1>3 DEF WaitersInv, AnnouncedWork, CoversTypeOK
<1>7. OnlyWaitersWait'
  BY <1>2, <1>4 DEF WaitersInv, OnlyWaitersWait
<1>8. WaitersAreServed'
  BY <1>2, <1>3, <1>4, <1>5 DEF WaitersInv, WaitersAreServed
<1> QED
  BY <1>1, <1>6, <1>7, <1>8

LEMMA GoesOnTyped ==
  ASSUME WaitersInv, NEW c \in Callers, NEW pc \in Places \ {"waiting"},
         Goes(c, pc), caller[c].pc # "waiting",
         Working(c) => pc \in {"token", "fetching", "create", "writing", "renaming", "ending"},
         UNCHANGED <<announced, clash>>, disk' \in [cover : Nat, temp : Nat, whole : SUBSET Nat]
  PROVE  WaitersInv'
<1>1. caller[c].open \in Nat /\ caller' = [caller EXCEPT ![c].pc = pc, ![c].open = caller[c].open]
  BY DEF Goes, WaitersInv, CoversTypeOK, CallerRow
<1>2. Working(c) => Working(c)'
  BY DEF Goes, Working, WaitersInv, CoversTypeOK
<1>3. /\ caller' \in [Callers -> CallerRow]
      /\ AnnouncedWork' /\ OnlyWaitersWait' /\ WaitersAreServed'
  BY <1>1, <1>2, GoesOn
<1> QED
  BY <1>3 DEF WaitersInv, CoversTypeOK

LEMMA StartWaits ==
  ASSUME WaitersInv, NEW c \in Callers, StartCover(c)
  PROVE  WaitersInv'
<1> DEFINE other == announced[ServiceOf[c]]
<1>1. /\ ServiceOf[c] \in Services /\ other \in Callers \cup {NoCaller}
      /\ other # NoCaller => Working(other)
  BY DEF WaitersInv, CoversTypeOK, AnnouncedWork
<1>2. /\ caller' \in [Callers -> CallerRow]
      /\ \A d \in Callers \ {c} : caller'[d] = caller[d]
      /\ caller'[c].pc = IF other = NoCaller THEN "looking" ELSE "waiting"
      /\ caller'[c].waits = other
  BY <1>1 DEF StartCover, WaitersInv, CoversTypeOK, CallerRow, Places
<1>3. \A d \in Callers : Working(d) => d # c /\ Working(d)'
  BY <1>2 DEF StartCover, Working
<1> HIDE DEF other
<1>4. CoversTypeOK'
  BY <1>2 DEF StartCover, WaitersInv, CoversTypeOK
<1>5. AnnouncedWork'
  BY <1>3 DEF StartCover, WaitersInv, CoversTypeOK, AnnouncedWork
<1>6. OnlyWaitersWait'
  BY <1>2 DEF WaitersInv, OnlyWaitersWait
<1>7. \A d \in Callers : caller[d].pc = "waiting" => caller[d].waits \in Callers
  BY DEF WaitersInv, CoversTypeOK, CallerRow, OnlyWaitersWait
<1>8. WaitersAreServed'
  BY <1>1, <1>2, <1>3, <1>7 DEF WaitersInv, WaitersAreServed
<1> QED
  BY <1>4, <1>5, <1>6, <1>8 DEF WaitersInv

LEMMA AnnounceWaits ==
  ASSUME WaitersInv, NEW c \in Callers, Announce(c)
  PROVE  WaitersInv'
<1>1. /\ caller' \in [Callers -> CallerRow]
      /\ \A d \in Callers \ {c} : caller'[d] = caller[d]
      /\ caller'[c].pc = "token" /\ caller'[c].waits = caller[c].waits
  BY DEF Announce, Goes, WaitersInv, CoversTypeOK, CallerRow, Places
<1>2. /\ announced' \in [Services -> Callers \cup {NoCaller}]
      /\ announced'[ServiceOf[c]] = c
      /\ \A s \in Services \ {ServiceOf[c]} : announced'[s] = announced[s]
  BY DEF Announce, WaitersInv, CoversTypeOK
<1>3. Working(c)' /\ \A d \in Callers : Working(d) => Working(d)'
  BY <1>1 DEF Working
<1>4. CoversTypeOK'
  BY <1>1, <1>2 DEF Announce, WaitersInv, CoversTypeOK
<1>5. AnnouncedWork'
  BY <1>2, <1>3 DEF WaitersInv, CoversTypeOK, AnnouncedWork
<1>6. OnlyWaitersWait'
  BY <1>1 DEF Announce, WaitersInv, OnlyWaitersWait
<1>7. \A d \in Callers : caller[d].pc = "waiting" => caller[d].waits \in Callers
  BY DEF WaitersInv, CoversTypeOK, CallerRow, OnlyWaitersWait
<1>8. WaitersAreServed'
  BY <1>1, <1>3, <1>7 DEF WaitersInv, WaitersAreServed
<1> QED
  BY <1>4, <1>5, <1>6, <1>8 DEF WaitersInv

LEMMA EndWaits ==
  ASSUME WaitersInv, NEW c \in Callers, EndCover(c)
  PROVE  WaitersInv'
<1>0. \A d \in Callers : caller[d] \in CallerRow
  BY DEF WaitersInv, CoversTypeOK
<1>1. caller'[c] = Idle
  BY DEF EndCover
<1>2. \A d \in Callers \ {c} : caller[d].waits # c => caller'[d] = caller[d]
  BY DEF EndCover
<1>3. \A d \in Callers \ {c} : caller[d].waits = c =>
         caller'[d] = [caller[d] EXCEPT !.pc = "looking", !.waits = NoCaller]
  BY DEF EndCover
<1>4. \A d \in Callers : [caller[d] EXCEPT !.pc = "looking", !.waits = NoCaller] \in CallerRow
  BY <1>0 DEF CallerRow, Places
<1>5. caller' \in [Callers -> CallerRow]
  BY <1>0, <1>4, IdleRow DEF EndCover
<1>6. /\ announced' \in [Services -> Callers \cup {NoCaller}]
      /\ announced'[ServiceOf[c]] = NoCaller
      /\ \A s \in Services \ {ServiceOf[c]} : announced'[s] = announced[s]
  BY DEF EndCover, WaitersInv, CoversTypeOK
<1>7. caller'[c].pc = "idle" /\ caller'[c].waits = NoCaller
  <2>1. Idle.pc = "idle" /\ Idle.waits = NoCaller
    BY DEF Idle
  <2> QED
    BY <1>1, <2>1
<1>8. ASSUME NEW d \in Callers \ {c}, caller[d].waits = c
      PROVE  caller'[d].pc = "looking" /\ caller'[d].waits = NoCaller
  <2>1. caller'[d] = [caller[d] EXCEPT !.pc = "looking", !.waits = NoCaller]
    BY <1>3, <1>8
  <2> QED
    BY <1>0, <2>1 DEF CallerRow
<1>9. ASSUME NEW d \in Callers \ {c}, Working(d)
      PROVE  caller'[d] = caller[d]
  <2>1. caller[d].waits # c
    BY <1>0, <1>9 DEF Working, WaitersInv, OnlyWaitersWait
  <2> QED
    BY <1>2, <2>1
<1>10. CoversTypeOK'
  BY <1>5, <1>6 DEF EndCover, WaitersInv, CoversTypeOK
<1>11. AnnouncedWork'
  BY <1>6, <1>9 DEF Working, WaitersInv, CoversTypeOK, AnnouncedWork
<1>12. OnlyWaitersWait'
  <2> SUFFICES ASSUME NEW d \in Callers
               PROVE  caller'[d].pc = "waiting" <=> caller'[d].waits # NoCaller
    BY DEF OnlyWaitersWait
  <2>1. caller[d].pc = "waiting" <=> caller[d].waits # NoCaller
    BY DEF WaitersInv, OnlyWaitersWait
  <2> QED
    BY <1>2, <1>7, <1>8, <2>1
<1>13. WaitersAreServed'
  <2> SUFFICES ASSUME NEW d \in Callers, caller'[d].pc = "waiting"
               PROVE  Working(caller[d].waits)' /\ caller'[d].waits = caller[d].waits
    BY DEF WaitersAreServed, Working
  <2>1. d # c /\ caller[d].waits # c
    BY <1>7, <1>8
  <2>2. caller'[d] = caller[d]
    BY <2>1, <1>2
  <2>3. caller[d].waits \in Callers \ {c}
    BY <1>0, <2>1, <2>2 DEF CallerRow, WaitersInv, OnlyWaitersWait
  <2>4. Working(caller[d].waits)
    BY <2>2 DEF WaitersInv, WaitersAreServed
  <2>5. caller'[caller[d].waits] = caller[caller[d].waits]
    BY <1>9, <2>3, <2>4
  <2> QED
    BY <2>2, <2>4, <2>5 DEF Working
<1> QED
  BY <1>10, <1>11, <1>12, <1>13 DEF WaitersInv

LEMMA RestartWaits ==
  ASSUME WaitersInv, CoversRestart
  PROVE  WaitersInv'
<1>1. CoversTypeOK'
  BY IdleRow DEF CoversRestart, WaitersInv, CoversTypeOK
<1> QED
  BY <1>1 DEF CoversRestart, WaitersInv, AnnouncedWork, OnlyWaitersWait, WaitersAreServed, Idle

-----------------------------------------------------------------------------
(* There are more inodes than callers, so one is neither the cover nor      *)
(* open: if each were, two of them would be held by the same caller.        *)
LEMMA AnInodeIsFree ==
  ASSUME CoversTypeOK, OnlySaversOpen, NEW c \in Callers, caller[c].pc = "create"
  PROVE  \E i \in Inodes : i # disk.cover /\ \A d \in Callers : caller[d].open # i
<1> SUFFICES ASSUME \A i \in Inodes : i # disk.cover => \E d \in Callers : caller[d].open = i
             PROVE  FALSE
  OBVIOUS
<1>1. caller[c].open = NoFile
  BY DEF OnlySaversOpen, Saving
<1>2. Cardinality(Callers) \in Nat
  BY FS_CardinalityType
<1>3. IsFiniteSet(Inodes) /\ Cardinality(Inodes) = Cardinality(Callers) + 1
  BY <1>2, FS_Interval DEF Inodes
<1>4. NoFile \notin Inodes
  BY <1>2 DEF Inodes, NoFile
<1> DEFINE holder == [i \in Inodes |-> IF i = disk.cover THEN c
                                     ELSE CHOOSE d \in Callers : caller[d].open = i]
<1>5. \A i \in Inodes : i # disk.cover => holder[i] \in Callers /\ caller[holder[i]].open = i
  OBVIOUS
<1>6. \A i \in Inodes : i = disk.cover => holder[i] = c
  OBVIOUS
<1>7. holder \in [Inodes -> Callers]
  BY <1>5, <1>6
<1> HIDE DEF holder
<1>8. PICK i, j \in Inodes : i # j /\ holder[i] = holder[j]
  BY <1>2, <1>3, <1>7, FS_PigeonHole
<1> QED
  BY <1>1, <1>4, <1>5, <1>6, <1>8

(* The inode that os.Create gives.                                          *)
LEMMA OpenedIsApart ==
  ASSUME CoversInv, NEW c \in Callers, caller[c].pc = "create"
  PROVE  /\ Opened \in Nat /\ Opened # NoFile
         /\ ~clash => Opened # disk.cover
<1>1. CASE disk.temp # NoFile
  BY <1>1 DEF Opened, CoversInv, WaitersInv, CoversTypeOK, FilesInv, TempIsApart
<1>2. CASE disk.temp = NoFile
  <2>1. \E i \in Inodes : i # disk.cover /\ \A d \in Callers : caller[d].open # i
    BY AnInodeIsFree DEF CoversInv, WaitersInv
  <2>2. Opened \in Inodes /\ Opened # disk.cover
    BY <1>2, <2>1 DEF Opened
  <2> QED
    BY <2>2, InodesAreNumbers DEF NoFile
<1> QED
  BY <1>1, <1>2

LEMMA SavingWaits ==
  ASSUME CoversInv, NEW c \in Callers,
         CreateTemp(c) \/ WriteTemp(c) \/ WriteFails(c) \/ RenameTemp(c)
  PROVE  WaitersInv'
<1>0. WaitersInv
  BY DEF CoversInv
<1>1. CASE CreateTemp(c)
  <2>1. Opened \in Nat
    BY <1>1, OpenedIsApart DEF CreateTemp
  <2>2. /\ caller' \in [Callers -> CallerRow]
        /\ AnnouncedWork' /\ OnlyWaitersWait' /\ WaitersAreServed'
    <3>1. Working(c) => Working(c)'
      BY <1>1, <1>0, <2>1 DEF CreateTemp, Working, WaitersInv, CoversTypeOK, CallerRow
    <3> QED
      BY <1>0, <1>1, <2>1, <3>1, GoesOn DEF CreateTemp, Places
  <2>3. disk' \in [cover : Nat, temp : Nat, whole : SUBSET Nat]
    BY <1>0, <1>1, <2>1 DEF CreateTemp, WaitersInv, CoversTypeOK
  <2> QED
    BY <1>0, <1>1, <2>2, <2>3 DEF CreateTemp, WaitersInv, CoversTypeOK
<1>2. CASE WriteTemp(c)
  <2>1. disk' \in [cover : Nat, temp : Nat, whole : SUBSET Nat]
    <3>1. caller[c].open \in Nat
      BY <1>0 DEF WaitersInv, CoversTypeOK, CallerRow
    <3> QED
      BY <1>0, <1>2, <3>1 DEF WriteTemp, WaitersInv, CoversTypeOK
  <2> QED
    BY <1>0, <1>2, <2>1, GoesOnTyped DEF WriteTemp, Places
<1>3. CASE WriteFails(c) \/ RenameTemp(c)
  <2>1. Working(c) => Working(c)'
    BY <1>0, <1>3 DEF WriteFails, RenameTemp, Working, WaitersInv, CoversTypeOK, CallerRow
  <2>2. /\ caller' \in [Callers -> CallerRow]
        /\ AnnouncedWork' /\ OnlyWaitersWait' /\ WaitersAreServed'
    BY <1>0, <1>3, <2>1, GoesOn DEF WriteFails, RenameTemp, Places, NoFile
  <2>3. disk' \in [cover : Nat, temp : Nat, whole : SUBSET Nat]
    <3>1. disk \in [cover : Nat, temp : Nat, whole : SUBSET Nat] /\ 0 \in Nat
      BY <1>0 DEF WaitersInv, CoversTypeOK
    <3>2. CASE disk' = [disk EXCEPT !.temp = 0]
      BY <3>1, <3>2
    <3>3. CASE disk' = [disk EXCEPT !.cover = disk.temp, !.temp = 0]
      BY <3>1, <3>3
    <3> QED
      BY <1>3, <3>1, <3>2, <3>3 DEF WriteFails, RenameTemp, NoFile
  <2> QED
    BY <1>0, <1>3, <2>2, <2>3 DEF WriteFails, RenameTemp, WaitersInv, CoversTypeOK
<1> QED
  BY <1>1, <1>2, <1>3

LEMMA WaitersStep == CoversInv /\ [CoversNext]_coverVars => WaitersInv'
<1> SUFFICES ASSUME CoversInv, [CoversNext]_coverVars PROVE WaitersInv'
  OBVIOUS
<1>0. WaitersInv
  BY DEF CoversInv
<1>1. ASSUME NEW c \in Callers, StartCover(c) PROVE WaitersInv'
  BY <1>0, <1>1, StartWaits
<1>2. ASSUME NEW c \in Callers, Announce(c) PROVE WaitersInv'
  BY <1>0, <1>2, AnnounceWaits
<1>3. ASSUME NEW c \in Callers, LookForCover(c) PROVE WaitersInv'
  <2>1. PICK pc \in {"idle", "announce"} : Goes(c, pc)
    BY <1>3 DEF LookForCover
  <2> QED
    BY <1>0, <1>3, <2>1, GoesOnTyped DEF LookForCover, Working, Places, WaitersInv, CoversTypeOK
<1>4. ASSUME NEW c \in Callers, GetToken(c) \/ FetchCover(c) PROVE WaitersInv'
  <2>1. PICK pc \in {"fetching", "create", "ending"} : Goes(c, pc)
    BY <1>4 DEF GetToken, FetchCover
  <2> QED
    BY <1>0, <1>4, <2>1, GoesOnTyped DEF GetToken, FetchCover, Places, WaitersInv, CoversTypeOK
<1>5. ASSUME NEW c \in Callers,
             CreateTemp(c) \/ WriteTemp(c) \/ WriteFails(c) \/ RenameTemp(c)
      PROVE  WaitersInv'
  BY <1>5, SavingWaits
<1>6. ASSUME NEW c \in Callers, EndCover(c) PROVE WaitersInv'
  BY <1>0, <1>6, EndWaits
<1>7. CASE CoversRestart
  BY <1>0, <1>7, RestartWaits
<1>8. CASE UNCHANGED coverVars
  BY <1>0, <1>8 DEF coverVars, WaitersInv, CoversTypeOK, AnnouncedWork, OnlyWaitersWait,
                    WaitersAreServed, Working
<1> QED
  BY <1>1, <1>2, <1>3, <1>4, <1>5, <1>6, <1>7, <1>8 DEF CoversNext

-----------------------------------------------------------------------------
(* A step that leaves the files alone, and after which nobody saves or      *)
(* renames who did not before.                                              *)
LEMMA LeavesFiles ==
  ASSUME CoversInv, UNCHANGED <<disk, clash>>,
         \A d \in Callers : d \in Saving' => d \in Saving /\ caller'[d] = caller[d],
         \A d \in Callers : caller'[d].open # NoFile => d \in Saving'
  PROVE  OnlySaversOpen' /\ FilesInv'
<1>1. OnlySaversOpen'
  BY DEF OnlySaversOpen
<1>2. ASSUME ~clash
      PROVE  OneSaves' /\ SavesToTemp' /\ RenamesWhole' /\ TempIsApart'
  <2>1. OneSaves /\ SavesToTemp /\ RenamesWhole /\ TempIsApart
    BY <1>2 DEF CoversInv, FilesInv
  <2>2. Saving' \subseteq Callers
    BY DEF Saving
  <2>3. OneSaves' /\ SavesToTemp' /\ TempIsApart'
    BY <2>1, <2>2 DEF OneSaves, SavesToTemp, TempIsApart
  <2>4. RenamesWhole'
    BY <2>1 DEF RenamesWhole, Saving
  <2> QED
    BY <2>3, <2>4
<1> QED
  BY <1>1, <1>2 DEF CoversInv, FilesInv

LEMMA MovesOn ==
  ASSUME CoversInv, NEW c \in Callers, UNCHANGED <<disk, clash>>,
         StartCover(c) \/ LookForCover(c) \/ Announce(c) \/ GetToken(c) \/ FetchCover(c)
           \/ EndCover(c)
  PROVE  OnlySaversOpen' /\ FilesInv'
<1>0. \A d \in Callers : caller[d] \in CallerRow
  BY DEF CoversInv, WaitersInv, CoversTypeOK
<1>1. c \notin Saving /\ caller[c].open = NoFile
  BY DEF StartCover, LookForCover, Announce, GetToken, FetchCover, EndCover, Saving,
         CoversInv, OnlySaversOpen
<1>2. CASE StartCover(c) \/ LookForCover(c) \/ Announce(c) \/ GetToken(c) \/ FetchCover(c)
  <2>1. /\ \A d \in Callers \ {c} : caller'[d] = caller[d]
        /\ caller'[c].pc \notin {"writing", "renaming"} /\ caller'[c].open = NoFile
    BY <1>0, <1>1, <1>2 DEF StartCover, LookForCover, Announce, GetToken, FetchCover, Goes,
       CoversInv, WaitersInv, CoversTypeOK, CallerRow
  <2> QED
    BY <1>1, <2>1, LeavesFiles DEF Saving, CoversInv, OnlySaversOpen
<1>3. CASE EndCover(c)
  <2>1. caller'[c] = Idle
    BY <1>3 DEF EndCover
  <2>2. \A d \in Callers \ {c} : caller[d].waits # c => caller'[d] = caller[d]
    BY <1>3 DEF EndCover
  <2>3. ASSUME NEW d \in Callers \ {c}, caller[d].waits = c
        PROVE  caller'[d].pc = "looking" /\ caller'[d].open = NoFile
    <3>1. caller'[d] = [caller[d] EXCEPT !.pc = "looking", !.waits = NoCaller]
      BY <1>3, <2>3 DEF EndCover
    <3>2. caller[d].pc = "waiting"
      BY <2>3 DEF CoversInv, WaitersInv, OnlyWaitersWait
    <3> QED
      BY <1>0, <3>1, <3>2 DEF CallerRow, CoversInv, OnlySaversOpen, Saving
  <2>4. caller'[c].pc = "idle" /\ caller'[c].open = NoFile
    <3>1. Idle.pc = "idle" /\ Idle.open = NoFile
      BY DEF Idle
    <3> QED
      BY <2>1, <3>1
  <2>5. \A d \in Callers : d \in Saving' => d \in Saving /\ caller'[d] = caller[d]
    BY <2>2, <2>3, <2>4 DEF Saving
  <2>6. \A d \in Callers : caller'[d].open # NoFile => d \in Saving'
    BY <2>2, <2>3, <2>4 DEF CoversInv, OnlySaversOpen, Saving
  <2> QED
    BY <2>5, <2>6, LeavesFiles
<1> QED
  BY <1>2, <1>3

LEMMA CreatesTemp ==
  ASSUME CoversInv, NEW c \in Callers, CreateTemp(c)
  PROVE  OnlySaversOpen' /\ FilesInv'
<1>1. Opened \in Nat /\ Opened # NoFile /\ (~clash => Opened # disk.cover)
  BY OpenedIsApart DEF CreateTemp
<1>2. /\ caller'[c].pc = "writing" /\ caller'[c].open = Opened
      /\ \A d \in Callers \ {c} : caller'[d] = caller[d]
  BY DEF CreateTemp, CoversInv, WaitersInv, CoversTypeOK, CallerRow
<1>3. /\ disk'.temp = Opened /\ disk'.cover = disk.cover
      /\ disk'.whole = disk.whole \ {Opened}
  BY DEF CreateTemp, CoversInv, WaitersInv, CoversTypeOK
<1>4. OnlySaversOpen'
  BY <1>2 DEF CoversInv, OnlySaversOpen, Saving
<1>5. ASSUME ~clash'
      PROVE  /\ OneSaves' /\ SavesToTemp' /\ RenamesWhole' /\ TempIsApart'
             /\ disk'.cover \in disk'.whole \cup {NoFile}
  <2>1. ~clash /\ Saving = {}
    BY <1>5 DEF CreateTemp
  <2>2. Saving' = {c}
    BY <1>2, <2>1 DEF Saving
  <2>3. \A d \in Callers : caller'[d].pc # "renaming"
    BY <1>2, <2>1 DEF Saving
  <2>4. disk.cover \in disk.whole \cup {NoFile}
    BY <2>1 DEF CoversInv, FilesInv
  <2> QED
    BY <1>1, <1>2, <1>3, <2>1, <2>2, <2>3, <2>4 DEF OneSaves, SavesToTemp, RenamesWhole, TempIsApart
<1> QED
  BY <1>4, <1>5 DEF FilesInv

LEMMA WritesTemp ==
  ASSUME CoversInv, NEW c \in Callers, WriteTemp(c)
  PROVE  OnlySaversOpen' /\ FilesInv'
<1>1. /\ caller'[c].pc = "renaming" /\ caller'[c].open = caller[c].open
      /\ \A d \in Callers \ {c} : caller'[d] = caller[d]
  BY DEF WriteTemp, Goes, CoversInv, WaitersInv, CoversTypeOK, CallerRow
<1>2. /\ disk'.temp = disk.temp /\ disk'.cover = disk.cover
      /\ disk'.whole = disk.whole \cup {caller[c].open}
  BY DEF WriteTemp, CoversInv, WaitersInv, CoversTypeOK
<1>3. c \in Saving /\ Saving' = Saving
  BY <1>1 DEF Saving, WriteTemp
<1>4. OnlySaversOpen'
  BY <1>1, <1>3 DEF CoversInv, OnlySaversOpen
<1>5. ASSUME ~clash
      PROVE  /\ OneSaves' /\ SavesToTemp' /\ RenamesWhole' /\ TempIsApart'
             /\ disk'.cover \in disk'.whole \cup {NoFile}
  <2>1. /\ OneSaves /\ SavesToTemp /\ RenamesWhole /\ TempIsApart
        /\ disk.cover \in disk.whole \cup {NoFile}
    BY <1>5 DEF CoversInv, FilesInv
  <2>2. OneSaves' /\ TempIsApart' /\ disk'.cover \in disk'.whole \cup {NoFile}
    BY <1>2, <1>3, <2>1 DEF OneSaves, TempIsApart
  <2>3. SavesToTemp'
    BY <1>1, <1>2, <1>3, <2>1 DEF SavesToTemp, Saving
  <2>4. RenamesWhole'
    BY <1>1, <1>2, <1>3, <2>1 DEF RenamesWhole, SavesToTemp
  <2> QED
    BY <2>2, <2>3, <2>4
<1> QED
  BY <1>4, <1>5 DEF WriteTemp, FilesInv

LEMMA EndsSaving ==
  ASSUME CoversInv, NEW c \in Callers, WriteFails(c) \/ RenameTemp(c)
  PROVE  OnlySaversOpen' /\ FilesInv'
<1>1. /\ caller'[c].pc = "ending" /\ caller'[c].open = NoFile
      /\ \A d \in Callers \ {c} : caller'[d] = caller[d]
  BY DEF WriteFails, RenameTemp, CoversInv, WaitersInv, CoversTypeOK, CallerRow
<1>2. c \in Saving /\ Saving' = Saving \ {c}
  BY <1>1 DEF Saving, WriteFails, RenameTemp
<1>3. OnlySaversOpen'
  BY <1>1, <1>2 DEF CoversInv, OnlySaversOpen
<1>4. ASSUME ~clash
      PROVE  /\ OneSaves' /\ SavesToTemp' /\ RenamesWhole' /\ TempIsApart'
             /\ disk'.cover \in disk'.whole \cup {NoFile}
  <2>1. /\ OneSaves /\ SavesToTemp /\ RenamesWhole /\ TempIsApart
        /\ disk.cover \in disk.whole \cup {NoFile}
    BY <1>4 DEF CoversInv, FilesInv
  <2>2. Saving' = {}
    BY <1>2, <2>1 DEF OneSaves
  <2>3. OneSaves' /\ SavesToTemp' /\ RenamesWhole'
    BY <2>2 DEF OneSaves, SavesToTemp, RenamesWhole, Saving
  <2>4. CASE WriteFails(c)
    <3>1. disk'.temp = NoFile /\ disk'.cover = disk.cover /\ disk'.whole = disk.whole
      BY <2>4 DEF WriteFails, CoversInv, WaitersInv, CoversTypeOK
    <3> QED
      BY <2>1, <2>3, <3>1 DEF TempIsApart
  <2>5. CASE RenameTemp(c)
    <3>1. disk.temp # NoFile /\ disk.temp \in disk.whole
      BY <1>2, <2>1, <2>5 DEF SavesToTemp, RenamesWhole, RenameTemp
    <3>2. disk'.temp = NoFile /\ disk'.cover = disk.temp /\ disk'.whole = disk.whole
      BY <2>5, <3>1 DEF RenameTemp, CoversInv, WaitersInv, CoversTypeOK
    <3> QED
      BY <2>3, <3>1, <3>2 DEF TempIsApart
  <2> QED
    BY <2>4, <2>5
<1> QED
  BY <1>3, <1>4 DEF WriteFails, RenameTemp, FilesInv

LEMMA FilesStep == CoversInv /\ [CoversNext]_coverVars => OnlySaversOpen' /\ FilesInv'
<1> SUFFICES ASSUME CoversInv, [CoversNext]_coverVars PROVE OnlySaversOpen' /\ FilesInv'
  OBVIOUS
<1>1. ASSUME NEW c \in Callers,
             StartCover(c) \/ LookForCover(c) \/ Announce(c) \/ GetToken(c) \/ FetchCover(c)
               \/ EndCover(c)
      PROVE  OnlySaversOpen' /\ FilesInv'
  <2>1. UNCHANGED <<disk, clash>>
    BY <1>1 DEF StartCover, LookForCover, Announce, GetToken, FetchCover, EndCover
  <2> QED
    BY <1>1, <2>1, MovesOn
<1>2. ASSUME NEW c \in Callers,
             CreateTemp(c) \/ WriteTemp(c) \/ WriteFails(c) \/ RenameTemp(c)
      PROVE  OnlySaversOpen' /\ FilesInv'
  BY <1>2, CreatesTemp, WritesTemp, EndsSaving
<1>3. CASE CoversRestart
  <2>1. \A d \in Callers : caller'[d].pc = "idle" /\ caller'[d].open = NoFile
    BY <1>3 DEF CoversRestart, Idle
  <2> QED
    BY <1>3, <2>1, LeavesFiles DEF CoversRestart, Saving
<1>4. CASE UNCHANGED coverVars
  BY <1>4, LeavesFiles DEF coverVars, Saving, CoversInv, OnlySaversOpen
<1> QED
  BY <1>1, <1>2, <1>3, <1>4 DEF CoversNext

-----------------------------------------------------------------------------
THEOREM CoversInvariant == CoversSpec => []CoversInv
<1>1. CoversInv /\ [CoversNext]_coverVars => CoversInv'
  BY WaitersStep, FilesStep DEF CoversInv
<1> QED
  BY CoversStart, <1>1, PTL DEF CoversSpec

(* Whoever waits for a download waits for one that is still being worked    *)
(* on, whatever announcements others overwrite or remove                    *)
(* (getPendingDownload, markPendingDownload, unmarkPendingDownload).        *)
THEOREM WaitersServed == CoversSpec => []WaitersAreServed
<1>1. CoversInv => WaitersAreServed
  BY DEF CoversInv, WaitersInv
<1> QED
  BY CoversInvariant, <1>1, PTL

(* A cover that is there is whole, whatever fails and whenever the program  *)
(* stops, unless two downloads of it were saved at once (saveFile).         *)
THEOREM CoversWhole == CoversSpec => []CoversAreWhole
<1>1. CoversInv => CoversAreWhole
  BY DEF CoversInv, FilesInv, CoversAreWhole
<1> QED
  BY CoversInvariant, <1>1, PTL
=============================================================================
