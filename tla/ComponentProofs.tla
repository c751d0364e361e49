---------------------------- MODULE ComponentProofs ----------------------------
(* What is proved of the small components that share no state: the task    *)
(* manager, the notification hub, the smart fetch, the rate limiter, the   *)
(* database migration, the choice of items, the cleanup of the logs, the   *)
(* import of backups and the renaming of files, each for every value of    *)
(* its constants.                                                          *)
EXTENDS TaskManager, NotificationHub, SmartFetch, RateLimiter, Migration, ItemSelection,
        LogWriter, Backups, FileRenaming, SequenceTheorems, FiniteSetTheorems, WellFoundedInduction, TLAPS

-----------------------------------------------------------------------------
(* The task manager: one background task at a time, and a true record of   *)
(* how each ended.                                                         *)
USE TaskAssumption

Returned == [id : TaskIds, outcome : Outcomes]
Entry == [id : TaskIds, end : Ends]

TasksTypeOK ==
  /\ task \in [last : 0 .. MaxTasks, current : 0 .. MaxTasks, cancelled : SUBSET TaskIds]
  /\ working \subseteq TaskIds
  /\ returned \subseteq Returned
  /\ history \in Seq(Entry)

(* The task that works, or whose end is to be recorded, is the current one, *)
(* and there is a current one only then.                                    *)
CurrentWorks ==
  \/ task.current = 0 /\ working = {} /\ returned = {}
  \/ task.current \in TaskIds /\ working = {task.current} /\ returned = {}
  \/ /\ task.current \in TaskIds /\ working = {}
     /\ \E o \in Outcomes : returned = {[id |-> task.current, outcome |-> o]}

(* Numbers are not used again, and a recorded task cannot be cancelled.     *)
NumbersGrow ==
  /\ task.current <= task.last
  /\ \A n \in task.cancelled : n <= task.last
  /\ \A i \in 1 .. Len(history) : history[i].id <= task.last /\ history[i].id # task.current

TasksInv == TasksTypeOK /\ CurrentWorks /\ NumbersGrow /\ CancelIsTold

-----------------------------------------------------------------------------
(* The history after an end was recorded: the end, then what it was before. *)
LEMMA RecordedEntries ==
  ASSUME TasksTypeOK, NEW t \in Returned
  PROVE  /\ Recorded(t) \in Seq(Entry)
         /\ Len(Recorded(t)) <= Len(history) + 1
         /\ \A i \in 1 .. Len(Recorded(t)) :
              Recorded(t)[i] = IF i = 1 THEN [id |-> t.id, end |-> EndOf(t)] ELSE history[i - 1]
<1> DEFINE entry == [id |-> t.id, end |-> EndOf(t)]
           all == <<entry>> \o history
           n == IF Len(all) > MaxHistory THEN MaxHistory ELSE Len(all)
<1>1. entry \in Entry
  BY DEF Entry, Returned, EndOf, Ends
<1>2. <<entry>> \in Seq(Entry) /\ Len(<<entry>>) = 1 /\ <<entry>>[1] = entry
  BY <1>1
<1>3. history \in Seq(Entry)
  BY DEF TasksTypeOK
<1>4. /\ all \in Seq(Entry) /\ Len(all) = 1 + Len(history)
      /\ \A i \in 1 .. Len(all) : all[i] = IF i <= 1 THEN <<entry>>[i] ELSE history[i - 1]
  <2> HIDE DEF entry
  <2> QED  BY <1>2, <1>3, ConcatProperties
<1>5. n \in 0 .. Len(all)
  <2> HIDE DEF all
  <2> QED  BY <1>4, LenProperties
<1>6. /\ SubSeq(all, 1, n) \in Seq(Entry) /\ Len(SubSeq(all, 1, n)) = n
      /\ \A i \in 1 .. n : SubSeq(all, 1, n)[i] = all[i]
  <2> HIDE DEF all, n
  <2> QED  BY <1>4, <1>5, SubSeqProperties
<1>7. Recorded(t) = SubSeq(all, 1, n)
  BY DEF Recorded
<1> HIDE DEF all, n, entry
<1>8. Len(history) \in Nat /\ Len(all) \in Nat
  BY <1>3, <1>4, LenProperties
<1>9. \A i \in 1 .. n : all[i] = IF i = 1 THEN entry ELSE history[i - 1]
  BY <1>2, <1>4, <1>5, <1>8
<1> QED
  BY <1>4, <1>5, <1>6, <1>7, <1>8, <1>9 DEF entry

LEMMA TasksInitInv == TasksInit => TasksInv
BY DEF TasksInit, TasksInv, TasksTypeOK, CurrentWorks, NumbersGrow, CancelIsTold, TaskIds

LEMMA StartTaskInv == TasksInv /\ StartTask => TasksInv'
<1> SUFFICES ASSUME TasksInv, StartTask PROVE TasksInv'
  OBVIOUS
<1>1. Len(history) \in Nat
  BY LenProperties DEF TasksInv, TasksTypeOK
<1>2. \A i \in 1 .. Len(history) : history[i] \in Entry
  BY DEF TasksInv, TasksTypeOK
<1>3. TasksTypeOK'
  <2> DEFINE n == task.last + 1
  <2>1. n \in 1 .. MaxTasks
    BY DEF TasksInv, TasksTypeOK, StartTask
  <2>2. task' = [task EXCEPT !.last = n, !.current = n]
    BY DEF StartTask
  <2> HIDE DEF n
  <2>3. task' \in [last : 0 .. MaxTasks, current : 0 .. MaxTasks, cancelled : SUBSET TaskIds]
    <3>1. n \in 0 .. MaxTasks
      BY <2>1
    <3> QED
      BY <3>1, <2>2 DEF TasksInv, TasksTypeOK
  <2>4. working' \subseteq TaskIds /\ returned' = returned /\ history' = history
    BY <2>1 DEF TasksInv, TasksTypeOK, StartTask, TaskIds, n
  <2> QED
    BY <2>3, <2>4 DEF TasksInv, TasksTypeOK
<1>4. /\ task'.current = task.last + 1 /\ task'.last = task.last + 1
      /\ task'.cancelled = task.cancelled /\ task.last \in Nat
  BY DEF TasksInv, TasksTypeOK, StartTask
<1>5. CurrentWorks'
  BY <1>4 DEF TasksInv, TasksTypeOK, CurrentWorks, StartTask, TaskIds
<1>6. NumbersGrow'
  BY <1>1, <1>2, <1>4 DEF TasksInv, TasksTypeOK, NumbersGrow, StartTask, Entry, TaskIds
<1>7. CancelIsTold'
  BY <1>4 DEF TasksInv, CancelIsTold, StartTask
<1> QED
  BY <1>3, <1>5, <1>6, <1>7 DEF TasksInv

LEMMA CancelCurrentInv == TasksInv /\ CancelCurrent => TasksInv'
BY LenProperties DEF TasksInv, TasksTypeOK, CurrentWorks, NumbersGrow, CancelIsTold, CancelCurrent,
   TaskIds, Entry

LEMMA ProcessRestartsInv == TasksInv /\ ProcessRestarts => TasksInv'
BY DEF TasksInv, TasksTypeOK, CurrentWorks, NumbersGrow, CancelIsTold, ProcessRestarts, TaskIds

LEMMA TaskReturnsInv ==
  ASSUME TasksInv, NEW n \in TaskIds, NEW o \in Outcomes, TaskReturns(n, o)
  PROVE  TasksInv'
BY DEF TasksInv, TasksTypeOK, CurrentWorks, NumbersGrow, CancelIsTold, TaskReturns, TaskIds,
   Returned

LEMMA RecordEndInv ==
  ASSUME TasksInv, NEW t \in returned, RecordEnd(t)
  PROVE  TasksInv'
<1>1. t \in Returned /\ TasksTypeOK
  BY DEF TasksInv, TasksTypeOK
<1>2. /\ history' \in Seq(Entry) /\ Len(history') <= Len(history) + 1
      /\ \A i \in 1 .. Len(history') :
           history'[i] = IF i = 1 THEN [id |-> t.id, end |-> EndOf(t)] ELSE history[i - 1]
  BY <1>1, RecordedEntries DEF RecordEnd
<1>3. Len(history) \in Nat /\ Len(history') \in Nat
  BY <1>1, <1>2, LenProperties DEF TasksTypeOK
<1>4. t.id = task.current /\ t.id \in TaskIds /\ working = {} /\ returned = {t}
  BY <1>1 DEF TasksInv, CurrentWorks
<1>5. EndOf(t) = "cancelled" <=> t.id \in task.cancelled
  BY DEF EndOf
<1>6. task' = [task EXCEPT !.current = 0] /\ working' = {} /\ returned' = {}
  BY <1>4 DEF RecordEnd
<1>7. \A i \in 1 .. Len(history') : i # 1 => i - 1 \in 1 .. Len(history)
  BY <1>2, <1>3
<1>8. TasksTypeOK'
  BY <1>1, <1>2, <1>6 DEF TasksTypeOK
<1>9. CurrentWorks'
  BY <1>1, <1>6 DEF TasksTypeOK, CurrentWorks
<1>10. NumbersGrow'
  <2>1. task'.last = task.last /\ task'.current = 0 /\ task'.cancelled = task.cancelled
    BY <1>1, <1>6 DEF TasksTypeOK
  <2>2. ASSUME NEW i \in 1 .. Len(history')
        PROVE  history'[i].id <= task.last /\ history'[i].id # 0
    <3>1. CASE i = 1
      BY <1>1, <1>2, <1>4, <3>1 DEF TasksInv, NumbersGrow, TaskIds
    <3>2. CASE i # 1
      <4>1. i - 1 \in 1 .. Len(history) /\ history'[i] = history[i - 1]
        BY <1>2, <1>7, <3>2
      <4>2. history[i - 1] \in Entry
        BY <1>1, <4>1 DEF TasksTypeOK
      <4> QED
        BY <4>1, <4>2 DEF TasksInv, NumbersGrow, Entry, TaskIds
    <3> QED
      BY <3>1, <3>2
  <2>3. task.last \in Nat /\ \A n \in task.cancelled : n <= task.last
    BY <1>1 DEF TasksTypeOK, TasksInv, NumbersGrow
  <2> QED
    BY <2>1, <2>2, <2>3 DEF NumbersGrow
<1>11. CancelIsTold'
  <2>1. ASSUME NEW i \in 1 .. Len(history')
        PROVE  history'[i].end = "cancelled" <=> history'[i].id \in task'.cancelled
    BY <1>1, <1>2, <1>5, <1>6, <1>7 DEF TasksTypeOK, TasksInv, CancelIsTold
  <2>2. ASSUME NEW i \in 1 .. Len(history'), NEW j \in 1 .. Len(history'),
               history'[i].id = history'[j].id
        PROVE  i = j
    <3>1. \A k \in 1 .. Len(history') : k # 1 => history'[k].id = history[k - 1].id
      BY <1>2
    <3>2. \A k \in 1 .. Len(history') : k # 1 => history'[k].id # t.id
      BY <1>4, <1>7, <3>1 DEF TasksInv, NumbersGrow
    <3>3. 1 \in 1 .. Len(history') => history'[1].id = t.id
      BY <1>2
    <3>4. CASE i = 1 \/ j = 1
      BY <2>2, <3>2, <3>3, <3>4
    <3>5. CASE i # 1 /\ j # 1
      <4>1. history[i - 1].id = history[j - 1].id
        BY <2>2, <3>1, <3>5
      <4>2. i - 1 = j - 1
        BY <1>7, <3>5, <4>1 DEF TasksInv, CancelIsTold
      <4> QED
        BY <4>2
    <3> QED
      BY <3>4, <3>5
  <2> QED
    BY <2>1, <2>2 DEF CancelIsTold
<1> QED
  BY <1>8, <1>9, <1>10, <1>11 DEF TasksInv

LEMMA TasksStep == TasksInv /\ [TasksNext]_taskVars => TasksInv'
<1> SUFFICES ASSUME TasksInv, [TasksNext]_taskVars PROVE TasksInv'
  OBVIOUS
<1>1. CASE StartTask  BY <1>1, StartTaskInv
<1>2. CASE CancelCurrent  BY <1>2, CancelCurrentInv
<1>3. CASE ProcessRestarts  BY <1>3, ProcessRestartsInv
<1>4. CASE \E n \in TaskIds, o \in Outcomes : TaskReturns(n, o)  BY <1>4, TaskReturnsInv
<1>5. CASE \E t \in returned : RecordEnd(t)  BY <1>5, RecordEndInv
<1>6. CASE UNCHANGED taskVars
  BY <1>6 DEF taskVars, TasksInv, TasksTypeOK, CurrentWorks, NumbersGrow, CancelIsTold
<1> QED
  BY <1>1, <1>2, <1>3, <1>4, <1>5, <1>6 DEF TasksNext

-----------------------------------------------------------------------------
LEMMA OneIsCounted ==
  ASSUME TasksTypeOK, CurrentWorks
  PROVE  OneTaskWorks
<1>1. Cardinality({}) = 0 /\ \A x : Cardinality({x}) = 1
  BY FS_EmptySet, FS_Singleton
<1>2. CASE working = {} /\ returned = {}
  BY <1>1, <1>2 DEF OneTaskWorks
<1>3. CASE working = {task.current} /\ returned = {}
  <2>1. Cardinality(working) = 1 /\ Cardinality(returned) = 0
    BY <1>1, <1>3
  <2> QED  BY <2>1 DEF OneTaskWorks
<1>4. CASE working = {} /\ \E o \in Outcomes : returned = {[id |-> task.current, outcome |-> o]}
  <2>1. Cardinality(working) = 0 /\ Cardinality(returned) = 1
    BY <1>1, <1>4
  <2> QED  BY <2>1 DEF OneTaskWorks
<1> QED
  BY <1>2, <1>3, <1>4 DEF CurrentWorks

(* However requests, cancels, the functions of the tasks and the recording *)
(* of their ends interleave, two tasks never work at the same time.        *)
THEOREM TasksWorkAlone == TasksSpec => []OneTaskWorks
<1>1. TasksInv => OneTaskWorks
  BY OneIsCounted DEF TasksInv
<1> QED
  BY <1>1, TasksInitInv, TasksStep, PTL DEF TasksSpec

(* The history says that a task was cancelled if and only if a cancel was  *)
(* accepted for it, and names it once.                                     *)
THEOREM CancelsAreTold == TasksSpec => []CancelIsTold
<1>1. TasksInv => CancelIsTold
  BY DEF TasksInv
<1> QED
  BY <1>1, TasksInitInv, TasksStep, PTL DEF TasksSpec

-----------------------------------------------------------------------------
(* The notification hub closes the channel of a client exactly once.       *)
HIDE TaskAssumption
USE HubAssumption

HubTypeOK ==
  /\ hub \in [registered : SUBSET Browsers, waiting : Nat, todo : SUBSET Browsers]
  /\ hub.todo \subseteq hub.registered
  /\ client \in [Browsers -> ClientRow]

(* What the goroutines of a client tell about its channel: it is open as    *)
(* long as the client is registered, and was closed by the hub once if it   *)
(* is not registered any more.                                              *)
ChannelFollowsReader ==
  \A b \in Browsers :
    /\ client[b].reader \in {"none", "registering"} =>
         client[b].closed = 0 /\ ~client[b].lost /\ b \notin hub.registered
    /\ client[b].reader \in {"reading", "leaving", "done"} =>
         client[b].closed = IF b \in hub.registered THEN 0 ELSE 1
    /\ client[b].reader = "done" \/ client[b].lost => b \notin hub.registered

HubInv == HubTypeOK /\ ChannelFollowsReader

-----------------------------------------------------------------------------
LEMMA AbsentRow == Absent \in ClientRow /\ Absent.closed = 0 /\ ~Absent.lost /\ Absent.reader = "none"
BY DEF Absent, ClientRow

LEMMA HubStart == HubInit => HubInv
<1> SUFFICES ASSUME HubInit PROVE HubInv
  OBVIOUS
<1>1. client \in [Browsers -> ClientRow] /\ \A b \in Browsers : client[b] = Absent
  BY AbsentRow DEF HubInit
<1>2. hub.registered = {} /\ hub.todo = {} /\ hub = [registered |-> {}, waiting |-> 0, todo |-> {}]
  BY DEF HubInit
<1>3. HubTypeOK
  BY <1>1, <1>2 DEF HubTypeOK, HubInit
<1>4. ChannelFollowsReader
  BY <1>1, <1>2, AbsentRow DEF ChannelFollowsReader
<1> QED
  BY <1>3, <1>4 DEF HubInv

(* The row of one client changes; the invariant has to be looked at for it  *)
(* alone if the others stay registered or not as they were.                 *)
LEMMA OneClient ==
  ASSUME HubInv, NEW b \in Browsers, NEW row \in ClientRow,
         client' = [client EXCEPT ![b] = row],
         NEW registered \in SUBSET Browsers, NEW todo \in SUBSET registered, NEW waiting \in Nat,
         hub' = [registered |-> registered, waiting |-> waiting, todo |-> todo],
         \A d \in Browsers \ {b} : d \in registered <=> d \in hub.registered,
         row.reader \in {"none", "registering"} =>
           row.closed = 0 /\ ~row.lost /\ b \notin registered,
         row.reader \in {"reading", "leaving", "done"} =>
           row.closed = IF b \in registered THEN 0 ELSE 1,
         row.reader = "done" \/ row.lost => b \notin registered
  PROVE  HubInv'
<1>1. hub'.registered = registered /\ hub'.waiting = waiting /\ hub'.todo = todo
  OBVIOUS
<1>2. client' \in [Browsers -> ClientRow]
  BY DEF HubInv, HubTypeOK
<1>3. client'[b] = row /\ \A d \in Browsers \ {b} : client'[d] = client[d]
  BY DEF HubInv, HubTypeOK
<1>4. HubTypeOK'
  BY <1>1, <1>2 DEF HubTypeOK
<1>5. ChannelFollowsReader'
  <2> SUFFICES ASSUME NEW d \in Browsers
               PROVE  /\ client'[d].reader \in {"none", "registering"} =>
                           client'[d].closed = 0 /\ ~client'[d].lost /\ d \notin hub'.registered
                      /\ client'[d].reader \in {"reading", "leaving", "done"} =>
                           client'[d].closed = IF d \in hub'.registered THEN 0 ELSE 1
                      /\ client'[d].reader = "done" \/ client'[d].lost => d \notin hub'.registered
    BY DEF ChannelFollowsReader
  <2>1. CASE d = b
    BY <1>1, <1>3, <2>1
  <2>2. CASE d # b
    BY <1>1, <1>3, <2>2 DEF HubInv, ChannelFollowsReader
  <2> QED
    BY <2>1, <2>2
<1> QED
  BY <1>4, <1>5 DEF HubInv

(* The same for a step that leaves the hub alone.                           *)
LEMMA OneClientAlone ==
  ASSUME HubInv, NEW b \in Browsers, NEW row \in ClientRow,
         client' = [client EXCEPT ![b] = row], UNCHANGED hub,
         row.closed = client[b].closed, row.lost => client[b].lost,
         row.reader \in {"none", "registering"} <=> client[b].reader \in {"none", "registering"},
         row.reader = "done" <=> client[b].reader = "done"
  PROVE  HubInv'
<1>1. /\ hub.registered \in SUBSET Browsers /\ hub.todo \in SUBSET hub.registered
      /\ hub.waiting \in Nat
      /\ hub' = [registered |-> hub.registered, waiting |-> hub.waiting, todo |-> hub.todo]
  BY DEF HubInv, HubTypeOK
<1>2. /\ row.reader \in {"none", "registering"} =>
           row.closed = 0 /\ ~row.lost /\ b \notin hub.registered
      /\ row.reader \in {"reading", "leaving", "done"} =>
           row.closed = IF b \in hub.registered THEN 0 ELSE 1
      /\ row.reader = "done" \/ row.lost => b \notin hub.registered
  <2>1. client[b] \in ClientRow
    BY DEF HubInv, HubTypeOK
  <2> QED
    BY <2>1 DEF HubInv, ChannelFollowsReader, ClientRow
<1> QED
  BY <1>1, <1>2, OneClient

LEMMA RowsAreRows == HubInv => \A b \in Browsers : client[b] \in ClientRow
BY DEF HubInv, HubTypeOK

LEMMA HubIsRecord ==
  HubInv => /\ hub.registered \in SUBSET Browsers /\ hub.todo \in SUBSET hub.registered
            /\ hub.waiting \in Nat
            /\ hub = [registered |-> hub.registered, waiting |-> hub.waiting, todo |-> hub.todo]
BY DEF HubInv, HubTypeOK

LEMMA ConnectKeeps == ASSUME HubInv, NEW b \in Browsers, Connect(b) PROVE HubInv'
<1> DEFINE row == [Absent EXCEPT !.reader = "registering", !.conn = TRUE]
<1>1. row \in ClientRow
  <2>1. "registering" \in {"none", "registering", "reading", "leaving", "done"} /\ TRUE \in BOOLEAN
    OBVIOUS
  <2> QED
    BY <2>1, AbsentRow DEF ClientRow
<1>2. row.closed = 0 /\ row.lost = FALSE /\ row.reader = "registering"
  BY DEF Absent
<1>3. client' = [client EXCEPT ![b] = row] /\ UNCHANGED hub /\ client[b].reader = "none"
  BY DEF Connect
<1>4. client[b].closed = 0
  BY <1>3 DEF HubInv, ChannelFollowsReader
<1> HIDE DEF row
<1> QED
  BY <1>1, <1>2, <1>3, <1>4, OneClientAlone

LEMMA RegisterKeeps == ASSUME HubInv, NEW b \in Browsers, Register(b) PROVE HubInv'
<1> DEFINE row == [client[b] EXCEPT !.reader = "reading", !.writer = "running"]
<1>0. client[b] \in ClientRow
  BY RowsAreRows
<1>1. /\ row \in ClientRow /\ row.reader = "reading"
      /\ row.closed = client[b].closed /\ row.lost = client[b].lost
  BY <1>0 DEF ClientRow
<1>2. client' = [client EXCEPT ![b] = row]
  BY DEF Register, HubInv, HubTypeOK
<1>3. client[b].closed = 0 /\ ~client[b].lost
  BY DEF Register, HubInv, ChannelFollowsReader
<1>4. hub' = [registered |-> hub.registered \cup {b}, waiting |-> hub.waiting, todo |-> {}]
  BY HubIsRecord DEF Register, HubIdle
<1> DEFINE registered == hub.registered \cup {b}
<1>5. /\ registered \in SUBSET Browsers /\ {} \in SUBSET registered /\ b \in registered
      /\ \A d \in Browsers \ {b} : d \in registered <=> d \in hub.registered
      /\ hub' = [registered |-> registered, waiting |-> hub.waiting, todo |-> {}]
  BY <1>4, HubIsRecord
<1>6. row.reader = "reading" /\ row.closed = 0 /\ ~row.lost
  BY <1>1, <1>3
<1> HIDE DEF row, registered
<1> QED
  BY <1>1, <1>2, <1>5, <1>6, HubIsRecord, OneClient

LEMMA UnregisterKeeps == ASSUME HubInv, NEW b \in Browsers, Unregister(b) PROVE HubInv'
<1> DEFINE closed == IF b \in hub.registered THEN client[b].closed + 1 ELSE client[b].closed
           row == [client[b] EXCEPT !.reader = "done", !.conn = FALSE, !.closed = closed]
<1>0. client[b] \in ClientRow
  BY RowsAreRows
<1>1. closed = 1 /\ closed \in 0 .. 2
  BY DEF Unregister, HubInv, ChannelFollowsReader
<1>2. client' = [client EXCEPT ![b] = row]
  BY DEF Unregister, HubInv, HubTypeOK
<1> HIDE DEF closed
<1>3. row \in ClientRow /\ row.reader = "done" /\ row.closed = closed
  BY <1>0, <1>1 DEF ClientRow
<1>4. hub' = [registered |-> hub.registered \ {b}, waiting |-> hub.waiting, todo |-> {}]
  BY HubIsRecord DEF Unregister, HubIdle
<1> DEFINE registered == hub.registered \ {b}
<1>5. /\ registered \in SUBSET Browsers /\ {} \in SUBSET registered /\ b \notin registered
      /\ \A d \in Browsers \ {b} : d \in registered <=> d \in hub.registered
      /\ hub' = [registered |-> registered, waiting |-> hub.waiting, todo |-> {}]
  BY <1>4, HubIsRecord
<1> HIDE DEF row, registered
<1> QED
  BY <1>1, <1>2, <1>3, <1>5, HubIsRecord, OneClient

LEMMA SendKeeps == ASSUME HubInv, NEW b \in Browsers, SendToClient(b) PROVE HubInv'
<1> DEFINE full == client[b].queued = SendBuffer
           queued == IF full THEN client[b].queued ELSE client[b].queued + 1
           conn == client[b].conn /\ ~full
           closed == IF full \/ client[b].closed > 0 THEN client[b].closed + 1 ELSE client[b].closed
           row == [client[b] EXCEPT !.queued = queued, !.conn = conn, !.closed = closed, !.lost = full]
           registered == IF full THEN hub.registered \ {b} ELSE hub.registered
           todo == hub.todo \ {b}
<1>0. client[b] \in ClientRow
  BY RowsAreRows
<1>1. /\ b \in hub.registered /\ client[b].closed = 0
      /\ client[b].reader \in {"reading", "leaving"}
  BY <1>0, HubIsRecord DEF SendToClient, HubInv, ChannelFollowsReader, ClientRow
<1>2. client' = [client EXCEPT ![b] = row]
  BY DEF SendToClient, HubInv, HubTypeOK
<1>3. hub' = [registered |-> registered, waiting |-> hub.waiting, todo |-> todo]
  BY HubIsRecord DEF SendToClient
<1>4. queued \in 0 .. SendBuffer
  BY <1>0 DEF ClientRow
<1>5. conn \in BOOLEAN /\ full \in BOOLEAN
  OBVIOUS
<1>6. closed \in 0 .. 2 /\ closed = IF full THEN 1 ELSE 0
  BY <1>1
<1>7. registered \in SUBSET Browsers /\ todo \in SUBSET registered
  BY HubIsRecord
<1>8. b \in registered <=> ~full
  BY <1>1
<1>9. \A d \in Browsers \ {b} : d \in registered <=> d \in hub.registered
  OBVIOUS
<1> HIDE DEF full, queued, conn, closed, registered, todo
<1>10. row \in ClientRow
  BY <1>0, <1>4, <1>5, <1>6 DEF ClientRow
<1>11. row.closed = closed /\ row.lost = full /\ row.reader = client[b].reader
  BY <1>0 DEF ClientRow
<1> HIDE DEF row
<1>12. row.reader \in {"reading", "leaving"}
  BY <1>1, <1>11
<1>13. row.closed = IF b \in registered THEN 0 ELSE 1
  BY <1>6, <1>8, <1>11
<1>14. row.lost => b \notin registered
  BY <1>8, <1>11
<1> QED
  BY <1>2, <1>3, <1>7, <1>9, <1>10, <1>12, <1>13, <1>14, HubIsRecord, OneClient

LEMMA GoroutineKeeps ==
  ASSUME HubInv, NEW b \in Browsers,
         Disconnect(b) \/ ReaderFails(b) \/ WriterSends(b) \/ WriterEnds(b)
  PROVE  HubInv'
<1>0. client[b] \in ClientRow
  BY RowsAreRows
<1>1. CASE Disconnect(b)
  <2> DEFINE row == [client[b] EXCEPT !.conn = FALSE]
  <2>1. row \in ClientRow /\ row.closed = client[b].closed /\ row.lost = client[b].lost
        /\ row.reader = client[b].reader
    BY <1>0 DEF ClientRow
  <2>2. client' = [client EXCEPT ![b] = row] /\ UNCHANGED hub
    BY <1>1 DEF Disconnect, HubInv, HubTypeOK
  <2> HIDE DEF row
  <2> QED
    BY <2>1, <2>2, OneClientAlone
<1>2. CASE ReaderFails(b)
  <2> DEFINE row == [client[b] EXCEPT !.reader = "leaving"]
  <2>1. row \in ClientRow /\ row.closed = client[b].closed /\ row.lost = client[b].lost
        /\ row.reader = "leaving" /\ client[b].reader = "reading"
    BY <1>0, <1>2 DEF ClientRow, ReaderFails
  <2>2. client' = [client EXCEPT ![b] = row] /\ UNCHANGED hub
    BY <1>2 DEF ReaderFails, HubInv, HubTypeOK
  <2> HIDE DEF row
  <2> QED
    BY <2>1, <2>2, OneClientAlone
<1>3. CASE WriterSends(b)
  <2> DEFINE row == [client[b] EXCEPT !.queued = 0]
  <2>1. row \in ClientRow /\ row.closed = client[b].closed /\ row.lost = client[b].lost
        /\ row.reader = client[b].reader
    BY <1>0 DEF ClientRow
  <2>2. client' = [client EXCEPT ![b] = row] /\ UNCHANGED hub
    BY <1>3 DEF WriterSends, HubInv, HubTypeOK
  <2> HIDE DEF row
  <2> QED
    BY <2>1, <2>2, OneClientAlone
<1>4. CASE WriterEnds(b)
  <2> DEFINE row == [client[b] EXCEPT !.writer = "done", !.conn = FALSE]
  <2>1. row \in ClientRow /\ row.closed = client[b].closed /\ row.lost = client[b].lost
        /\ row.reader = client[b].reader
    BY <1>0 DEF ClientRow
  <2>2. client' = [client EXCEPT ![b] = row] /\ UNCHANGED hub
    BY <1>4 DEF WriterEnds, HubInv, HubTypeOK
  <2> HIDE DEF row
  <2> QED
    BY <2>1, <2>2, OneClientAlone
<1> QED
  BY <1>1, <1>2, <1>3, <1>4

LEMMA HubAlone ==
  ASSUME HubInv, UNCHANGED client, NEW waiting \in Nat, NEW todo \in SUBSET hub.registered,
         hub' = [hub EXCEPT !.waiting = waiting, !.todo = todo]
  PROVE  HubInv'
<1>1. hub'.registered = hub.registered
  BY DEF HubInv, HubTypeOK
<1>2. HubTypeOK'
  BY DEF HubInv, HubTypeOK
<1> QED
  BY <1>1, <1>2 DEF HubInv, ChannelFollowsReader

LEMMA HubStep == HubInv /\ [HubNext]_hubVars => HubInv'
<1> SUFFICES ASSUME HubInv, [HubNext]_hubVars PROVE HubInv'
  OBVIOUS
<1>1. ASSUME NEW b \in Browsers,
             \/ Connect(b) \/ Register(b) \/ Disconnect(b) \/ ReaderFails(b) \/ Unregister(b)
             \/ WriterSends(b) \/ WriterEnds(b) \/ SendToClient(b)
      PROVE  HubInv'
  BY <1>1, ConnectKeeps, RegisterKeeps, UnregisterKeeps, SendKeeps, GoroutineKeeps
<1>2. CASE TakeBroadcast
  <2>1. hub' = [hub EXCEPT !.waiting = hub.waiting - 1, !.todo = hub.registered]
        /\ hub.waiting - 1 \in Nat /\ UNCHANGED client
    BY <1>2, HubIsRecord DEF TakeBroadcast
  <2> QED
    BY <2>1, HubAlone
<1>3. ASSUME NEW e \in Events, NEW enabled \in SUBSET Channels, SendNotice(e, enabled)
      PROVE  HubInv'
  <2> DEFINE waiting == IF hub.waiting < BroadcastBuffer THEN hub.waiting + 1 ELSE hub.waiting
  <2>1. waiting \in Nat
    BY HubIsRecord
  <2>2. hub' = [hub EXCEPT !.waiting = waiting, !.todo = hub.todo]
    BY <1>3 DEF SendNotice, Broadcast, HubInv, HubTypeOK
  <2> HIDE DEF waiting
  <2> QED
    BY <1>3, <2>1, <2>2, HubIsRecord, HubAlone DEF SendNotice
<1>4. CASE UNCHANGED <<hub, client>>
  BY <1>4 DEF HubInv, HubTypeOK, ChannelFollowsReader
<1> QED
  BY <1>1, <1>2, <1>3, <1>4 DEF HubNext, hubVars, DeliveryEnds, ForgetNotice

-----------------------------------------------------------------------------
THEOREM HubInvariant == HubSpec => []HubInv
BY HubStart, HubStep, PTL DEF HubSpec

(* The channel of a client is closed once and nothing is sent to a closed   *)
(* one; a client that left or was dropped has its channel closed (Run,      *)
(* readPump and writePump of the hub).                                      *)
THEOREM ChannelsAreClosedOnce == HubSpec => []ChannelsClosedOnce
<1>1. HubInv => ChannelsClosedOnce
  <2> SUFFICES ASSUME HubInv, NEW b \in Browsers
               PROVE  /\ client[b].closed <= 1
                      /\ b \in hub.registered => client[b].closed = 0
                      /\ client[b].lost \/ client[b].reader = "done" => client[b].closed = 1
    BY DEF ChannelsClosedOnce
  <2>1. client[b] \in ClientRow
    BY RowsAreRows
  <2> QED
    BY <2>1 DEF HubInv, ChannelFollowsReader, ClientRow
<1> QED
  BY HubInvariant, <1>1, PTL

-----------------------------------------------------------------------------
(* The smart fetch starves no subscription.                                 *)
LEMMA MaxStopNat == MaxStop \in Nat
BY FetchAssumption
HIDE HubAssumption
USE MaxStopNat

FetchTypeOK ==
  /\ strategy \in FetchSettings /\ sub \in FetchSubs
  /\ library \in Libraries
  /\ completed \in NotCompleted .. MaxStop
  /\ clock \in [weekday : 0 .. 6, checked : BOOLEAN, waited : 0 .. Week, incomplete : 0 .. MaxStop]

(* Days since the air day of the subscription.                              *)
DaysSinceAir == IF clock.weekday >= sub.air THEN clock.weekday - sub.air ELSE clock.weekday + Week - sub.air

(* On the air day a subscription waits no longer after the first check;     *)
(* without an air day it never waits after one.                             *)
WaitsSinceAir ==
  sub.rss =>
    IF clock.checked
    THEN clock.waited <= (IF sub.air = NoAirDay THEN 0 ELSE DaysSinceAir)
    ELSE sub.air = NoAirDay \/ DaysSinceAir = 0 \/ clock.waited <= DaysSinceAir

(* CompletedAt is not older than the last check that saw an episode missing.*)
CompletedSince == sub.rss => completed <= clock.incomplete

FetchInv == FetchTypeOK /\ WaitsSinceAir /\ CompletedSince

LEMMA FetchStart == FetchInit => FetchInv
<1> SUFFICES ASSUME FetchInit PROVE FetchInv
  OBVIOUS
<1>1. sub \in FetchSubs /\ sub.air \in -1 .. 6
  BY FetchAssumption DEF FetchInit
<1>2. FetchTypeOK
  BY DEF FetchInit, FetchTypeOK, Libraries, NotCompleted, Week
<1>3. clock.waited = 0 /\ clock.weekday = 0 /\ ~clock.checked /\ clock.incomplete = 0 /\ completed = NotCompleted
  BY DEF FetchInit
<1>4. WaitsSinceAir /\ CompletedSince
  BY <1>1, <1>3 DEF WaitsSinceAir, CompletedSince, DaysSinceAir, NotCompleted, NoAirDay, Week
<1> QED
  BY <1>2, <1>4 DEF FetchInv

LEMMA FetchTypes ==
  ASSUME FetchInv
  PROVE  /\ sub.air \in -1 .. 6 /\ sub.rss \in BOOLEAN
         /\ strategy.before \in Nat /\ strategy.stop \in 0 .. MaxStop
         /\ library.known \in BOOLEAN /\ library.complete \in BOOLEAN
         /\ library.missing \in BOOLEAN /\ library.pending \in BOOLEAN
BY FetchAssumption DEF FetchInv, FetchTypeOK, Libraries

(* On the air day every check fetches a subscription that is not complete. *)
LEMMA FetchedOnAirDay ==
  ASSUME FetchInv, NEW readable \in BOOLEAN, sub.air = NoAirDay \/ DaysSinceAir = 0
  PROVE  Wanted(readable) \/ library.complete
<1>1. sub.air \in -1 .. 6 /\ clock.weekday \in 0 .. 6 /\ strategy.before \in Nat
  BY FetchTypes DEF FetchInv, FetchTypeOK
<1>2. sub.air = NoAirDay \/ DaysUntilAir = 0
  BY <1>1 DEF DaysUntilAir, DaysSinceAir, Week, NoAirDay
<1>3. InActiveWindow
  BY <1>1, <1>2 DEF InActiveWindow
<1> QED
  BY <1>3 DEF Wanted, GivenUp

LEMMA CheckKeeps ==
  ASSUME FetchInv, NEW readable \in BOOLEAN, CheckSubscription(readable) PROVE FetchInv'
<1> DEFINE fetched == sub.rss /\ Wanted(readable)
           looked == IF sub.rss THEN Looked(readable) ELSE completed
<1>1. /\ completed' = IF fetched THEN Refreshed(looked) ELSE looked
      /\ clock' = [clock EXCEPT !.checked = TRUE,
                                !.waited = IF fetched \/ library.complete THEN 0 ELSE @,
                                !.incomplete = IF library.complete THEN @ ELSE 0]
      /\ strategy' = strategy /\ sub' = sub /\ library' = library
  BY DEF CheckSubscription
<1>2. /\ clock'.weekday = clock.weekday /\ clock'.checked = TRUE
      /\ clock'.waited = IF fetched \/ library.complete THEN 0 ELSE clock.waited
      /\ clock'.incomplete = IF library.complete THEN clock.incomplete ELSE 0
      /\ clock' \in [weekday : 0 .. 6, checked : BOOLEAN, waited : 0 .. Week, incomplete : 0 .. MaxStop]
  <2> DEFINE waited == IF fetched \/ library.complete THEN 0 ELSE clock.waited
             incomplete == IF library.complete THEN clock.incomplete ELSE 0
  <2>1. clock \in [weekday : 0 .. 6, checked : BOOLEAN, waited : 0 .. Week, incomplete : 0 .. MaxStop]
    BY DEF FetchInv, FetchTypeOK
  <2>2. waited \in 0 .. Week /\ incomplete \in 0 .. MaxStop
    BY <2>1 DEF Week
  <2>3. clock' = [clock EXCEPT !.checked = TRUE, !.waited = waited, !.incomplete = incomplete]
    BY <1>1
  <2> HIDE DEF waited, incomplete, fetched
  <2>4. clock' \in [weekday : 0 .. 6, checked : BOOLEAN, waited : 0 .. Week, incomplete : 0 .. MaxStop]
    BY <2>1, <2>2, <2>3
  <2>5. clock'.weekday = clock.weekday /\ clock'.checked = TRUE /\ clock'.waited = waited
        /\ clock'.incomplete = incomplete
    BY <2>1, <2>3
  <2> QED
    BY <2>4, <2>5 DEF waited, incomplete
<1>3. completed \in NotCompleted .. MaxStop /\ 0 \in 0 .. MaxStop /\ clock.incomplete \in 0 .. MaxStop
  BY DEF FetchInv, FetchTypeOK
<1>4. /\ Looked(readable) \in NotCompleted .. MaxStop
      /\ Looked(readable) \in {completed, NotCompleted, 0}
      /\ ~library.complete => Looked(readable) = NotCompleted \/ library.pending
      /\ Looked(readable) = 0 => library.complete \/ Looked(readable) = completed
  BY <1>3 DEF Looked, NotCompleted
<1>5. looked \in NotCompleted .. MaxStop /\ Refreshed(looked) \in NotCompleted .. MaxStop
      /\ (library.complete => Refreshed(looked) = looked \/ Refreshed(looked) = 0)
      /\ (~library.complete => Refreshed(looked) = NotCompleted)
  BY <1>3, <1>4 DEF Refreshed, NotCompleted
<1>6. FetchTypeOK'
  BY <1>1, <1>2, <1>5 DEF FetchInv, FetchTypeOK
<1>7. WaitsSinceAir'
  <2> SUFFICES ASSUME sub.rss
               PROVE  clock'.waited <= (IF sub.air = NoAirDay THEN 0 ELSE DaysSinceAir)
    BY <1>1, <1>2 DEF WaitsSinceAir, DaysSinceAir
  <2>1. clock.waited \in 0 .. Week /\ DaysSinceAir \in 0 .. 6 + Week /\ (sub.air # NoAirDay => DaysSinceAir \in 0 .. 6)
    BY FetchTypes DEF FetchInv, FetchTypeOK, DaysSinceAir, Week, NoAirDay
  <2>2. CASE sub.air = NoAirDay \/ DaysSinceAir = 0
    BY <1>2, <2>1, <2>2, FetchedOnAirDay DEF Week
  <2>3. CASE sub.air # NoAirDay /\ DaysSinceAir # 0
    BY <1>2, <2>1, <2>3 DEF FetchInv, WaitsSinceAir, Week
  <2> QED
    BY <2>2, <2>3
<1>8. CompletedSince'
  <2> SUFFICES ASSUME sub.rss PROVE completed' <= clock'.incomplete
    BY <1>1 DEF CompletedSince
  <2>1. completed <= clock.incomplete
    BY DEF FetchInv, CompletedSince
  <2>2. CASE library.complete
    BY <1>1, <1>2, <1>3, <1>4, <1>5, <2>1, <2>2 DEF NotCompleted
  <2>3. CASE ~library.complete
    <3>1. library.pending => fetched
      BY DEF Wanted
    <3>2. completed' = NotCompleted
      BY <1>1, <1>4, <1>5, <2>3, <3>1
    <3> QED
      BY <1>2, <2>3, <3>2 DEF NotCompleted
  <2> QED
    BY <2>2, <2>3
<1> QED
  BY <1>6, <1>7, <1>8 DEF FetchInv

LEMMA NextDayKeeps == ASSUME FetchInv, NextDay PROVE FetchInv'
<1>1. /\ clock.checked
      /\ clock' = [weekday |-> (clock.weekday + 1) % Week, checked |-> FALSE,
                   waited |-> LeastDays(clock.waited + 1, Week),
                   incomplete |-> LeastDays(clock.incomplete + 1, MaxStop)]
      /\ completed' = IF completed = NotCompleted THEN completed ELSE LeastDays(completed + 1, MaxStop)
      /\ strategy' = strategy /\ sub' = sub /\ library' = library
  BY DEF NextDay
<1>2. /\ clock.weekday \in 0 .. 6 /\ clock.waited \in 0 .. Week /\ clock.incomplete \in 0 .. MaxStop
      /\ completed \in NotCompleted .. MaxStop
  BY DEF FetchInv, FetchTypeOK
<1>3. (clock.weekday + 1) % Week = IF clock.weekday = 6 THEN 0 ELSE clock.weekday + 1
  BY <1>2 DEF Week
<1>4. /\ LeastDays(clock.waited + 1, Week) \in 0 .. Week
      /\ LeastDays(clock.waited + 1, Week) <= clock.waited + 1
      /\ LeastDays(clock.incomplete + 1, MaxStop) \in 0 .. MaxStop
      /\ completed # NotCompleted => LeastDays(completed + 1, MaxStop) \in 0 .. MaxStop
      /\ completed <= clock.incomplete => LeastDays(completed + 1, MaxStop) <= LeastDays(clock.incomplete + 1, MaxStop)
  BY <1>2 DEF LeastDays, Week, NotCompleted
<1>5. FetchTypeOK'
  BY <1>1, <1>2, <1>3, <1>4 DEF FetchInv, FetchTypeOK, NotCompleted
<1>6. WaitsSinceAir'
  <2> SUFFICES ASSUME sub.rss, sub.air # NoAirDay, DaysSinceAir' # 0
               PROVE  clock'.waited <= DaysSinceAir'
    BY <1>1 DEF WaitsSinceAir
  <2>1. clock.waited <= DaysSinceAir
    BY <1>1 DEF FetchInv, WaitsSinceAir
  <2>2. DaysSinceAir' = DaysSinceAir + 1 /\ DaysSinceAir \in 0 .. 6
    BY <1>1, <1>2, <1>3, FetchTypes DEF DaysSinceAir, Week, NoAirDay
  <2> QED
    BY <1>1, <1>2, <1>4, <2>1, <2>2
<1>7. CompletedSince'
  BY <1>1, <1>2, <1>4 DEF FetchInv, CompletedSince, NotCompleted
<1> QED
  BY <1>5, <1>6, <1>7 DEF FetchInv

LEMMA ChangeKeeps == ASSUME FetchInv, NEW l \in Libraries, ChangeLibrary(l) PROVE FetchInv'
<1>1. /\ library' = l /\ strategy' = strategy /\ sub' = sub /\ clock' = clock
      /\ completed' \in {completed, NotCompleted, 0}
      /\ completed' = 0 => completed' = completed \/ completed = NotCompleted
  BY DEF ChangeLibrary, NotCompleted
<1>2. clock.incomplete \in 0 .. MaxStop /\ completed \in NotCompleted .. MaxStop
  BY DEF FetchInv, FetchTypeOK
<1>3. FetchTypeOK'
  BY <1>1, <1>2 DEF FetchInv, FetchTypeOK, NotCompleted
<1>4. WaitsSinceAir'
  BY <1>1 DEF FetchInv, WaitsSinceAir, DaysSinceAir
<1>5. CompletedSince'
  BY <1>1, <1>2 DEF FetchInv, CompletedSince, NotCompleted
<1> QED
  BY <1>3, <1>4, <1>5 DEF FetchInv

LEMMA FetchStep == FetchInv /\ [FetchNext]_fetchVars => FetchInv'
<1>1. FetchInv /\ UNCHANGED fetchVars => FetchInv'
  BY DEF fetchVars, FetchInv, FetchTypeOK, WaitsSinceAir, CompletedSince, DaysSinceAir
<1> QED
  BY <1>1, CheckKeeps, NextDayKeeps, ChangeKeeps DEF FetchNext

(* Whatever the strategy, the air day, the windows and the library: among   *)
(* the checks of seven days that saw a subscription incomplete is one that  *)
(* fetched it (checkRSSFeeds with SmartFetchFilter).                        *)
THEOREM EverybodyIsFetched == FetchSpec => []NobodyStarves
<1>1. FetchInv => NobodyStarves
  <2> SUFFICES ASSUME FetchInv, sub.rss, clock.checked PROVE clock.waited < Week
    BY DEF NobodyStarves
  <2>1. clock.waited \in 0 .. Week /\ (sub.air # NoAirDay => DaysSinceAir \in 0 .. 6)
    BY FetchTypes DEF FetchInv, FetchTypeOK, DaysSinceAir, Week, NoAirDay
  <2> QED
    BY <2>1 DEF FetchInv, WaitsSinceAir, Week
<1> QED
  BY <1>1, FetchStart, FetchStep, PTL DEF FetchSpec

(* A subscription counts as complete for CompletedStopDays days only when   *)
(* no check of these days saw it incomplete, although CompletedAt is set    *)
(* and cleared by several writers (GivenUp).                                *)
THEOREM GivenUpOnlyLate == FetchSpec => []GivenUpLate
<1>1. FetchInv => GivenUpLate
  <2> SUFFICES ASSUME FetchInv, sub.rss, strategy.stop > 0, completed >= strategy.stop
               PROVE  clock.incomplete >= strategy.stop
    BY DEF GivenUpLate, GivenUp
  <2>1. completed \in NotCompleted .. MaxStop /\ clock.incomplete \in 0 .. MaxStop /\ strategy.stop \in 0 .. MaxStop
    BY FetchTypes DEF FetchInv, FetchTypeOK
  <2> QED
    BY <2>1 DEF FetchInv, CompletedSince, NotCompleted
<1> QED
  BY <1>1, FetchStart, FetchStep, PTL DEF FetchSpec

-----------------------------------------------------------------------------
(* The rate limiter gives no tokens away but to requests under way.         *)
HIDE MaxStopNat
USE RateAssumption

BucketRow == [tokens : 0 .. Burst, idle : 0 .. IdleLimit + 1]

RequestRow == {NoRequest} \cup [bucket : Buckets, client : Clients]

RateTypeOK ==
  /\ DOMAIN bucketOf \subseteq Clients
  /\ \A c \in Stored : bucketOf[c] \in Buckets
  /\ bucket \in [Buckets -> BucketRow]
  /\ request \in [Requests -> RequestRow]
  /\ fair \in [Clients -> 0 .. Burst] /\ late \in [Clients -> 0 .. Burst]

(* Two clients never share a bucket, and a request uses its client's.      *)
BucketsApart ==
  /\ \A c, d \in Stored : bucketOf[c] = bucketOf[d] => c = d
  /\ \A r \in Requests, c \in Stored :
       request[r].bucket = bucketOf[c] => request[r].client = c

(* A client that was not pushed out has no bucket only when it would have  *)
(* all its tokens anyway, but for those it took late, and its bucket was   *)
(* idle for as many ticks only if it gained a token in each.               *)
Earned(c) == fair[c] + late[c]

IdleIsEarned ==
  \A c \in Clients \ evicted :
    IF c \in Stored
    THEN /\ bucket[bucketOf[c]].tokens <= Earned(c)
         /\ Earned(c) >= Burst \/ bucket[bucketOf[c]].idle <= Earned(c)
    ELSE Earned(c) >= Burst

RateInv == RateTypeOK /\ BucketsApart /\ IdleIsEarned

LEMMA RateStart == RateInit => RateInv
<1> SUFFICES ASSUME RateInit PROVE RateInv
  OBVIOUS
<1>1. Stored = {}
  BY DEF RateInit, Stored
<1>2. RateTypeOK
  BY <1>1 DEF RateInit, RateTypeOK, Stored, FullBucket, BucketRow, RequestRow
<1>3. \A c \in Clients : Earned(c) = Burst
  BY DEF RateInit, Earned
<1> QED
  BY <1>1, <1>2, <1>3 DEF RateInv, BucketsApart, IdleIsEarned

LEMMA EarnedIsNat == ASSUME RateInv, NEW c \in Clients PROVE Earned(c) \in Nat
BY DEF RateInv, RateTypeOK, Earned

LEMMA NewBucketKeeps ==
  ASSUME RateInv, NEW r \in Requests, NEW c \in Clients, NewBucket(r, c) PROVE RateInv'
<1>1. PICK b \in Buckets \ InUse :
        /\ c \notin Stored
        /\ request' = [request EXCEPT ![r] = [bucket |-> b, client |-> c]]
        /\ bucket' = [bucket EXCEPT ![b] = FullBucket]
        /\ bucketOf' = [x \in (Stored \ Oldest) \cup {c} |-> IF x = c THEN b ELSE bucketOf[x]]
        /\ evicted' = evicted \cup Oldest
        /\ fair' = fair /\ late' = late
  BY DEF NewBucket
<1>2. Stored' = (Stored \ Oldest) \cup {c} /\ bucketOf'[c] = b
      /\ \A x \in Stored' \ {c} : x \in Stored /\ bucketOf'[x] = bucketOf[x] /\ bucketOf[x] # b
  BY <1>1 DEF Stored, InUse
<1>3. /\ bucket'[b] = FullBucket /\ \A a \in Buckets \ {b} : bucket'[a] = bucket[a]
      /\ FullBucket \in BucketRow
  BY <1>1 DEF RateInv, RateTypeOK, FullBucket, BucketRow
<1>4. RateTypeOK'
  BY <1>1, <1>2, <1>3 DEF RateInv, RateTypeOK, Stored, RequestRow
<1>5. BucketsApart'
  <2>1. /\ request'[r].bucket = b /\ request'[r].client = c
        /\ \A q \in Requests \ {r} : request'[q] = request[q] /\ request[q].bucket # b
    BY <1>1 DEF RateInv, RateTypeOK, InUse
  <2> QED
    BY <1>2, <2>1 DEF RateInv, BucketsApart
<1>6. IdleIsEarned'
  <2> SUFFICES ASSUME NEW x \in Clients, x \notin evicted'
               PROVE  IF x \in Stored'
                      THEN /\ bucket'[bucketOf'[x]].tokens <= Earned(x)
                           /\ Earned(x) >= Burst \/ bucket'[bucketOf'[x]].idle <= Earned(x)
                      ELSE Earned(x) >= Burst
    BY <1>1 DEF IdleIsEarned, Earned
  <2>1. x \notin evicted /\ x \notin Oldest
    BY <1>1
  <2>2. CASE x = c
    BY <1>1, <1>2, <1>3, <2>1, <2>2, EarnedIsNat DEF RateInv, IdleIsEarned, FullBucket
  <2>3. CASE x # c /\ x \in Stored
    <3>1. x \in Stored' /\ bucketOf'[x] = bucketOf[x] /\ bucket'[bucketOf[x]] = bucket[bucketOf[x]]
      BY <1>2, <1>3, <2>1, <2>3 DEF RateInv, RateTypeOK
    <3> QED
      BY <2>1, <2>3, <3>1 DEF RateInv, IdleIsEarned
  <2>4. CASE x # c /\ x \notin Stored
    BY <1>2, <2>1, <2>4 DEF RateInv, IdleIsEarned
  <2> QED
    BY <2>2, <2>3, <2>4
<1> QED
  BY <1>4, <1>5, <1>6 DEF RateInv

LEMMA AllowKeeps ==
  ASSUME RateInv, NEW r \in Requests, Allow(r) PROVE RateInv'
<1> DEFINE b == request[r].bucket
           k == request[r].client
           granted == bucket[b].tokens > 0
           row == [tokens |-> IF granted THEN bucket[b].tokens - 1 ELSE bucket[b].tokens, idle |-> 0]
           rest == IF granted /\ fair[k] > 0 THEN fair[k] - 1 ELSE fair[k]
           more == IF granted /\ FromDropped(r) THEN Least(late[k] + 1, Burst) ELSE late[k]
<1>1. /\ b \in Buckets /\ k \in Clients
      /\ fair' = [fair EXCEPT ![k] = rest] /\ late' = [late EXCEPT ![k] = more]
      /\ bucketOf' = bucketOf /\ evicted' = evicted /\ Stored' = Stored
      /\ request' = [request EXCEPT ![r] = NoRequest]
  BY DEF Allow, RateInv, RateTypeOK, Stored, RequestRow, NoRequest
<1>2. bucket[b] \in BucketRow /\ fair[k] \in 0 .. Burst /\ late[k] \in 0 .. Burst
  BY <1>1 DEF RateInv, RateTypeOK
<1>3. /\ row \in BucketRow
      /\ row.tokens = IF granted THEN bucket[b].tokens - 1 ELSE bucket[b].tokens
      /\ row.tokens <= bucket[b].tokens /\ row.idle = 0
  BY <1>2 DEF BucketRow
<1>4. bucket' = [bucket EXCEPT ![b] = row]
  BY <1>1 DEF Allow, RateInv, RateTypeOK
<1>5. rest \in 0 .. Burst /\ more \in 0 .. Burst
  BY <1>2 DEF Least
<1>6. RateTypeOK'
  <2> HIDE DEF row, rest, more
  <2> QED
    BY <1>1, <1>3, <1>4, <1>5 DEF RateInv, RateTypeOK, RequestRow
<1>7. BucketsApart'
  <2>1. \A q \in Requests : request'[q] = IF q = r THEN NoRequest ELSE request[q]
    BY <1>1 DEF RateInv, RateTypeOK
  <2>2. \A c \in Stored : bucketOf[c] # NoRequest.bucket
    BY DEF RateInv, RateTypeOK, NoRequest, Buckets
  <2> QED
    BY <1>1, <2>1, <2>2 DEF RateInv, BucketsApart
<1>8. IdleIsEarned'
  <2> SUFFICES ASSUME NEW c \in Clients, c \notin evicted
               PROVE  IF c \in Stored
                      THEN /\ bucket'[bucketOf[c]].tokens <= Earned(c)'
                           /\ Earned(c)' >= Burst \/ bucket'[bucketOf[c]].idle <= Earned(c)'
                      ELSE Earned(c)' >= Burst
    BY <1>1 DEF IdleIsEarned
  <2>0. fair[c] \in 0 .. Burst /\ late[c] \in 0 .. Burst
    BY DEF RateInv, RateTypeOK
  <2>1. CASE c = k /\ ~FromDropped(r)
    <3>1. c \in Stored /\ bucketOf[c] = b /\ bucket'[b] = row
      BY <1>1, <1>4, <2>1 DEF FromDropped, RateInv, RateTypeOK
    <3>2. bucket[b].tokens <= fair[k] + late[k]
      BY <2>1, <3>1 DEF RateInv, IdleIsEarned, Earned
    <3>3. Earned(c)' = rest + late[k]
      BY <1>1, <2>1 DEF RateInv, RateTypeOK, Earned
    <3>4. row.tokens <= rest + late[k]
      <4> HIDE DEF row
      <4> QED
        BY <1>2, <1>3, <3>2 DEF BucketRow
    <3>5. 0 <= rest + late[k]
      BY <1>2, <1>5
    <3> HIDE DEF row, rest, more
    <3> QED
      BY <1>3, <3>1, <3>3, <3>4, <3>5
  <2>2. CASE c # k \/ FromDropped(r)
    <3>1. Earned(c)' >= Earned(c) \/ Earned(c)' >= Burst
      <4>1. CASE c # k
        BY <1>1, <2>0, <4>1 DEF Earned, RateInv, RateTypeOK
      <4>2. CASE c = k /\ FromDropped(r)
        <5>1. Earned(c)' = rest + more
          BY <1>1, <4>2 DEF Earned, RateInv, RateTypeOK
        <5> QED
          BY <1>2, <4>2, <5>1 DEF Least, Earned
      <4> QED
        BY <2>2, <4>1, <4>2
    <3>2. c \in Stored => bucket'[bucketOf[c]] = bucket[bucketOf[c]]
      BY <1>1, <1>4, <2>2 DEF FromDropped, RateInv, RateTypeOK, BucketsApart
    <3>3. Earned(c) \in Nat /\ Earned(c)' \in Nat
      BY <1>6 DEF RateInv, RateTypeOK, Earned
    <3>4. c \in Stored => bucket[bucketOf[c]].tokens \in 0 .. Burst /\ bucket[bucketOf[c]].idle \in Nat
      BY DEF RateInv, RateTypeOK, BucketRow
    <3> QED
      BY <3>1, <3>2, <3>3, <3>4 DEF RateInv, IdleIsEarned
  <2> QED
    BY <2>1, <2>2
<1> QED
  BY <1>6, <1>7, <1>8 DEF RateInv

LEMMA TickKeeps == ASSUME RateInv, Tick PROVE RateInv'
<1> DEFINE row(b) == [tokens |-> Least(bucket[b].tokens + 1, Burst),
                      idle |-> Least(bucket[b].idle + 1, IdleLimit + 1)]
<1>1. /\ bucket' = [b \in Buckets |-> IF b \in InUse THEN row(b) ELSE FullBucket]
      /\ fair' = [c \in Clients |-> Least(fair[c] + 1, Burst)]
      /\ late' = [c \in Clients |-> IF fair[c] + 1 < Burst THEN late[c] ELSE 0]
      /\ bucketOf' = bucketOf /\ evicted' = evicted /\ request' = request /\ Stored' = Stored
  BY DEF Tick, Stored
<1>2. \A b \in Buckets : bucket[b] \in BucketRow
  BY DEF RateInv, RateTypeOK
<1>3. \A b \in Buckets :
        row(b) \in BucketRow /\ row(b).tokens = Least(bucket[b].tokens + 1, Burst)
        /\ row(b).idle = Least(bucket[b].idle + 1, IdleLimit + 1)
  BY <1>2 DEF BucketRow, Least
<1>4. FullBucket \in BucketRow
  BY DEF FullBucket, BucketRow
<1> HIDE DEF row
<1>5. RateTypeOK'
  <2>1. fair' \in [Clients -> 0 .. Burst] /\ late' \in [Clients -> 0 .. Burst]
    BY <1>1 DEF RateInv, RateTypeOK, Least
  <2> QED
    BY <1>1, <1>3, <1>4, <2>1 DEF RateInv, RateTypeOK
<1>6. BucketsApart'
  BY <1>1 DEF RateInv, BucketsApart
<1>7. IdleIsEarned'
  <2> SUFFICES ASSUME NEW c \in Clients, c \notin evicted
               PROVE  IF c \in Stored
                      THEN /\ bucket'[bucketOf[c]].tokens <= Earned(c)'
                           /\ Earned(c)' >= Burst \/ bucket'[bucketOf[c]].idle <= Earned(c)'
                      ELSE Earned(c)' >= Burst
    BY <1>1 DEF IdleIsEarned
  <2>1. Earned(c)' >= Burst \/ Earned(c)' = Earned(c) + 1
    BY <1>1 DEF RateInv, RateTypeOK, Earned, Least
  <2>0. Earned(c) \in Nat /\ Earned(c)' \in Nat
    BY <1>5 DEF RateInv, RateTypeOK, Earned
  <2>2. CASE c \in Stored
    <3>1. bucketOf[c] \in Buckets /\ bucketOf[c] \in InUse /\ bucket[bucketOf[c]] \in BucketRow
      BY <1>2, <2>2 DEF InUse, RateInv, RateTypeOK
    <3>2. bucket'[bucketOf[c]].tokens = Least(bucket[bucketOf[c]].tokens + 1, Burst)
          /\ bucket'[bucketOf[c]].idle = Least(bucket[bucketOf[c]].idle + 1, IdleLimit + 1)
      BY <1>1, <1>3, <3>1
    <3>3. bucket[bucketOf[c]].tokens \in 0 .. Burst /\ bucket[bucketOf[c]].idle \in 0 .. IdleLimit + 1
      BY <3>1 DEF BucketRow
    <3>4. /\ bucket[bucketOf[c]].tokens <= Earned(c)
          /\ Earned(c) >= Burst \/ bucket[bucketOf[c]].idle <= Earned(c)
      BY <2>2 DEF RateInv, IdleIsEarned
    <3> QED
      BY <2>0, <2>1, <2>2, <3>2, <3>3, <3>4 DEF Least
  <2>3. CASE c \notin Stored
    BY <2>0, <2>1, <2>3 DEF RateInv, IdleIsEarned
  <2> QED
    BY <2>2, <2>3
<1> QED
  BY <1>5, <1>6, <1>7 DEF RateInv

LEMMA CleanupKeeps == ASSUME RateInv, CleanupStore PROVE RateInv'
<1> DEFINE idle == {c \in Stored : Expired(bucketOf[c])}
<1>1. /\ bucketOf' = [c \in Stored \ idle |-> bucketOf[c]]
      /\ bucket' = bucket /\ fair' = fair /\ late' = late /\ evicted' = evicted /\ request' = request
  BY DEF CleanupStore, Without, Stored
<1>2. Stored' = Stored \ idle /\ \A c \in Stored' : c \in Stored /\ bucketOf'[c] = bucketOf[c]
  BY <1>1 DEF Stored
<1>3. RateTypeOK'
  BY <1>1, <1>2 DEF RateInv, RateTypeOK, Stored
<1>4. BucketsApart'
  BY <1>1, <1>2 DEF RateInv, BucketsApart
<1>5. ASSUME NEW c \in idle, c \notin evicted PROVE Earned(c) >= Burst
  <2>1. c \in Clients /\ bucket[bucketOf[c]] \in BucketRow /\ Earned(c) \in Nat
    BY <1>5, EarnedIsNat DEF RateInv, RateTypeOK, Stored
  <2> QED
    BY <1>5, <2>1 DEF RateInv, IdleIsEarned, Expired, BucketRow
<1>6. IdleIsEarned'
  <2> SUFFICES ASSUME NEW c \in Clients, c \notin evicted
               PROVE  IF c \in Stored'
                      THEN /\ bucket[bucketOf'[c]].tokens <= Earned(c)
                           /\ Earned(c) >= Burst \/ bucket[bucketOf'[c]].idle <= Earned(c)
                      ELSE Earned(c) >= Burst
    BY <1>1 DEF IdleIsEarned, Earned
  <2> HIDE DEF idle
  <2> QED
    BY <1>2, <1>5 DEF RateInv, IdleIsEarned
<1> QED
  BY <1>3, <1>4, <1>6 DEF RateInv

LEMMA RateStep == RateInv /\ [RateNext]_rateVars => RateInv'
<1> SUFFICES ASSUME RateInv, [RateNext]_rateVars PROVE RateInv'
  OBVIOUS
<1>1. ASSUME NEW r \in Requests, NEW c \in Clients, GetBucket(r, c) PROVE RateInv'
  <2>1. /\ c \in Stored /\ request' = [request EXCEPT ![r] = [bucket |-> bucketOf[c], client |-> c]]
        /\ bucketOf' = bucketOf /\ bucket' = bucket /\ fair' = fair /\ late' = late /\ evicted' = evicted
    BY <1>1 DEF GetBucket
  <2>2. Stored' = Stored /\ \A q \in Requests :
          request'[q] = IF q = r THEN [bucket |-> bucketOf[c], client |-> c] ELSE request[q]
    BY <2>1 DEF RateInv, RateTypeOK, Stored
  <2>3. RateTypeOK'
    BY <2>1, <2>2 DEF RateInv, RateTypeOK, RequestRow
  <2>4. BucketsApart'
    BY <2>1, <2>2 DEF RateInv, BucketsApart
  <2> QED
    BY <2>1, <2>2, <2>3, <2>4 DEF RateInv, IdleIsEarned, Earned
<1>2. CASE UNCHANGED rateVars
  BY <1>2 DEF rateVars, RateInv, RateTypeOK, BucketsApart, IdleIsEarned, Earned, Stored
<1> QED
  BY <1>1, <1>2, NewBucketKeeps, AllowKeeps, TickKeeps, CleanupKeeps DEF RateNext

(* A client cannot gain tokens by waiting until its bucket is dropped: as   *)
(* long as it was not pushed out of a full store, the bucket it has holds   *)
(* no more than one that was kept all the time, plus one token for each     *)
(* request that took its token from the dropped bucket (GetBucketWithRate   *)
(* before, Bucket.Allow after Cleanup).  The latter is what the code does:  *)
(* the race gives that token twice.                                         *)
THEOREM NoTokensForFree == RateSpec => []NoFreeTokens
<1>1. RateInv => NoFreeTokens
  BY DEF RateInv, RateTypeOK, IdleIsEarned, Earned, NoFreeTokens, Stored
<1> QED
  BY <1>1, RateStart, RateStep, PTL DEF RateSpec

-----------------------------------------------------------------------------
(* Facts on natural numbers and finite sets.                                *)
LEMMA LeastElement ==
  ASSUME NEW S \in SUBSET Nat, S # {}
  PROVE  \E n \in S : \A m \in S : n <= m
<1> DEFINE less == {pair \in Nat \X Nat : pair[1] < pair[2]}
<1>1. IsWellFoundedOn(less, Nat)
  BY NatLessThanWellFounded DEF OpToRel
<1>2. PICK n \in S : \A m \in S : <<m, n>> \notin less
  <2> HIDE DEF less
  <2> QED
    BY <1>1, WFMin
<1>3. \A m \in S : n <= m
  <2> TAKE m \in S
  <2>1. m \in Nat /\ n \in Nat /\ ~(m < n)
    BY <1>2
  <2> QED
    BY <2>1
<1> QED
  BY <1>3

(* A finite set has an element that none is above.                         *)
LEMMA GreatestExists ==
  ASSUME NEW S, IsFiniteSet(S), S # {}, NEW R,
         \A x \in S : <<x, x>> \notin R,
         \A x, y, z \in S : <<x, y>> \in R /\ <<y, z>> \in R => <<x, z>> \in R
  PROVE  \E x \in S : \A y \in S : <<y, x>> \notin R
<1> DEFINE above(x) == {y \in S : <<y, x>> \in R}
           counts == {Cardinality(above(x)) : x \in S}
<1>1. \A x \in S : IsFiniteSet(above(x)) /\ Cardinality(above(x)) \in Nat
  <2> TAKE x \in S
  <2>1. above(x) \in SUBSET S
    OBVIOUS
  <2> HIDE DEF above
  <2> SUFFICES ASSUME NEW A, A = above(x) PROVE IsFiniteSet(A) /\ Cardinality(A) \in Nat
    OBVIOUS
  <2>2. IsFiniteSet(A)
    BY <2>1, FS_Subset
  <2> QED
    BY <2>2, FS_CardinalityType
<1>2. counts \subseteq Nat /\ counts # {}
  <2> HIDE DEF above
  <2>1. \A n \in counts : n \in Nat
    BY <1>1
  <2>2. \E n : n \in counts
    OBVIOUS
  <2> QED
    BY <2>1, <2>2
<1>3. PICK n \in counts : \A m \in counts : n <= m
  <2> HIDE DEF counts
  <2> QED
    BY <1>2, LeastElement
<1>4. PICK x \in S : n = Cardinality(above(x))
  OBVIOUS
<1>5. ASSUME NEW y \in S, <<y, x>> \in R PROVE FALSE
  <2>1. above(y) \in SUBSET above(x) /\ y \in above(x) /\ y \notin above(y)
    BY <1>5
  <2>2. Cardinality(above(y)) \in counts
    OBVIOUS
  <2> HIDE DEF above
  <2>3. Cardinality(above(y)) <= Cardinality(above(x)) /\ Cardinality(above(x)) # Cardinality(above(y))
    BY <1>1, <2>1, FS_Subset
  <2>4. Cardinality(above(y)) < n /\ Cardinality(above(y)) \in Nat /\ n \in Nat
    BY <1>1, <1>4, <2>3
  <2> QED
    BY <1>3, <2>2, <2>4
<1> QED
  BY <1>5

-----------------------------------------------------------------------------
(* The migration fills the ledger from the downloads.                       *)
HIDE RateAssumption
USE MigrationAssumption

OldTyped == old \in [downloads : [OldDownloads -> OldRows], sub : OldSubs]

LEMMA OldTypes ==
  ASSUME OldTyped
  PROVE  /\ \A d \in OldDownloads : /\ old.downloads[d].status \in OldStatuses
                                    /\ old.downloads[d].renamed \in BOOLEAN
         /\ old.sub.offset \in {0, 1} /\ old.sub.total \in Nat /\ old.sub.bangumi \in Nat /\ old.sub.url \in BOOLEAN
<1>1. \A d \in OldDownloads : old.downloads[d] \in OldRows
  BY DEF OldTyped
<1>2. old.sub \in OldSubs
  BY DEF OldTyped
<1>3. old.sub.total \in Nat /\ old.sub.bangumi \in Nat
  BY <1>2 DEF OldSubs
<1> QED
  BY <1>1, <1>2, <1>3 DEF OldRows, OldSubs

LEMMA Priorities ==
  ASSUME OldTyped, NEW d \in OldDownloads
  PROVE  /\ Priority(old.downloads[d].status) \in 0 .. 3
         /\ old.downloads[d].status = "completed" <=> Priority(old.downloads[d].status) = 3
         /\ old.downloads[d].status = "downloading" <=> Priority(old.downloads[d].status) = 2
<1>1. old.downloads[d].status \in OldStatuses
  BY OldTypes
<1> QED
  BY <1>1 DEF OldStatuses, Priority

(* The download the ledger is filled from.                                 *)
Best(e) == CHOOSE d \in DownloadsOf(e) : \A c \in DownloadsOf(e) \ {d} : Preferred(d, c)

(* Preferred orders the downloads, so an episode with downloads has a best. *)
LEMMA BestExists ==
  ASSUME OldTyped, NEW e, DownloadsOf(e) # {}
  PROVE  Best(e) \in DownloadsOf(e) /\ \A c \in DownloadsOf(e) \ {Best(e)} : Preferred(Best(e), c)
<1> DEFINE S == DownloadsOf(e)
           R == {pair \in S \X S : Preferred(pair[1], pair[2])}
<1>1. S \in SUBSET OldDownloads
  BY DEF DownloadsOf
<1>2. \A d \in S : /\ d \in Nat /\ Priority(old.downloads[d].status) \in 0 .. 3
                   /\ old.downloads[d].renamed \in BOOLEAN
  BY <1>1, Priorities, OldTypes
<1>3. IsFiniteSet(S)
  <2> HIDE DEF S
  <2> QED
    BY <1>1, FS_Subset
<1>4. \A x, y \in S : <<x, y>> \in R <=> Preferred(x, y)
  OBVIOUS
<1> HIDE DEF S, R
<1>5. \A x \in S : <<x, x>> \notin R
  BY <1>2, <1>4 DEF Preferred
<1>6. \A x, y, z \in S : <<x, y>> \in R /\ <<y, z>> \in R => <<x, z>> \in R
  BY <1>2, <1>4 DEF Preferred
<1>7. S # {}
  BY DEF S
<1>8. PICK d \in S : \A c \in S : <<c, d>> \notin R
  BY <1>3, <1>5, <1>6, <1>7, GreatestExists
<1>9. \A c \in S \ {d} : Preferred(d, c)
  <2> TAKE c \in S \ {d}
  <2>1. ~Preferred(c, d)
    BY <1>4, <1>8
  <2> QED
    BY <1>2, <2>1 DEF Preferred
<1> QED
  BY <1>9 DEF S, Best

-----------------------------------------------------------------------------
(* What the ledger says of an episode that has no row yet.                 *)
Filled(e) ==
  IF DownloadsOf(e) # {} THEN FromDownload(Best(e))
  ELSE IF e <= Known THEN [status |-> "missing", owner |-> None] ELSE NoRow

MadeTyped ==
  made \in [ledger : [Numbers -> [status : {"none", "missing", "downloading", "downloaded"}, owner : Nat]],
            feed : {"none", "enabled"}, pending : BOOLEAN, rss : Nat, latest : Nat]

(* The ledger is filled in one transaction, and the migration that may run  *)
(* again after a restart finds it empty or filled.                          *)
FillInv ==
  /\ OldTyped /\ MadeTyped
  /\ migration \in [next : {"ledger", "feeds", "latest", "done"}, ran : BOOLEAN]
  /\ IF Runs("ledger")
     THEN \A e \in Numbers : made.ledger[e] \in {NoRow, Filled(e)}
     ELSE \A e \in Numbers : made.ledger[e] = Filled(e)

LEMMA FillStart == MigrationInit => FillInv
<1> SUFFICES ASSUME MigrationInit PROVE FillInv
  OBVIOUS
<1>1. made.ledger = [e \in Numbers |-> NoRow]
  BY DEF MigrationInit
<1>2. MadeTyped
  BY DEF MigrationInit, MadeTyped, NoRow, None
<1>3. migration \in [next : {"ledger", "feeds", "latest", "done"}, ran : BOOLEAN] /\ Runs("ledger")
  BY DEF MigrationInit, Runs
<1> QED
  BY <1>1, <1>2, <1>3 DEF FillInv, OldTyped, MigrationInit

LEMMA FilledTyped ==
  ASSUME OldTyped, NEW e \in Numbers
  PROVE  /\ Filled(e) \in [status : {"none", "missing", "downloading", "downloaded"}, owner : Nat]
         /\ DownloadsOf(e) # {} => Best(e) \in OldDownloads
<1>1. DownloadsOf(e) # {} => Best(e) \in OldDownloads
  BY BestExists DEF DownloadsOf
<1>2. None \in Nat
  BY DEF None
<1>3. DownloadsOf(e) # {} =>
        FromDownload(Best(e)) \in [status : {"none", "missing", "downloading", "downloaded"}, owner : Nat]
  BY <1>1, <1>2 DEF FromDownload
<1> QED
  BY <1>1, <1>2, <1>3 DEF Filled, NoRow

LEMMA RowFilled ==
  ASSUME FillInv, NEW e \in Numbers PROVE LedgerRow(e) = Filled(e)
BY DEF FillInv, LedgerRow, Filled, Best

LEMMA HighestIsNat ==
  ASSUME NEW S \in SUBSET Nat, IsFiniteSet(S) PROVE HighestOf(S) \in Nat
<1>1. CASE S = {}
  BY <1>1 DEF HighestOf
<1>2. CASE S # {}
  <2> DEFINE R == {pair \in S \X S : pair[1] > pair[2]}
  <2>1. \A x, y \in S : <<x, y>> \in R <=> x > y
    OBVIOUS
  <2> HIDE DEF R
  <2>2. PICK n \in S : \A m \in S : <<m, n>> \notin R
    <3>1. \A x \in S : <<x, x>> \notin R
      BY <2>1
    <3>2. \A x, y, z \in S : <<x, y>> \in R /\ <<y, z>> \in R => <<x, z>> \in R
      BY <2>1
    <3> QED
      BY <1>2, <3>1, <3>2, GreatestExists
  <2>3. \A m \in S : m <= n
    <3> TAKE m \in S
    <3>1. m \in Nat /\ n \in Nat /\ ~(m > n)
      BY <2>1, <2>2
    <3> QED
      BY <3>1
  <2> QED
    BY <1>2, <2>3 DEF HighestOf
<1> QED
  BY <1>1, <1>2

LEMMA LatestIsNat ==
  ASSUME OldTyped
  PROVE  /\ Raw(RssLatest(old.sub.total)) \in Nat
         /\ Raw(Combined(RssLatest(old.sub.total))) \in Nat
<1> DEFINE S == {e \in Numbers : /\ made.ledger[e].status \notin {"none", "missing"}
                                 /\ old.sub.total > 0 => e <= old.sub.total}
           latest == RssLatest(old.sub.total)
<1>1. S \in SUBSET Nat /\ IsFiniteSet(S)
  <2>1. IsFiniteSet(Numbers) /\ S \in SUBSET Numbers /\ Numbers \subseteq Nat
    BY FS_Interval DEF Numbers
  <2> HIDE DEF S
  <2> QED
    BY <2>1, FS_Subset
<1>2. latest = HighestOf(S)
  BY DEF RssLatest
<1>3. latest \in Nat
  <2> HIDE DEF S
  <2> QED
    BY <1>1, <1>2, HighestIsNat
<1>4. old.sub.bangumi \in Nat /\ old.sub.offset \in {0, 1}
  BY OldTypes
<1> HIDE DEF latest
<1>5. HighestOf({latest, old.sub.bangumi}) \in Nat
  <2>1. IsFiniteSet({latest, old.sub.bangumi})
    <3>1. IsFiniteSet({latest}) /\ IsFiniteSet({old.sub.bangumi})
      BY FS_Singleton
    <3>2. {latest, old.sub.bangumi} = {latest} \cup {old.sub.bangumi}
      OBVIOUS
    <3> QED
      BY <3>1, <3>2, FS_Union
  <2> QED
    BY <1>3, <1>4, <2>1, HighestIsNat
<1> QED
  BY <1>3, <1>4, <1>5 DEF Raw, Combined, latest

LEMMA FillStep == FillInv /\ [MigrationNext]_migrationVars => FillInv'
<1> SUFFICES ASSUME FillInv, [MigrationNext]_migrationVars PROVE FillInv'
  OBVIOUS
<1>0. OldTyped /\ MadeTyped /\ migration \in [next : {"ledger", "feeds", "latest", "done"}, ran : BOOLEAN]
  BY DEF FillInv
<1>1. old' = old
  BY DEF MigrationNext, BackfillEpisodes, BackfillFeeds, BackfillRSSLatest, RecordMigration, MigrationStops,
         migrationVars
<1>2. OldTyped' /\ \A e : Filled(e)' = Filled(e)
  BY <1>0, <1>1 DEF OldTyped, Filled, DownloadsOf, RelativeOf, FromDownload, Best, Preferred, Known
<1>3. CASE BackfillEpisodes
  <2>1. /\ made' = [made EXCEPT !.ledger = [e \in Numbers |-> LedgerRow(e)], !.pending = made.pending \/ old.sub.url]
        /\ migration' = [migration EXCEPT !.ran = TRUE]
    BY <1>3 DEF BackfillEpisodes
  <2>2. [e \in Numbers |-> LedgerRow(e)] = [e \in Numbers |-> Filled(e)]
    BY RowFilled
  <2>3. (made.pending \/ old.sub.url) \in BOOLEAN
    OBVIOUS
  <2>4. [e \in Numbers |-> Filled(e)]
          \in [Numbers -> [status : {"none", "missing", "downloading", "downloaded"}, owner : Nat]]
    BY <1>0, FilledTyped
  <2>5. MadeTyped' /\ made'.ledger = [e \in Numbers |-> Filled(e)]
    BY <1>0, <2>1, <2>2, <2>3, <2>4 DEF MadeTyped
  <2> QED
    BY <1>0, <1>2, <2>1, <2>5 DEF FillInv, Runs
<1>4. CASE BackfillFeeds
  <2>1. /\ MadeTyped' /\ made'.ledger = made.ledger
        /\ migration' = [migration EXCEPT !.ran = TRUE] /\ migration.next = "feeds"
    BY <1>0, <1>4 DEF BackfillFeeds, MadeTyped, Runs
  <2> QED
    BY <1>0, <1>2, <2>1 DEF FillInv, Runs
<1>5. CASE BackfillRSSLatest
  <2>1. /\ MadeTyped' /\ made'.ledger = made.ledger
        /\ migration' = [migration EXCEPT !.ran = TRUE] /\ migration.next = "latest"
    BY <1>0, <1>5, LatestIsNat DEF BackfillRSSLatest, MadeTyped, Runs
  <2> QED
    BY <1>0, <1>2, <2>1 DEF FillInv, Runs
<1>6. CASE RecordMigration
  <2>1. /\ migration.ran /\ made' = made
        /\ migration' = [next |-> After(migration.next), ran |-> FALSE]
        /\ After(migration.next) \in {"feeds", "latest", "done"}
    BY <1>0, <1>6 DEF RecordMigration, After
  <2> QED
    BY <1>0, <1>2, <2>1 DEF FillInv, Runs, MadeTyped
<1>7. CASE MigrationStops
  <2>1. migration.ran /\ made' = made /\ migration' = [migration EXCEPT !.ran = FALSE]
    BY <1>7 DEF MigrationStops
  <2> QED
    BY <1>0, <1>2, <2>1 DEF FillInv, Runs, MadeTyped
<1>8. CASE UNCHANGED migrationVars
  BY <1>0, <1>2, <1>8 DEF FillInv, Runs, MadeTyped, migrationVars
<1> QED
  BY <1>3, <1>4, <1>5, <1>6, <1>7, <1>8 DEF MigrationNext

(* However often a migration that was not recorded runs again, the ledger   *)
(* says of every episode what the most telling of its downloads says        *)
(* (backfillSubscriptionEpisodes).                                          *)
THEOREM LedgerIsFilled == MigrationSpec => []LedgerOfDownloads
<1>1. FillInv => LedgerOfDownloads
  <2> SUFFICES ASSUME FillInv, Migrated, NEW e \in Numbers
               PROVE  LET has(status) == \E d \in DownloadsOf(e) : old.downloads[d].status = status IN
                      /\ has("completed") => OwnedBy(e, "downloaded", "completed")
                      /\ has("downloading") /\ ~has("completed") => OwnedBy(e, "downloading", "downloading")
                      /\ ~has("completed") /\ ~has("downloading") => made.ledger[e].owner = None
                      /\ has("failed") \/ e <= Known => made.ledger[e].status # "none"
    BY DEF LedgerOfDownloads
  <2>1. OldTyped /\ made.ledger[e] = Filled(e)
    BY DEF FillInv, Migrated, Runs
  <2>2. CASE DownloadsOf(e) = {}
    BY <2>1, <2>2 DEF Filled, NoRow, None
  <2>3. CASE DownloadsOf(e) # {}
    <3> DEFINE b == Best(e)
               rank(d) == Priority(old.downloads[d].status)
    <3>1. /\ b \in DownloadsOf(e) /\ b \in OldDownloads /\ old.downloads[b].status # "cancelled"
          /\ \A c \in DownloadsOf(e) : c \in OldDownloads /\ rank(c) <= rank(b)
      <4>1. b \in DownloadsOf(e) /\ \A c \in DownloadsOf(e) \ {b} : Preferred(b, c)
        BY <2>1, <2>3, BestExists
      <4>2. \A c \in DownloadsOf(e) : c \in OldDownloads /\ old.downloads[c].status # "cancelled"
        BY DEF DownloadsOf
      <4>3. \A c \in OldDownloads : rank(c) \in 0 .. 3
        BY <2>1, Priorities
      <4> HIDE DEF b
      <4>4. ASSUME NEW c \in DownloadsOf(e) PROVE rank(c) <= rank(b)
        <5>1. rank(c) \in 0 .. 3 /\ rank(b) \in 0 .. 3
          BY <4>1, <4>2, <4>3
        <5>2. c = b \/ Preferred(b, c)
          BY <4>1
        <5> QED
          BY <5>1, <5>2 DEF Preferred
      <4> QED
        BY <4>1, <4>2, <4>4
    <3>2. made.ledger[e] = FromDownload(b)
      BY <2>1, <2>3 DEF Filled
    <3>3. \A c \in DownloadsOf(e) : /\ rank(c) \in 0 .. 3
                                    /\ old.downloads[c].status = "completed" <=> rank(c) = 3
                                    /\ old.downloads[c].status = "downloading" <=> rank(c) = 2
      BY <2>1, <3>1, Priorities
    <3> HIDE DEF b, rank
    <3> QED
      BY <3>1, <3>2, <3>3 DEF FromDownload, OwnedBy, None
  <2> QED
    BY <2>2, <2>3
<1> QED
  BY <1>1, FillStart, FillStep, PTL DEF MigrationSpec

-----------------------------------------------------------------------------
HIDE MigrationAssumption

(* The choice of items.  Those of a set are defined by recursion on the     *)
(* length of the sequence.                                                  *)
Scan(f, s, S, m) ==
  f = [n \in 0 .. m |-> IF n = 0 THEN <<>>
                        ELSE IF s[n] \in S THEN Append(f[n - 1], s[n]) ELSE f[n - 1]]

LEMMA ScanExists ==
  ASSUME NEW s, NEW S, NEW N \in Nat
  PROVE  \E f : Scan(f, s, S, N)
<1> USE DEF Scan
<1> DEFINE Is(f, m) == Scan(f, s, S, m)
           bad == {m \in Nat : ~\E f : Is(f, m)}
<1>1. SUFFICES ASSUME bad # {} PROVE FALSE
  OBVIOUS
<1>2. PICK m \in bad : \A k \in bad : m <= k
  <2> HIDE DEF bad
  <2>1. bad \in SUBSET Nat
    BY DEF bad
  <2> QED
    BY <1>1, <2>1, LeastElement
<1>3. CASE m = 0
  <2> DEFINE f == [n \in 0 .. 0 |-> <<>>]
  <2>1. Is(f, 0)
    OBVIOUS
  <2> QED
    BY <1>2, <1>3, <2>1
<1>4. CASE m # 0
  <2>1. m - 1 \in Nat /\ m - 1 \notin bad
    <3>1. m \in Nat
      BY <1>2
    <3> HIDE DEF bad
    <3> QED
      BY <1>2, <1>4, <3>1
  <2>2. PICK g : Is(g, m - 1)
    BY <2>1
  <2> DEFINE f == [n \in 0 .. m |-> IF n < m THEN g[n]
                                    ELSE IF s[m] \in S THEN Append(g[m - 1], s[m]) ELSE g[m - 1]]
  <2>3. \A n \in 0 .. m : f[n] = IF n = 0 THEN <<>>
                                 ELSE IF s[n] \in S THEN Append(f[n - 1], s[n]) ELSE f[n - 1]
    <3> TAKE n \in 0 .. m
    <3>1. CASE n < m
      <4>1. n \in 0 .. m - 1 /\ f[n] = g[n] /\ (n # 0 => n - 1 \in 0 .. m /\ f[n - 1] = g[n - 1])
        BY <1>4, <3>1
      <4>2. g[n] = IF n = 0 THEN <<>> ELSE IF s[n] \in S THEN Append(g[n - 1], s[n]) ELSE g[n - 1]
        BY <2>2, <4>1
      <4> QED
        BY <4>1, <4>2
    <3>2. CASE n = m
      <4>1. m - 1 \in 0 .. m /\ m - 1 < m /\ f[m - 1] = g[m - 1]
        BY <1>4
      <4> QED
        BY <1>4, <3>2, <4>1
    <3> QED
      BY <3>1, <3>2
  <2>4. Is(f, m)
    <3> HIDE DEF f
    <3>1. f = [n \in 0 .. m |-> f[n]]
      BY DEF f
    <3> QED
      BY <2>3, <3>1
  <2> QED
    BY <1>2, <2>4
<1> QED
  BY <1>3, <1>4

LEMMA AppendSet ==
  ASSUME NEW T, NEW s \in Seq(T), NEW x \in T
  PROVE  Append(s, x) \in Seq(T) /\ ToSet(Append(s, x)) = ToSet(s) \cup {x}
<1> DEFINE t == Append(s, x)
<1>1. /\ t \in Seq(T) /\ Len(s) \in Nat /\ DOMAIN s = 1 .. Len(s) /\ DOMAIN t = 1 .. Len(s) + 1
      /\ t[Len(s) + 1] = x /\ \A i \in 1 .. Len(s) : t[i] = s[i]
  OBVIOUS
<1> HIDE DEF t
<1>2. ToSet(t) = {t[i] : i \in 1 .. Len(s)} \cup {t[Len(s) + 1]}
  BY <1>1 DEF ToSet
<1>3. ToSet(s) = {t[i] : i \in 1 .. Len(s)}
  BY <1>1 DEF ToSet
<1> QED
  BY <1>1, <1>2, <1>3 DEF t

(* ItemsIn keeps exactly the items that are in the set.                     *)
LEMMA ItemsInSelects ==
  ASSUME NEW T, NEW s \in Seq(T), NEW S
  PROVE  ItemsIn(s, S) \in Seq(T) /\ ToSet(ItemsIn(s, S)) = ToSet(s) \cap S
<1> DEFINE N == Len(s)
           f == CHOOSE f : f = [n \in 0 .. N |-> IF n = 0 THEN <<>>
                                 ELSE IF s[n] \in S THEN Append(f[n - 1], s[n]) ELSE f[n - 1]]
<1>1. N \in Nat /\ \A n \in 1 .. N : s[n] \in T
  OBVIOUS
<1>2. ItemsIn(s, S) = f[N]
  BY DEF ItemsIn
<1> HIDE DEF N
<1>3. f = [n \in 0 .. N |-> IF n = 0 THEN <<>>
             ELSE IF s[n] \in S THEN Append(f[n - 1], s[n]) ELSE f[n - 1]]
  <2>1. \E g : Scan(g, s, S, N)
    BY <1>1, ScanExists
  <2> QED
    BY <2>1, Zenon DEF Scan
<1> HIDE DEF f
<1>4. f[0] = <<>> /\ \A n \in 1 .. N : f[n] = IF s[n] \in S THEN Append(f[n - 1], s[n]) ELSE f[n - 1]
  <2>1. \A n \in 0 .. N : f[n] = IF n = 0 THEN <<>>
                                 ELSE IF s[n] \in S THEN Append(f[n - 1], s[n]) ELSE f[n - 1]
    BY <1>3, Zenon
  <2> QED
    BY <1>1, <2>1
<1> DEFINE Good(n) == f[n] \in Seq(T) /\ ToSet(f[n]) = {s[i] : i \in 1 .. n} \cap S
           bad == {n \in 0 .. N : ~Good(n)}
<1>5. bad = {}
  <2>1. SUFFICES ASSUME bad # {} PROVE FALSE
    OBVIOUS
  <2>2. PICK n \in bad : \A k \in bad : n <= k
    <3>1. bad \in SUBSET Nat
      BY <1>1
    <3> HIDE DEF bad
    <3> QED
      BY <2>1, <3>1, LeastElement
  <2>3. n # 0
    <3>1. Good(0)
      <4>1. {s[i] : i \in 1 .. 0} = {}
        OBVIOUS
      <4>2. ToSet(<<>>) = {} /\ <<>> \in Seq(T)
        BY DEF ToSet
      <4> QED
        BY <1>4, <4>1, <4>2
    <3> QED
      BY <2>2, <3>1
  <2>4. n \in 1 .. N /\ n - 1 \in 0 .. N /\ n - 1 \notin bad
    BY <1>1, <2>2, <2>3
  <2>5. Good(n - 1)
    BY <2>4
  <2>6. {s[i] : i \in 1 .. n} = {s[i] : i \in 1 .. n - 1} \cup {s[n]}
    BY <2>4
  <2>7. CASE s[n] \in S
    <3>1. f[n] = Append(f[n - 1], s[n]) /\ s[n] \in T
      BY <1>1, <1>4, <2>4, <2>7
    <3>2. f[n] \in Seq(T) /\ ToSet(f[n]) = ToSet(f[n - 1]) \cup {s[n]}
      BY <2>5, <3>1, AppendSet
    <3>3. Good(n)
      BY <2>5, <2>6, <2>7, <3>2
    <3> QED
      BY <2>2, <3>3
  <2>8. CASE s[n] \notin S
    <3>1. f[n] = f[n - 1]
      BY <1>4, <2>4, <2>8
    <3>2. Good(n)
      BY <2>5, <2>6, <2>8, <3>1
    <3> QED
      BY <2>2, <3>2
  <2> QED
    BY <2>7, <2>8
<1>6. Good(N)
  <2>1. N \in 0 .. N
    BY <1>1
  <2> HIDE DEF Good
  <2> QED
    BY <1>5, <2>1
<1>7. ToSet(s) = {s[i] : i \in 1 .. N}
  BY DEF ToSet, N
<1> QED
  BY <1>2, <1>6, <1>7

-----------------------------------------------------------------------------
(* What an item is, and what the rules are.                                *)
LEMMA ItemTypes ==
  ASSUME NEW item \in Items, rules \in RuleSets
  PROVE  /\ item.episode \in 0 .. 3 /\ rules.offset \in 0 .. 1 /\ rules.total \in 0 .. 2
         /\ Relative(item) \in 0 .. 3 /\ PreviewRelative(item) = Relative(item)
         /\ Relative(item) > 0 => item.episode = Relative(item) + rules.offset
         /\ item # NoItem
<1>1. item \in ItemRecords /\ rules \in RuleRecords
  BY SelectionAssumption
<1>2. item.episode \in 0 .. 3 /\ rules.offset \in 0 .. 1 /\ rules.total \in 0 .. 2
  BY <1>1 DEF ItemRecords, RuleRecords
<1>3. item # NoItem
  <2>1. "episode" \in DOMAIN item /\ "episode" \notin DOMAIN NoItem
    BY <1>1 DEF ItemRecords, NoItem
  <2> QED
    BY <2>1
<1> QED
  BY <1>2, <1>3 DEF Relative, PreviewRelative

(* The items in the order they are looked at are those of the feed, and     *)
(* the preferred ones come first.                                           *)
LEMMA PrioritizeOrders ==
  ASSUME NEW items \in Seq(Items)
  PROVE  /\ Prioritize(items) \in Seq(Items) /\ ToSet(Prioritize(items)) = ToSet(items)
         /\ Ranked => \A j, k \in 1 .. Len(Prioritize(items)) :
              HasPreferred(Prioritize(items)[j]) /\ ~HasPreferred(Prioritize(items)[k]) => j < k
<1> DEFINE best == {i \in ToSet(items) : HasPreferred(i)}
           rest == ToSet(items) \ best
           p == ItemsIn(items, best)
           q == ItemsIn(items, rest)
<1>1. CASE ~Ranked
  BY <1>1 DEF Prioritize
<1>2. CASE Ranked
  <2>1. Prioritize(items) = p \o q
    BY <1>2 DEF Prioritize
  <2>2. /\ p \in Seq(Items) /\ ToSet(p) = ToSet(items) \cap best
        /\ q \in Seq(Items) /\ ToSet(q) = ToSet(items) \cap rest
    BY ItemsInSelects
  <2>3. /\ \A i \in ToSet(p) : HasPreferred(i)
        /\ \A i \in ToSet(q) : ~HasPreferred(i)
        /\ ToSet(p) \cup ToSet(q) = ToSet(items)
    BY <2>2
  <2> HIDE DEF p, q
  <2> DEFINE r == p \o q
  <2>4. /\ r \in Seq(Items) /\ Len(r) = Len(p) + Len(q) /\ Len(p) \in Nat /\ Len(q) \in Nat
        /\ \A i \in 1 .. Len(r) : r[i] = IF i <= Len(p) THEN p[i] ELSE q[i - Len(p)]
    BY <2>2, ConcatProperties
  <2>5. /\ ToSet(p) = {p[i] : i \in 1 .. Len(p)} /\ ToSet(q) = {q[i] : i \in 1 .. Len(q)}
        /\ ToSet(r) = {r[i] : i \in 1 .. Len(r)}
    BY <2>2, <2>4 DEF ToSet
  <2> HIDE DEF r
  <2>6. \A i \in 1 .. Len(r) : IF i <= Len(p) THEN r[i] \in ToSet(p) ELSE r[i] \in ToSet(q)
    <3> TAKE i \in 1 .. Len(r)
    <3>1. CASE i <= Len(p)
      BY <2>4, <2>5, <3>1
    <3>2. CASE i > Len(p)
      <4>1. i - Len(p) \in 1 .. Len(q) /\ r[i] = q[i - Len(p)]
        BY <2>4, <3>2
      <4> QED
        BY <2>4, <2>5, <3>2, <4>1
    <3> QED
      BY <2>4, <3>1, <3>2
  <2>7. ToSet(r) \subseteq ToSet(p) \cup ToSet(q)
    BY <2>5, <2>6
  <2>8. ToSet(p) \subseteq ToSet(r)
    <3> SUFFICES ASSUME NEW i \in 1 .. Len(p) PROVE p[i] \in ToSet(r)
      BY <2>5
    <3>1. i \in 1 .. Len(r) /\ r[i] = p[i]
      BY <2>4
    <3> QED
      BY <2>5, <3>1
  <2>9. ToSet(q) \subseteq ToSet(r)
    <3> SUFFICES ASSUME NEW i \in 1 .. Len(q) PROVE q[i] \in ToSet(r)
      BY <2>5
    <3>1. Len(p) + i \in 1 .. Len(r) /\ r[Len(p) + i] = q[i]
      <4>1. Len(p) + i \in 1 .. Len(r) /\ ~(Len(p) + i <= Len(p)) /\ Len(p) + i - Len(p) = i
        BY <2>4
      <4> QED
        BY <2>4, <4>1
    <3> QED
      BY <2>5, <3>1
  <2>10. \A j, k \in 1 .. Len(r) : HasPreferred(r[j]) /\ ~HasPreferred(r[k]) => j < k
    <3> TAKE j, k \in 1 .. Len(r)
    <3> HAVE HasPreferred(r[j]) /\ ~HasPreferred(r[k])
    <3>1. j <= Len(p) /\ ~(k <= Len(p))
      BY <2>3, <2>6
    <3> QED
      BY <2>4, <3>1
  <2> QED
    BY <2>1, <2>3, <2>4, <2>7, <2>8, <2>9, <2>10 DEF r
<1> QED
  BY <1>1, <1>2

-----------------------------------------------------------------------------
Takes(k, e) == Eligible(loop.order[k]) /\ Relative(loop.order[k]) = e

(* The first item that can be taken for an episode.                        *)
FirstFor(k, e) == Takes(k, e) /\ \A j \in 1 .. k - 1 : ~Takes(j, e)

SelectionTyped ==
  /\ feed \in Seq(Items) /\ rules \in RuleSets
  /\ loop \in [order : Seq(Items), next : Nat]
  /\ loop.next <= Len(loop.order) + 2
  /\ picked \in [owner : [Episodes -> Items \cup {NoItem}], candidates : SUBSET Items]

(* The loop looks at the items in their order, an episode has the first     *)
(* item that could be taken for it, and unless the fetch was given up none  *)
(* that could be taken was left out.                                        *)
SelectionInv ==
  /\ SelectionTyped
  /\ loop.next = 0 => loop.order = <<>>
  /\ loop.next > 0 => loop.order = Prioritize(feed)
  /\ \A e \in Episodes : Owned(e) =>
       \E k \in 1 .. Len(loop.order) : k < loop.next /\ FirstFor(k, e) /\ picked.owner[e] = loop.order[k]
  /\ loop.next <= Len(loop.order) + 1 =>
       \A k \in 1 .. Len(loop.order) : k < loop.next /\ Eligible(loop.order[k]) => Owned(Relative(loop.order[k]))

LEMMA SelectionStart == SelectionInit => SelectionInv
<1> SUFFICES ASSUME SelectionInit PROVE SelectionInv
  OBVIOUS
<1>1. feed \in Seq(Items)
  <2>1. PICK m \in 0 .. MaxItems : feed \in [1 .. m -> Items]
    BY DEF SelectionInit, SeqOf
  <2>2. m \in Nat
    BY SelectionAssumption
  <2> QED
    BY <2>1, <2>2, SeqDef
<1>2. loop.order = <<>> /\ loop.next = 0 /\ \A e \in Episodes : ~Owned(e)
  BY DEF SelectionInit, Owned
<1>3. <<>> \in Seq(Items) /\ Len(<<>>) = 0
  OBVIOUS
<1>4. SelectionTyped
  BY <1>1, <1>3 DEF SelectionInit, SelectionTyped
<1> QED
  BY <1>2, <1>3, <1>4 DEF SelectionInv

LEMMA EligibleHasEpisode ==
  ASSUME rules \in RuleSets, NEW item \in Items, Eligible(item)
  PROVE  Relative(item) \in Episodes
BY ItemTypes DEF Eligible, InRange, Episodes

LEMMA TakeKeeps == ASSUME SelectionInv, TakeItem PROVE SelectionInv'
<1> DEFINE e == Relative(Item)
           n == loop.next
           N == Len(loop.order)
<1>1. /\ n \in 1 .. N /\ N \in Nat /\ Item \in Items /\ Item = loop.order[n] /\ Eligible(Item) /\ e \in Episodes
      /\ Item # NoItem
  BY EligibleHasEpisode, ItemTypes DEF TakeItem, Looking, Item, SelectionInv, SelectionTyped
<1>2. /\ loop' = [loop EXCEPT !.next = n + 1] /\ feed' = feed /\ rules' = rules
      /\ loop' \in [order : Seq(Items), next : Nat] /\ loop'.order = loop.order /\ loop'.next = n + 1
  BY <1>1 DEF TakeItem, NextItem, SelectionInv, SelectionTyped
<1>3. /\ picked'.owner = IF Owned(e) THEN picked.owner ELSE [picked.owner EXCEPT ![e] = Item]
      /\ picked' \in [owner : [Episodes -> Items \cup {NoItem}], candidates : SUBSET Items]
  <2>0. picked \in [owner : [Episodes -> Items \cup {NoItem}], candidates : SUBSET Items]
    BY DEF SelectionInv, SelectionTyped
  <2>1. CASE Owned(e)
    <3>1. picked' = [picked EXCEPT !.candidates = picked.candidates \cup ({Item} \ {picked.owner[e]})]
      BY <2>1 DEF TakeItem, Owned
    <3> HIDE DEF e
    <3> QED
      BY <1>1, <2>0, <2>1, <3>1
  <2>2. CASE ~Owned(e)
    <3>1. picked' = [picked EXCEPT !.owner[e] = Item]
      BY <2>2 DEF TakeItem, Owned
    <3> HIDE DEF e
    <3> QED
      BY <1>1, <2>0, <2>2, <3>1
  <2> QED
    BY <2>1, <2>2
<1>4. \A k, x : FirstFor(k, x)' <=> FirstFor(k, x)
  BY <1>2 DEF FirstFor, Takes, Eligible, Relative, Matches, InRange, PassesFilter, LanguageAllowed,
              ShouldDownload, SeasonFits, QualityFits
<1>5. \A item : Eligible(item)' <=> Eligible(item)
  BY <1>2 DEF Eligible, Relative, Matches, InRange, PassesFilter, LanguageAllowed,
              ShouldDownload, SeasonFits, QualityFits
<1>6. \A item : Relative(item)' = Relative(item)
  BY <1>2 DEF Relative
<1>7. picked'.owner[e] # NoItem /\ \A x \in Episodes : Owned(x) => Owned(x)' /\ picked'.owner[x] = picked.owner[x]
  <2>0. picked.owner \in [Episodes -> Items \cup {NoItem}]
    BY DEF SelectionInv, SelectionTyped
  <2> HIDE DEF e
  <2> QED
    BY <1>1, <1>3, <2>0 DEF Owned
<1>8. SelectionTyped'
  BY <1>1, <1>2, <1>3 DEF SelectionInv, SelectionTyped
<1>9. ASSUME NEW x \in Episodes, Owned(x)'
      PROVE  \E k \in 1 .. N : k < n + 1 /\ FirstFor(k, x) /\ picked'.owner[x] = loop.order[k]
  <2>1. CASE Owned(x)
    <3>1. PICK k \in 1 .. N : k < n /\ FirstFor(k, x) /\ picked.owner[x] = loop.order[k]
      BY <2>1 DEF SelectionInv
    <3>2. k < n + 1
      BY <1>1, <3>1
    <3> QED
      BY <1>7, <2>1, <3>1, <3>2
  <2>2. CASE ~Owned(x)
    <3>1. x = e /\ picked'.owner[x] = Item
      <4>0. picked.owner \in [Episodes -> Items \cup {NoItem}]
        BY DEF SelectionInv, SelectionTyped
      <4> HIDE DEF e
      <4> QED
        BY <1>1, <1>3, <1>9, <2>2, <4>0 DEF Owned
    <3>2. \A j \in 1 .. n - 1 : ~Takes(j, e)
      <4> SUFFICES ASSUME NEW j \in 1 .. n - 1, Takes(j, e) PROVE FALSE
        OBVIOUS
      <4>1. j \in 1 .. N /\ j < n /\ n <= N + 1
        BY <1>1
      <4>2. Owned(Relative(loop.order[j]))
        BY <4>1 DEF Takes, SelectionInv
      <4> QED
        BY <2>2, <3>1, <4>2 DEF Takes
    <3>3. FirstFor(n, e)
      BY <1>1, <3>2 DEF FirstFor, Takes
    <3> QED
      BY <1>1, <3>1, <3>3
  <2> QED
    BY <2>1, <2>2
<1>10. ASSUME NEW k \in 1 .. N, k < n + 1, Eligible(loop.order[k])
       PROVE  picked'.owner[Relative(loop.order[k])] # NoItem
  <2>1. loop.order[k] \in Items
    BY DEF SelectionInv, SelectionTyped
  <2>2. Relative(loop.order[k]) \in Episodes
    BY <1>10, <2>1, EligibleHasEpisode DEF SelectionInv, SelectionTyped
  <2>3. CASE k = n
    BY <1>1, <1>7, <2>3
  <2>4. CASE k < n
    <3>1. Owned(Relative(loop.order[k]))
      BY <1>1, <1>10, <2>4 DEF SelectionInv
    <3> QED
      BY <1>7, <2>2, <3>1 DEF Owned
  <2> QED
    BY <1>1, <1>10, <2>3, <2>4
<1>11. Prioritize(feed)' = Prioritize(feed)
  BY <1>2 DEF Prioritize, Ranked, HasPreferred
<1> QED
  BY <1>1, <1>2, <1>4, <1>5, <1>6, <1>8, <1>9, <1>10, <1>11 DEF SelectionInv, Owned

LEMMA SelectionStep == SelectionInv /\ [SelectionNext]_selectionVars => SelectionInv'
<1> SUFFICES ASSUME SelectionInv, [SelectionNext]_selectionVars PROVE SelectionInv'
  OBVIOUS
<1> DEFINE N == Len(loop.order)
<1>1. /\ feed \in Seq(Items) /\ loop \in [order : Seq(Items), next : Nat] /\ N \in Nat
      /\ loop.next <= N + 2
  BY DEF SelectionInv, SelectionTyped
<1>2. CASE TakeItem
  BY <1>2, TakeKeeps
<1>3. ASSUME UNCHANGED <<feed, rules, picked>>
      PROVE  /\ \A item : (Eligible(item)' <=> Eligible(item)) /\ Relative(item)' = Relative(item)
             /\ Prioritize(feed)' = Prioritize(feed) /\ \A e : Owned(e)' <=> Owned(e)
  BY <1>3 DEF Eligible, Relative, Matches, InRange, PassesFilter, LanguageAllowed, ShouldDownload, SeasonFits,
              QualityFits, Prioritize, Ranked, HasPreferred, Owned
<1>4. CASE BeginItems
  <2>1. /\ loop.next = 0 /\ UNCHANGED <<feed, rules, picked>>
        /\ loop'.order = Prioritize(feed) /\ loop'.next = 1 /\ loop' \in [order : Seq(Items), next : Nat]
        /\ Len(Prioritize(feed)) \in Nat
    BY <1>1, <1>4, PrioritizeOrders DEF BeginItems
  <2>2. \A e \in Episodes : ~Owned(e)
    <3> SUFFICES ASSUME NEW e \in Episodes, Owned(e) PROVE FALSE
      OBVIOUS
    <3>1. PICK k \in 1 .. N : k < 0
      BY <2>1 DEF SelectionInv
    <3> QED
      BY <3>1
  <2> QED
    BY <1>3, <2>1, <2>2 DEF SelectionInv, SelectionTyped
<1>5. ASSUME UNCHANGED <<feed, rules, picked>>, loop'.order = loop.order
      PROVE  \A k, e : FirstFor(k, e)' <=> FirstFor(k, e)
  BY <1>5, <1>3 DEF FirstFor, Takes
<1>6. CASE SkipItem
  <2>1. /\ loop.next \in 1 .. N /\ ~Eligible(loop.order[loop.next]) /\ UNCHANGED <<feed, rules, picked>>
        /\ loop'.order = loop.order /\ loop'.next = loop.next + 1 /\ loop' \in [order : Seq(Items), next : Nat]
    BY <1>1, <1>6 DEF SkipItem, Looking, Item, NextItem
  <2>2. SelectionTyped'
    BY <2>1 DEF SelectionInv, SelectionTyped
  <2>3. ASSUME NEW e \in Episodes, Owned(e)
        PROVE  \E k \in 1 .. N : k < loop.next + 1 /\ FirstFor(k, e) /\ picked.owner[e] = loop.order[k]
    BY <2>1, <2>3 DEF SelectionInv
  <2>4. ASSUME NEW k \in 1 .. N, k < loop.next + 1, Eligible(loop.order[k])
        PROVE  Owned(Relative(loop.order[k]))
    <3>1. k < loop.next /\ loop.next <= N + 1
      BY <1>1, <2>1, <2>4
    <3> QED
      BY <2>4, <3>1 DEF SelectionInv
  <2> HIDE DEF N
  <2> QED
    BY <1>3, <1>5, <2>1, <2>2, <2>3, <2>4 DEF SelectionInv, N
<1>7. CASE TakeFails
  <2>1. /\ loop.next \in 1 .. N /\ UNCHANGED <<feed, rules, picked>>
        /\ loop'.order = loop.order /\ loop'.next = N + 2 /\ loop' \in [order : Seq(Items), next : Nat]
    BY <1>1, <1>7 DEF TakeFails, Looking, Aborted
  <2>2. SelectionTyped'
    BY <1>1, <2>1 DEF SelectionInv, SelectionTyped
  <2>3. ASSUME NEW e \in Episodes, Owned(e)
        PROVE  \E k \in 1 .. N : k < N + 2 /\ FirstFor(k, e) /\ picked.owner[e] = loop.order[k]
    BY <1>1, <2>3 DEF SelectionInv
  <2> QED
    BY <1>1, <1>3, <1>5, <2>1, <2>2, <2>3 DEF SelectionInv
<1>8. CASE UNCHANGED selectionVars
  BY <1>3, <1>5, <1>8 DEF selectionVars, SelectionInv, SelectionTyped
<1> QED
  BY <1>2, <1>4, <1>6, <1>7, <1>8 DEF SelectionNext

(* Whatever a feed lists and in whatever order, no download is of an        *)
(* excluded or ambiguous resolution, and an episode is not downloaded in    *)
(* another resolution than the preferred one when the feed has an item that *)
(* could be taken for it (QualityPolicy.Match, Rules.Prioritize).           *)
THEOREM PoliciesAreFollowed == SelectionSpec => []PolicyIsFollowed
<1>1. SelectionInv => PolicyIsFollowed
  <2> SUFFICES ASSUME SelectionInv, ~rules.legacy, rules.policy.on, NEW e \in Episodes, Owned(e)
               PROVE  Admitted(picked.owner[e].sizes) /\ (Ranked => BestOffered(e))
    BY DEF PolicyIsFollowed
  <2>1. PICK k \in 1 .. Len(loop.order) : k < loop.next /\ FirstFor(k, e) /\ picked.owner[e] = loop.order[k]
    BY DEF SelectionInv
  <2> DEFINE owner == loop.order[k]
  <2>2. Admitted(owner.sizes)
    <3>1. QualityFits(owner)
      BY <2>1 DEF FirstFor, Takes, Eligible, Matches
    <3>2. PICK s \in Sizes : /\ owner.sizes = {s} /\ s \notin rules.policy.excluded
                             /\ rules.policy.fallback = "wait" => s = rules.policy.preferred
      BY <3>1 DEF QualityFits
    <3> HIDE DEF owner
    <3>3. owner.sizes \cap rules.policy.excluded = {} /\ \A x, y \in owner.sizes : x = y
      BY <3>2
    <3>4. rules.policy.fallback = "wait" => owner.sizes = {rules.policy.preferred}
      BY <3>2
    <3> QED
      BY <3>3, <3>4 DEF Admitted
  <2>3. ASSUME Ranked, ~HasPreferred(owner), NEW item \in ToSet(feed), Eligible(item), Relative(item) = e,
               HasPreferred(item)
        PROVE  FALSE
    <3>1. loop.order = Prioritize(feed) /\ feed \in Seq(Items) /\ loop.next \in Nat
      BY <2>1 DEF SelectionInv, SelectionTyped
    <3>2. PICK j \in 1 .. Len(loop.order) : item = loop.order[j]
      <4>1. item \in ToSet(loop.order) /\ loop.order \in Seq(Items)
        BY <2>3, <3>1, PrioritizeOrders
      <4> QED
        BY <4>1 DEF ToSet
    <3>3. j < k
      BY <2>3, <3>1, <3>2, PrioritizeOrders
    <3>4. j \in 1 .. k - 1 /\ Takes(j, e)
      BY <2>3, <3>2, <3>3 DEF Takes
    <3> QED
      BY <2>1, <3>4 DEF FirstFor
  <2> QED
    BY <2>1, <2>2, <2>3 DEF BestOffered
<1> QED
  BY <1>1, SelectionStart, SelectionStep, PTL DEF SelectionSpec

-----------------------------------------------------------------------------
(* Of large and new items the preview shows those the check would take.     *)
LEMMA PreviewedIsTaken ==
  ASSUME rules \in RuleSets, NEW item \in Items, item.large, item.fresh
  PROVE  Previewable(item) <=> Eligible(item)
<1>1. LanguageAllowed(item)
  BY DEF LanguageAllowed, ShouldDownload
<1>2. MatchesSubscriptionFilters(item) <=> PassesFilter(item)
  BY DEF MatchesSubscriptionFilters, PassesFilter
<1>3. PreviewRelative(item) = Relative(item)
  BY ItemTypes
<1> QED
  BY <1>1, <1>2, <1>3 DEF Previewable, Eligible, InRange

(* If no item of the feed is too small or out of date, what the preview     *)
(* shows is what a check that comes to its end downloads                    *)
(* (SubscriptionHandler.Preview, processFetchedFeedItemsWithSummary).       *)
THEOREM PreviewsAreHonoured == SelectionSpec => []PreviewHonoured
<1>1. SelectionInv => PreviewHonoured
  <2> DEFINE order == Prioritize(feed)
             shown(owner) ==
               LET actions == Preview(feed, owner) IN
               {order[n] : n \in {k \in DOMAIN actions : actions[k] = "download"}}
             owners == {picked.owner[e] : e \in {n \in Episodes : Owned(n)}}
             none == [e \in Episodes |-> NoItem]
  <2> SUFFICES ASSUME SelectionInv, Finished, \A item \in ToSet(feed) : item.large /\ item.fresh
               PROVE  owners = shown(none) /\ shown(picked.owner) = {}
    BY DEF PreviewHonoured
  <2>1. /\ feed \in Seq(Items) /\ rules \in RuleSets /\ loop.order = order /\ loop.next = Len(order) + 1
        /\ order \in Seq(Items) /\ ToSet(order) = ToSet(feed) /\ Len(order) \in Nat
        /\ picked.owner \in [Episodes -> Items \cup {NoItem}]
    <3>1. feed \in Seq(Items) /\ rules \in RuleSets /\ loop.next = Len(loop.order) + 1 /\ Len(loop.order) \in Nat
          /\ picked.owner \in [Episodes -> Items \cup {NoItem}]
      BY DEF SelectionInv, SelectionTyped, Finished
    <3>2. loop.order = order
      BY <3>1 DEF SelectionInv
    <3> QED
      BY <3>1, <3>2, PrioritizeOrders
  <2> HIDE DEF order
  <2>2. \A k \in 1 .. Len(order) : order[k] \in Items /\ (Previewable(order[k]) <=> Eligible(order[k]))
    <3> TAKE k \in 1 .. Len(order)
    <3>1. order[k] \in Items /\ order[k] \in ToSet(feed)
      <4>1. order[k] \in ToSet(order)
        BY <2>1 DEF ToSet
      <4> QED
        BY <2>1, <4>1
    <3> QED
      BY <2>1, <3>1, PreviewedIsTaken
  <2>3. \A k \in 1 .. Len(order) :
          Previewable(order[k]) /\ ~Processed(order, k) <=> FirstFor(k, Relative(order[k]))
    <3> TAKE k \in 1 .. Len(order)
    <3>1. \A j \in 1 .. k - 1 : j \in 1 .. Len(order)
      BY <2>1
    <3>2. \A j \in 1 .. Len(order) : Eligible(order[j]) =>
            Relative(order[j]) > 0 /\ order[j].episode = Relative(order[j]) + rules.offset
      BY <2>1, <2>2, ItemTypes DEF Eligible, InRange
    <3>3. \A j \in 1 .. Len(order) : Relative(order[j]) \in 0 .. 3 /\ rules.offset \in 0 .. 1
      BY <2>1, <2>2, ItemTypes
    <3>4. ASSUME NEW j \in 1 .. k - 1, Eligible(order[k]), Eligible(order[j])
          PROVE  order[j].episode = order[k].episode <=> Relative(order[j]) = Relative(order[k])
      BY <3>1, <3>2, <3>3, <3>4
    <3> QED
      BY <2>1, <2>2, <3>1, <3>4 DEF Processed, FirstFor, Takes
  <2>4. \A owner : Preview(feed, owner) =
          [k \in 1 .. Len(order) |->
             IF FirstFor(k, Relative(order[k])) THEN PreviewRSSItem(order[k], owner) ELSE "skip"]
    <3>1. DOMAIN order = 1 .. Len(order)
      BY <2>1
    <3> QED
      BY <2>3, <3>1 DEF Preview, order
  <2> DEFINE first == {k \in 1 .. Len(order) : FirstFor(k, Relative(order[k]))}
  <2>5. \A owner : shown(owner) = {order[k] : k \in {n \in first : PreviewRSSItem(order[n], owner) = "download"}}
    BY <2>4
  <2>6. \A k \in first : /\ k \in 1 .. Len(order) /\ order[k] \in Items /\ Eligible(order[k])
                         /\ PreviewRelative(order[k]) = Relative(order[k])
                         /\ Relative(order[k]) \in Episodes
    BY <2>1, <2>2, ItemTypes, EligibleHasEpisode DEF FirstFor, Takes
  <2>7. ASSUME NEW k \in first
        PROVE  Owned(Relative(order[k])) /\ picked.owner[Relative(order[k])] = order[k]
    <3> DEFINE e == Relative(order[k])
    <3>1. Owned(e)
      BY <2>1, <2>6 DEF SelectionInv
    <3>2. PICK j \in 1 .. Len(order) : FirstFor(j, e) /\ picked.owner[e] = order[j]
      BY <2>1, <2>6, <3>1 DEF SelectionInv
    <3>3. FirstFor(k, e) /\ Takes(k, e) /\ Takes(j, e)
      BY <3>2 DEF FirstFor
    <3>4. ~(j < k) /\ ~(k < j)
      BY <2>6, <3>2, <3>3 DEF FirstFor
    <3>5. j = k
      BY <2>1, <2>6, <3>4
    <3> QED
      BY <3>1, <3>2, <3>5
  <2>8. \A k \in first : PreviewRSSItem(order[k], none) = "download"
                         /\ PreviewRSSItem(order[k], picked.owner) # "download"
    BY <2>6, <2>7 DEF PreviewRSSItem, Owned
  <2>9. owners = {order[k] : k \in first}
    <3>1. ASSUME NEW e \in Episodes, Owned(e)
          PROVE  \E k \in first : picked.owner[e] = order[k]
      <4>1. PICK k \in 1 .. Len(order) : FirstFor(k, e) /\ picked.owner[e] = order[k]
        BY <2>1, <3>1 DEF SelectionInv
      <4>2. Relative(order[k]) = e
        BY <2>1, <4>1 DEF FirstFor, Takes
      <4> QED
        BY <4>1, <4>2
    <3> HIDE DEF first
    <3> QED
      BY <2>6, <2>7, <3>1
  <2> HIDE DEF first, shown
  <2>10. shown(none) = {order[k] : k \in first}
    BY <2>5, <2>8
  <2>11. shown(picked.owner) = {}
    BY <2>5, <2>8
  <2> QED
    BY <2>9, <2>10, <2>11
<1> QED
  BY <1>1, SelectionStart, SelectionStep, PTL DEF SelectionSpec
-----------------------------------------------------------------------------
(* The cleanup of the log rows: what is counted as too many stays that,    *)
(* however many rows are added meanwhile.                                  *)
HIDE SelectionAssumption
USE LogAssumption

LogsTyped ==
  /\ logs \in [old : Nat, young : Nat]
  /\ cleaner \in [due : BOOLEAN, pc : {"idle", "expired", "excess"}, excess : Nat, cleared : BOOLEAN]

(* The excess was counted when there were at least as many rows as now,    *)
(* but for those this cleanup removed.                                     *)
ExcessIsThere ==
  cleaner.pc = "excess" /\ ~cleaner.cleared /\ cleaner.excess > 0 => Total >= LogLimit + cleaner.excess

LogsInv == LogsTyped /\ ExcessIsThere

LEMMA LogRows ==
  ASSUME LogsTyped
  PROVE  /\ logs.old \in Nat /\ logs.young \in Nat /\ Total \in Nat
         /\ cleaner.due \in BOOLEAN /\ cleaner.pc \in {"idle", "expired", "excess"}
         /\ cleaner.excess \in Nat /\ cleaner.cleared \in BOOLEAN
BY DEF LogsTyped, Total

(* The oldest n rows go: the recent ones only after all the others.        *)
LEMMA Dropped ==
  ASSUME LogsTyped, NEW n \in 0 .. Total, Drop(n)
  PROVE  /\ logs' \in [old : Nat, young : Nat]
         /\ logs'.old + logs'.young = Total - n
         /\ logs'.old <= logs.old
         /\ n <= logs.old => logs'.young = logs.young
<1>0. logs.old \in Nat /\ logs.young \in Nat /\ logs \in [old : Nat, young : Nat] /\ n \in Nat
  BY LogRows DEF LogsTyped
<1>1. CASE n <= logs.old
  <2>1. logs' = [logs EXCEPT !.old = logs.old - n] /\ logs.old - n \in Nat
    BY <1>0, <1>1 DEF Drop
  <2> QED
    BY <1>0, <1>1, <2>1 DEF Total
<1>2. CASE ~(n <= logs.old)
  <2>1. logs' = [old |-> 0, young |-> logs.young - (n - logs.old)] /\ logs.young - (n - logs.old) \in Nat
    BY <1>0, <1>2 DEF Drop, Total
  <2> QED
    BY <1>0, <1>2, <2>1 DEF Total
<1> QED
  BY <1>1, <1>2

(* A step of a cleanup whose count is still good leaves the limit.         *)
RecentLeft ==
  logs'.young < logs.young /\ logs'.old <= logs.old /\ ~cleaner'.cleared => logs'.old + logs'.young >= LogLimit

LEMMA LogsStep == LogsInv /\ [LogsNext]_logVars => LogsInv' /\ [RecentLeft]_logVars
<1> SUFFICES ASSUME LogsInv, [LogsNext]_logVars PROVE LogsInv' /\ [RecentLeft]_logVars
  OBVIOUS
<1>0. /\ LogsTyped /\ ExcessIsThere
      /\ logs.old \in Nat /\ logs.young \in Nat /\ Total \in Nat /\ logs \in [old : Nat, young : Nat]
      /\ cleaner.due \in BOOLEAN /\ cleaner.pc \in {"idle", "expired", "excess"}
      /\ cleaner.excess \in Nat /\ cleaner.cleared \in BOOLEAN
      /\ LogLimit \in Nat /\ LogBatch \in Nat \ {0}
  BY LogRows DEF LogsInv, LogsTyped
<1> DEFINE Turn(due, pc, excess, cleared) ==
             cleaner' = [due |-> due, pc |-> pc, excess |-> excess, cleared |-> cleared]
(* Rows are added or become old.                                           *)
<1>1. ASSUME WriteLog \/ LogAges PROVE LogsInv' /\ RecentLeft
  <2>1. /\ cleaner' = cleaner /\ logs' \in [old : Nat, young : Nat]
        /\ logs'.old + logs'.young >= Total /\ (logs'.young < logs.young => logs'.old > logs.old)
    <3>1. CASE WriteLog
      <4>1. logs' = [logs EXCEPT !.young = logs.young + 1]
        BY <3>1 DEF WriteLog
      <4> QED
        BY <1>0, <3>1, <4>1 DEF WriteLog, Total
    <3>2. CASE LogAges
      <4> DEFINE fewer == logs.young - 1
                 more == logs.old + 1
      <4>1. logs' = [logs EXCEPT !.young = fewer, !.old = more] /\ fewer \in Nat /\ more \in Nat
        BY <1>0, <3>2 DEF LogAges
      <4> HIDE DEF fewer, more
      <4>2. logs' = [old |-> more, young |-> fewer]
        BY <1>0, <4>1
      <4> QED
        BY <1>0, <3>2, <4>1, <4>2 DEF LogAges, Total, fewer, more
    <3> QED
      BY <1>1, <3>1, <3>2
  <2> QED
    BY <1>0, <2>1 DEF LogsInv, LogsTyped, ExcessIsThere, Total, RecentLeft
(* The cleanup goes on and removes nothing.                                *)
<1>2. ASSUME CleanupDue \/ ReserveCleanup \/ CountExcess \/ EndCleanup PROVE LogsInv' /\ RecentLeft
  <2>1. logs' = logs
    BY <1>2 DEF CleanupDue, ReserveCleanup, CountExcess, EndCleanup
  <2>2. /\ cleaner' \in [due : BOOLEAN, pc : {"idle", "expired", "excess"}, excess : Nat, cleared : BOOLEAN]
        /\ cleaner'.pc = "excess" /\ cleaner'.excess > 0 => Total >= LogLimit + cleaner'.excess
    <3>1. CASE CleanupDue
      <4>1. cleaner' = [cleaner EXCEPT !.due = TRUE] /\ cleaner.pc = "idle"
        BY <3>1 DEF CleanupDue
      <4> QED
        BY <1>0, <4>1 DEF LogsTyped
    <3>2. CASE ReserveCleanup
      BY <1>0, <3>2 DEF ReserveCleanup
    <3>3. CASE CountExcess
      <4> DEFINE excess == IF Total > LogLimit THEN Total - LogLimit ELSE 0
      <4>1. cleaner' = [cleaner EXCEPT !.pc = "excess", !.excess = excess] /\ excess \in Nat
            /\ (excess > 0 => Total >= LogLimit + excess)
        BY <1>0, <3>3 DEF CountExcess
      <4> HIDE DEF excess
      <4>2. Turn(cleaner.due, "excess", excess, cleaner.cleared)
        BY <1>0, <4>1 DEF LogsTyped
      <4> QED
        BY <1>0, <4>1, <4>2
    <3>4. CASE EndCleanup
      <4>1. cleaner' = [cleaner EXCEPT !.pc = "idle", !.excess = 0]
        BY <3>4 DEF EndCleanup
      <4>2. Turn(cleaner.due, "idle", 0, cleaner.cleared)
        BY <1>0, <4>1 DEF LogsTyped
      <4> QED
        BY <1>0, <4>2
    <3> QED
      BY <1>2, <3>1, <3>2, <3>3, <3>4
  <2> QED
    BY <1>0, <2>1, <2>2 DEF LogsInv, LogsTyped, ExcessIsThere, Total, RecentLeft
<1>3. ASSUME DropExpired PROVE LogsInv' /\ RecentLeft
  <2> DEFINE n == Smaller(logs.old, LogBatch)
  <2>1. n \in 0 .. Total /\ n <= logs.old /\ Drop(n) /\ cleaner' = cleaner /\ cleaner.pc = "expired"
    BY <1>0, <1>3 DEF DropExpired, Smaller, Total
  <2> HIDE DEF n
  <2>2. logs' \in [old : Nat, young : Nat] /\ logs'.young = logs.young
    BY <1>0, <2>1, Dropped
  <2> QED
    BY <1>0, <2>1, <2>2 DEF LogsInv, LogsTyped, ExcessIsThere, RecentLeft
<1>4. ASSUME DropExcess PROVE LogsInv' /\ RecentLeft
  <2> DEFINE n == Smaller(BatchOf(cleaner.excess), Total)
             left == IF cleaner.excess > n THEN cleaner.excess - n ELSE 0
  <2>1. /\ n \in 0 .. Total /\ n <= cleaner.excess /\ left = cleaner.excess - n /\ left \in Nat
        /\ Drop(n) /\ cleaner.pc = "excess" /\ cleaner.excess > 0
        /\ cleaner' = [cleaner EXCEPT !.excess = left]
    BY <1>0, <1>4 DEF DropExcess, BatchOf, Smaller
  <2> HIDE DEF n, left
  <2>2. logs' \in [old : Nat, young : Nat] /\ logs'.old + logs'.young = Total - n
    BY <1>0, <2>1, Dropped
  <2>3. /\ cleaner' \in [due : BOOLEAN, pc : {"idle", "expired", "excess"}, excess : Nat, cleared : BOOLEAN]
        /\ cleaner'.excess = left /\ cleaner'.cleared = cleaner.cleared
    BY <1>0, <2>1 DEF LogsTyped
  <2>4. ~cleaner.cleared => Total >= LogLimit + cleaner.excess
    BY <1>0, <2>1 DEF ExcessIsThere
  <2>5. ~cleaner'.cleared => logs'.old + logs'.young >= LogLimit + left
    BY <1>0, <2>1, <2>2, <2>3, <2>4
  <2> QED
    BY <1>0, <2>1, <2>2, <2>3, <2>5 DEF LogsInv, LogsTyped, ExcessIsThere, Total, RecentLeft
<1>5. ASSUME NEW n \in 1 .. MaxLogs, ClearLogs(n) PROVE LogsInv' /\ RecentLeft
  <2>1. n \in 0 .. Total /\ Drop(n) /\ cleaner' = [cleaner EXCEPT !.cleared = TRUE]
    BY <1>0, <1>5 DEF ClearLogs
  <2>2. logs' \in [old : Nat, young : Nat]
    BY <1>0, <2>1, Dropped
  <2>3. /\ cleaner' \in [due : BOOLEAN, pc : {"idle", "expired", "excess"}, excess : Nat, cleared : BOOLEAN]
        /\ cleaner'.cleared
    BY <1>0, <2>1 DEF LogsTyped
  <2> QED
    BY <2>2, <2>3 DEF LogsInv, LogsTyped, ExcessIsThere, RecentLeft
<1>6. CASE UNCHANGED logVars
  BY <1>0, <1>6 DEF LogsInv, LogsTyped, ExcessIsThere, Total, logVars
<1> QED
  BY <1>1, <1>2, <1>3, <1>4, <1>5, <1>6 DEF LogsNext

(* However many rows are added while cleanupOldLogs works and however old  *)
(* they become meanwhile, it takes a recent row only as long as at least   *)
(* maxLogCount rows remain, unless the user clears logs at the same time:  *)
(* for every limit, size of the batches and number of rows.                *)
THEOREM RecentLogsAreKept == LogsSpec => RecentLogsStay
<1>1. LogsInit => LogsInv
  BY DEF LogsInit, LogsInv, LogsTyped, ExcessIsThere
<1>2. LogsInv /\ [LogsNext]_logVars =>
        [logs'.young < logs.young /\ logs'.old <= logs.old /\ ~cleaner'.cleared
           => logs'.old + logs'.young >= LogLimit]_logVars
  BY LogsStep DEF RecentLeft
<1>3. LogsInv /\ [LogsNext]_logVars => LogsInv'
  BY LogsStep
<1> QED
  BY <1>1, <1>2, <1>3, PTL DEF LogsSpec, RecentLogsStay

-----------------------------------------------------------------------------
(* Backup and restore: what an import makes of a row of the database and   *)
(* the record of the package.                                              *)
HIDE LogAssumption
USE BackupAssumption

Marks == {Nothing, "pending", "synced", "recorded"}
EpisodeTyped == [status : {Nothing, "missing", "downloading", "downloaded"}, owned : BOOLEAN]
CandidateTyped == CandidateRows \cup {"failed"}
SubTyped == [there : BOOLEAN, text : Texts, enabled : BOOLEAN, feeds : [BackupUrls -> Marks],
             episode : EpisodeTyped, candidate : CandidateTyped]
DbTyped == [configs : [Configs -> {Nothing, "a", "b"}], group : Colors \cup {Nothing},
            subs : [BackupSubs -> SubTyped]]
ContentTyped == [configs : [Configs -> {Nothing, "a", "b", Redacted}], group : Colors \cup {Nothing},
                 subs : [BackupSubs -> SubTyped]]

(* The placeholder of a secret is in packages only.                        *)
BackupInv ==
  /\ db \in DbTyped
  /\ pkg \in [format : {"none", "auto-rss", "auto-bangumi"}, content : ContentTyped]

LEMMA SubFields ==
  ASSUME NEW row \in SubTyped
  PROVE  /\ row.there \in BOOLEAN /\ row.text \in Texts /\ row.enabled \in BOOLEAN
         /\ row.feeds \in [BackupUrls -> Marks]
         /\ row.episode \in EpisodeTyped /\ row.candidate \in CandidateTyped
BY DEF SubTyped

LEMMA EpisodeFields ==
  ASSUME NEW e \in EpisodeTyped
  PROVE  e.status \in {Nothing, "missing", "downloading", "downloaded"} /\ e.owned \in BOOLEAN
BY DEF EpisodeTyped

LEMMA NoSubTyped == NoSub \in SubTyped /\ ~NoSub.there
BY DEF NoSub, SubTyped, EpisodeTyped, CandidateTyped, CandidateRows, Texts, Marks

(* A new subscription, and the rows the rest of the program writes.        *)
LEMMA NewRow ==
  ASSUME NEW text \in Texts, NEW enabled \in BOOLEAN
  PROVE  SubNamed(text, enabled) \in SubTyped
BY NoSubTyped DEF SubTyped, SubNamed

LEMMA EpisodeRowTyped == ASSUME NEW e \in EpisodeRows PROVE e \in EpisodeTyped
<1>1. \/ e = [status |-> Nothing, owned |-> FALSE] \/ e = [status |-> "missing", owned |-> FALSE]
      \/ e = [status |-> "downloading", owned |-> TRUE] \/ e = [status |-> "downloaded", owned |-> TRUE]
  BY Zenon DEF EpisodeRows
<1>2. /\ [status |-> Nothing, owned |-> FALSE] \in EpisodeTyped
      /\ [status |-> "missing", owned |-> FALSE] \in EpisodeTyped
      /\ [status |-> "downloading", owned |-> TRUE] \in EpisodeTyped
      /\ [status |-> "downloaded", owned |-> TRUE] \in EpisodeTyped
  BY DEF EpisodeTyped
<1> QED
  BY <1>1, <1>2

LEMMA CandidateRowTyped == ASSUME NEW c \in CandidateRows PROVE c \in CandidateTyped
BY DEF CandidateTyped

LEMMA EmptyTyped == EmptyDb \in DbTyped /\ EmptyDb \in ContentTyped
BY NoSubTyped DEF EmptyDb, DbTyped, ContentTyped, Colors

(* What an import leaves of an episode, a candidate and the feeds.         *)
LEMMA EpisodeRestored ==
  ASSUME NEW local \in EpisodeTyped, NEW record \in EpisodeTyped, NEW how \in Strategies
  PROVE  /\ RestoreEpisode(local, record, how) \in EpisodeTyped
         /\ RestoreEpisode(local, record, how) # local =>
              /\ RestoreEpisode(local, record, how).status # "downloading"
              /\ ~RestoreEpisode(local, record, how).owned
         /\ RowKept(local.status, RestoreEpisode(local, record, how).status)
         /\ how # "overwrite" /\ local.status # Nothing => RestoreEpisode(local, record, how) = local
<1> DEFINE normal == NormalizeEpisode(record)
           back == [normal EXCEPT !.owned = FALSE]
<1>1. normal \in EpisodeTyped /\ normal.status # "downloading" /\ (record.status # Nothing => normal.status # Nothing)
  BY EpisodeFields DEF NormalizeEpisode, EpisodeTyped, Nothing
<1> HIDE DEF normal
<1>2. back \in EpisodeTyped /\ back.status # "downloading" /\ ~back.owned /\ back.status = normal.status
  BY <1>1 DEF EpisodeTyped
<1>3. \/ RestoreEpisode(local, record, how) = local
      \/ record.status # Nothing /\ RestoreEpisode(local, record, how) = back
  BY DEF RestoreEpisode, normal
<1>4. how # "overwrite" /\ local.status # Nothing => RestoreEpisode(local, record, how) = local
  BY DEF RestoreEpisode
<1> HIDE DEF back
<1> QED
  BY <1>1, <1>2, <1>3, <1>4 DEF RowKept

LEMMA CandidateRestored ==
  ASSUME NEW local \in CandidateTyped, NEW record \in CandidateTyped, NEW how \in Strategies
  PROVE  /\ RestoreCandidate(local, record, how) \in CandidateTyped
         /\ RestoreCandidate(local, record, how) # local =>
              RestoreCandidate(local, record, how) \in {"available", "failed"}
         /\ RowKept(local, RestoreCandidate(local, record, how))
         /\ how # "overwrite" /\ local # Nothing => RestoreCandidate(local, record, how) = local
BY DEF RestoreCandidate, NormalizeCandidate, CandidateTyped, CandidateRows, RowKept, Nothing

LEMMA FeedsRestored ==
  ASSUME NEW local \in [BackupUrls -> Marks], NEW record \in [BackupUrls -> Marks]
  PROVE  /\ Recreated(record) \in [BackupUrls -> {"pending", Nothing}]
         /\ \A u \in BackupUrls : record[u] # Nothing => Recreated(record)[u] # Nothing
         /\ MergeFeeds(local, record) \in [BackupUrls -> Marks]
         /\ \A u \in BackupUrls : IF local[u] # Nothing THEN MergeFeeds(local, record)[u] = local[u]
                                  ELSE MergeFeeds(local, record)[u] \in {"pending", Nothing}
<1>1. /\ Recreated(record) \in [BackupUrls -> {"pending", Nothing}]
      /\ \A u \in BackupUrls : record[u] # Nothing => Recreated(record)[u] # Nothing
  BY DEF Recreated, Nothing
<1>2. \A u \in BackupUrls :
        MergeFeeds(local, record)[u] = IF local[u] # Nothing THEN local[u] ELSE Recreated(record)[u]
  BY DEF MergeFeeds
<1>3. MergeFeeds(local, record) = [u \in BackupUrls |-> IF local[u] # Nothing THEN local[u] ELSE Recreated(record)[u]]
  BY DEF MergeFeeds
<1>4. MergeFeeds(local, record) \in [BackupUrls -> Marks]
  BY <1>1, <1>3 DEF Marks
<1> QED
  BY <1>1, <1>2, <1>4

(* restoreSubscriptions: a row that is there stays, and one that is not to *)
(* be overwritten keeps what it has.                                       *)
LEMMA SubRestored ==
  ASSUME NEW local \in SubTyped, NEW record \in SubTyped, NEW how \in Strategies
  PROVE  LET new == RestoreSub(local, record, how) IN
         /\ new \in SubTyped
         /\ local.there => new.there
         /\ local.there /\ how # "overwrite" =>
              /\ local.text # "" => new.text = local.text
              /\ new.enabled = local.enabled
              /\ \A u \in BackupUrls : local.feeds[u] # Nothing => new.feeds[u] = local.feeds[u]
         /\ local.there => \A u \in BackupUrls :
              (how = "overwrite" /\ record.there /\ record.feeds[u] = Nothing) \/ RowKept(local.feeds[u], new.feeds[u])
         /\ \A u \in BackupUrls : new.feeds[u] # local.feeds[u] => new.feeds[u] \in {"pending", Nothing}
<1> DEFINE fresh == Recreated(record.feeds)
           merged == MergeFeeds(local.feeds, record.feeds)
           text == MergeText(local.text, record.text)
           new == RestoreSub(local, record, how)
<1>0. /\ local.there \in BOOLEAN /\ local.text \in Texts /\ local.enabled \in BOOLEAN
      /\ local.feeds \in [BackupUrls -> Marks] /\ record.feeds \in [BackupUrls -> Marks]
      /\ local.episode \in EpisodeTyped /\ local.candidate \in CandidateTyped
      /\ record.there \in BOOLEAN /\ record.text \in Texts /\ record.enabled \in BOOLEAN
  BY SubFields
<1>1. /\ fresh \in [BackupUrls -> {"pending", Nothing}] /\ merged \in [BackupUrls -> Marks]
      /\ \A u \in BackupUrls : IF local.feeds[u] # Nothing THEN merged[u] = local.feeds[u]
                               ELSE merged[u] \in {"pending", Nothing}
  BY <1>0, FeedsRestored
<1>2. text \in Texts /\ (local.text # "" => text = local.text)
  BY <1>0 DEF MergeText
<1>3. /\ fresh \in [BackupUrls -> Marks] /\ \A u \in BackupUrls : fresh[u] \in {"pending", Nothing}
      /\ \A u \in BackupUrls : record.feeds[u] # Nothing => fresh[u] # Nothing
  BY <1>0, <1>1, FeedsRestored DEF Marks
<1> HIDE DEF fresh, merged, text
<1>4. CASE ~record.there
  BY <1>0, <1>4 DEF RestoreSub, RowKept
<1>5. CASE record.there /\ ~local.there
  <2>1. new = [local EXCEPT !.there = TRUE, !.text = record.text, !.enabled = TRUE, !.feeds = fresh]
    BY <1>5 DEF RestoreSub, fresh
  <2> HIDE DEF new
  <2>2. new \in SubTyped /\ new.feeds = fresh
    BY <1>0, <1>3, <2>1 DEF SubTyped
  <2> QED
    BY <1>3, <1>5, <2>2 DEF new
<1>6. CASE record.there /\ local.there /\ how = "overwrite"
  <2>1. new = [local EXCEPT !.text = record.text, !.enabled = record.enabled, !.feeds = fresh]
    BY <1>6 DEF RestoreSub, fresh
  <2> HIDE DEF new
  <2>2. new \in SubTyped /\ new.feeds = fresh /\ new.there
    BY <1>0, <1>3, <1>6, <2>1 DEF SubTyped
  <2> QED
    BY <1>3, <1>6, <2>2 DEF new, RowKept
<1>7. CASE record.there /\ local.there /\ how = "merge"
  <2>1. new = [local EXCEPT !.text = text, !.feeds = merged]
    BY <1>7 DEF RestoreSub, text, merged
  <2> HIDE DEF new
  <2>2. /\ new \in SubTyped /\ new.feeds = merged /\ new.there /\ new.text = text
        /\ new.enabled = local.enabled
    BY <1>0, <1>1, <1>2, <1>7, <2>1 DEF SubTyped
  <2> QED
    BY <1>1, <1>2, <1>7, <2>2 DEF new, RowKept
<1>8. CASE record.there /\ local.there /\ how = "skip"
  BY <1>0, <1>8 DEF RestoreSub, RowKept
<1> QED
  BY <1>0, <1>4, <1>5, <1>6, <1>7, <1>8 DEF Strategies

(* A row of the subscriptions with its episode and its candidate.          *)
LEMMA RowRestored ==
  ASSUME NEW local \in SubTyped, NEW record \in SubTyped, NEW how \in Strategies
  PROVE  LET row == RestoreSub(local, record, how)
             new == [row EXCEPT !.episode = RestoreEpisode(local.episode, record.episode, how),
                                !.candidate = RestoreCandidate(local.candidate, record.candidate, how)] IN
         /\ new \in SubTyped
         /\ new.there = row.there /\ new.text = row.text /\ new.enabled = row.enabled /\ new.feeds = row.feeds
         /\ new.episode = RestoreEpisode(local.episode, record.episode, how)
         /\ new.candidate = RestoreCandidate(local.candidate, record.candidate, how)
<1> DEFINE row == RestoreSub(local, record, how)
           episode == RestoreEpisode(local.episode, record.episode, how)
           candidate == RestoreCandidate(local.candidate, record.candidate, how)
           new == [row EXCEPT !.episode = episode, !.candidate = candidate]
<1>1. row \in SubTyped
  BY SubRestored
<1>2. episode \in EpisodeTyped /\ candidate \in CandidateTyped
  BY SubFields, EpisodeRestored, CandidateRestored
<1> HIDE DEF row, episode, candidate
<1>3. /\ new \in SubTyped /\ new.there = row.there /\ new.text = row.text /\ new.enabled = row.enabled
      /\ new.feeds = row.feeds /\ new.episode = episode /\ new.candidate = candidate
  BY <1>1, <1>2 DEF SubTyped
<1> QED
  BY <1>3 DEF row, episode, candidate

(* What one import does.                                                   *)
RowImported(was, new, record, how) ==
  /\ new.episode # was.episode => new.episode.status # "downloading" /\ ~new.episode.owned
  /\ new.candidate # was.candidate => new.candidate \in {"available", "failed"}
  /\ \A u \in BackupUrls : new.feeds[u] # was.feeds[u] => new.feeds[u] \in {"pending", Nothing}
  /\ was.there =>
       /\ new.there
       /\ RowKept(was.episode.status, new.episode.status) /\ RowKept(was.candidate, new.candidate)
       /\ \A u \in BackupUrls :
            (how = "overwrite" /\ record.there /\ record.feeds[u] = Nothing)
              \/ RowKept(was.feeds[u], new.feeds[u])
       /\ how # "overwrite" =>
            /\ Kept(was.text, new.text) /\ new.enabled = was.enabled
            /\ \A u \in BackupUrls : Kept(was.feeds[u], new.feeds[u])
            /\ Kept(was.episode.status, new.episode.status)
            /\ Kept(was.candidate, new.candidate)

LEMMA ImportDoes ==
  ASSUME BackupInv, NEW how \in Strategies, Import(how)
  PROVE  /\ db' \in DbTyped
         /\ \A c \in Configs : /\ RowKept(db.configs[c], db'.configs[c])
                               /\ db'.configs[c] # Redacted
                               /\ how # "overwrite" => Kept(db.configs[c], db'.configs[c])
         /\ RowKept(db.group, db'.group)
         /\ how # "overwrite" /\ ~(how = "merge" /\ db.group = DefaultColor) => Kept(db.group, db'.group)
         /\ \A s \in BackupSubs : RowImported(db.subs[s], db'.subs[s], pkg.content.subs[s], how)
<1> DEFINE p == pkg.content
<1>0. /\ db.configs \in [Configs -> {Nothing, "a", "b"}] /\ db.group \in Colors \cup {Nothing}
      /\ db.subs \in [BackupSubs -> SubTyped]
      /\ p.configs \in [Configs -> {Nothing, "a", "b", Redacted}] /\ p.group \in Colors \cup {Nothing}
      /\ p.subs \in [BackupSubs -> SubTyped]
  BY DEF BackupInv, DbTyped, ContentTyped
<1>1. db' = Restored(db, p, how)
  BY DEF Import
<1> HIDE DEF p
<1>2. /\ db'.configs = [c \in Configs |-> RestoreConfig(db.configs[c], p.configs[c], how)]
      /\ db'.group = RestoreGroup(db.group, p.group, how)
      /\ db'.subs = [s \in BackupSubs |->
           [RestoreSub(db.subs[s], p.subs[s], how) EXCEPT
             !.episode = RestoreEpisode(db.subs[s].episode, p.subs[s].episode, how),
             !.candidate = RestoreCandidate(db.subs[s].candidate, p.subs[s].candidate, how)]]
      /\ db' = [configs |-> db'.configs, group |-> db'.group, subs |-> db'.subs]
  BY <1>1 DEF Restored
<1>3. ASSUME NEW c \in Configs
      PROVE  /\ db'.configs[c] \in {Nothing, "a", "b"} /\ db'.configs[c] # Redacted
             /\ RowKept(db.configs[c], db'.configs[c])
             /\ how # "overwrite" => Kept(db.configs[c], db'.configs[c])
  <2>1. db'.configs[c] = RestoreConfig(db.configs[c], p.configs[c], how)
    BY <1>2
  <2>2. db.configs[c] \in {Nothing, "a", "b"} /\ p.configs[c] \in {Nothing, "a", "b", Redacted}
    BY <1>0
  <2> QED
    BY <2>1, <2>2 DEF RestoreConfig, Importable, Kept, RowKept, Nothing, Redacted
<1>4. /\ db'.group \in Colors \cup {Nothing} /\ RowKept(db.group, db'.group)
      /\ how # "overwrite" /\ ~(how = "merge" /\ db.group = DefaultColor) => Kept(db.group, db'.group)
  BY <1>0, <1>2 DEF RestoreGroup, MergeColor, Kept, RowKept, Colors, DefaultColor, Nothing
<1>5. ASSUME NEW s \in BackupSubs PROVE db'.subs[s] \in SubTyped /\ RowImported(db.subs[s], db'.subs[s], p.subs[s], how)
  <2> DEFINE was == db.subs[s]
             record == p.subs[s]
             new == db'.subs[s]
             row == RestoreSub(was, record, how)
  <2>1. was \in SubTyped /\ record \in SubTyped
    BY <1>0
  <2>2. /\ new \in SubTyped
        /\ new.there = row.there /\ new.text = row.text /\ new.enabled = row.enabled /\ new.feeds = row.feeds
        /\ new.episode = RestoreEpisode(was.episode, record.episode, how)
        /\ new.candidate = RestoreCandidate(was.candidate, record.candidate, how)
    <3>1. new = [row EXCEPT !.episode = RestoreEpisode(was.episode, record.episode, how),
                            !.candidate = RestoreCandidate(was.candidate, record.candidate, how)]
      BY <1>2
    <3> HIDE DEF was, record, new
    <3> QED
      BY <2>1, <3>1, RowRestored
  <2> HIDE DEF was, record, new
  <2>3. /\ was.episode \in EpisodeTyped /\ record.episode \in EpisodeTyped
        /\ was.candidate \in CandidateTyped /\ record.candidate \in CandidateTyped
    BY <2>1, SubFields
  <2>4. /\ was.there => row.there
        /\ was.there /\ how # "overwrite" =>
             /\ was.text # "" => row.text = was.text
             /\ row.enabled = was.enabled
             /\ \A u \in BackupUrls : was.feeds[u] # Nothing => row.feeds[u] = was.feeds[u]
        /\ was.there => \A u \in BackupUrls :
             (how = "overwrite" /\ record.there /\ record.feeds[u] = Nothing) \/ RowKept(was.feeds[u], row.feeds[u])
        /\ \A u \in BackupUrls : row.feeds[u] # was.feeds[u] => row.feeds[u] \in {"pending", Nothing}
    BY <2>1, SubRestored
  <2> HIDE DEF row
  <2>5. /\ new.episode # was.episode => new.episode.status # "downloading" /\ ~new.episode.owned
        /\ RowKept(was.episode.status, new.episode.status)
        /\ how # "overwrite" /\ was.episode.status # Nothing => new.episode = was.episode
    BY <2>2, <2>3, EpisodeRestored
  <2>6. /\ new.candidate # was.candidate => new.candidate \in {"available", "failed"}
        /\ RowKept(was.candidate, new.candidate)
        /\ how # "overwrite" /\ was.candidate # Nothing => new.candidate = was.candidate
    BY <2>2, <2>3, CandidateRestored
  <2>7. RowImported(was, new, record, how)
    BY <2>2, <2>4, <2>5, <2>6 DEF RowImported, Kept
  <2> QED
    BY <2>2, <2>7 DEF was, new, record
<1>6. db' \in DbTyped
  <2>1. db'.configs \in [Configs -> {Nothing, "a", "b"}]
    BY <1>2, <1>3
  <2>2. db'.subs \in [BackupSubs -> SubTyped]
    BY <1>2, <1>5
  <2> QED
    BY <1>2, <1>4, <2>1, <2>2 DEF DbTyped
<1> QED
  BY <1>3, <1>4, <1>5, <1>6 DEF p

(* The rest of the program, exports and packages.                          *)
LEMMA RecordExported == ASSUME NEW row \in SubTyped PROVE SubRecord(row) \in SubTyped
<1> DEFINE feeds == SanitizeFeeds(row.feeds)
           episode == NormalizeEpisode(row.episode)
           candidate == NormalizeCandidate(row.candidate)
<1>1. feeds \in [BackupUrls -> Marks] /\ episode \in EpisodeTyped /\ candidate \in CandidateTyped
  BY SubFields DEF SanitizeFeeds, NormalizeEpisode, NormalizeCandidate, Marks, EpisodeTyped, CandidateTyped, CandidateRows
<1>2. SubRecord(row) = [row EXCEPT !.feeds = feeds, !.episode = episode, !.candidate = candidate]
  BY DEF SubRecord
<1> HIDE DEF feeds, episode, candidate
<1> QED
  BY <1>1, <1>2 DEF SubTyped

LEMMA RestKeeps ==
  ASSUME BackupInv, SettingsNext \/ LibraryNext
  PROVE  BackupInv' /\ (pkg.format # "none" => pkg'.format # "none")
<1>0. /\ db \in DbTyped /\ db.configs \in [Configs -> {Nothing, "a", "b"}] /\ db.group \in Colors \cup {Nothing}
      /\ db.subs \in [BackupSubs -> SubTyped]
      /\ pkg \in [format : {"none", "auto-rss", "auto-bangumi"}, content : ContentTyped]
  BY DEF BackupInv, DbTyped
<1>p. ASSUME NEW s \in BackupSubs, NEW row \in SubTyped, BackedUp(s, row) PROVE BackupInv' /\ pkg' = pkg
  <2> DEFINE rows == [db.subs EXCEPT ![s] = row]
  <2>1. rows \in [BackupSubs -> SubTyped]
    BY <1>0
  <2>2. db' = [db EXCEPT !.subs = rows] /\ pkg' = pkg
    BY <1>p DEF BackedUp
  <2> HIDE DEF rows
  <2> QED
    BY <1>0, <2>1, <2>2 DEF BackupInv, DbTyped
<1>q. ASSUME NEW format \in {"auto-rss", "auto-bangumi"}, NEW content \in ContentTyped,
             pkg' = [format |-> format, content |-> content], UNCHANGED db
      PROVE  BackupInv' /\ pkg'.format # "none"
  BY <1>0, <1>q DEF BackupInv
<1>e. ASSUME NEW s \in BackupSubs, NEW row \in SubTyped PROVE [EmptyDb EXCEPT !.subs[s] = row] \in ContentTyped
  <2> DEFINE rows == [EmptyDb.subs EXCEPT ![s] = row]
  <2>1. EmptyDb \in ContentTyped /\ EmptyDb.subs \in [BackupSubs -> SubTyped]
    BY EmptyTyped DEF ContentTyped
  <2>2. rows \in [BackupSubs -> SubTyped]
    BY <2>1
  <2>3. [EmptyDb EXCEPT !.subs[s] = row] = [EmptyDb EXCEPT !.subs = rows]
    OBVIOUS
  <2> HIDE DEF rows
  <2> QED
    BY <2>1, <2>2, <2>3 DEF ContentTyped
<1>1. ASSUME ChangeSettings PROVE BackupInv' /\ pkg' = pkg
  <2>1. PICK c \in [Configs -> {Nothing, "a", "b"}], g \in Colors \cup {Nothing} :
          db' = [db EXCEPT !.configs = c, !.group = g]
    BY <1>1 DEF ChangeSettings
  <2>2. db' \in DbTyped
    BY <1>0, <2>1 DEF DbTyped
  <2> QED
    BY <1>0, <1>1, <2>2 DEF ChangeSettings, BackupInv
<1>2. ASSUME NEW s \in BackupSubs, ChangeSubscription(s) PROVE BackupInv' /\ pkg' = pkg
  <2>0. db.subs[s] \in SubTyped
    BY <1>0
  <2>1. ASSUME NEW text \in NewTexts, NEW enabled \in BOOLEAN,
               BackedUp(s, IF db.subs[s].there
                           THEN [db.subs[s] EXCEPT !.text = text, !.enabled = enabled]
                           ELSE SubNamed(text, enabled))
        PROVE  BackupInv' /\ pkg' = pkg
    <3> DEFINE row == IF db.subs[s].there
                      THEN [db.subs[s] EXCEPT !.text = text, !.enabled = enabled]
                      ELSE SubNamed(text, enabled)
    <3>1. text \in Texts
      BY DEF NewTexts, Texts
    <3>2. row \in SubTyped
      BY <2>0, <3>1, NewRow DEF SubTyped
    <3>3. BackedUp(s, row)
      BY <2>1
    <3> HIDE DEF row
    <3> QED
      BY <1>p, <3>2, <3>3
  <2> QED
    BY <1>2, <1>p, <2>1, NoSubTyped DEF ChangeSubscription
<1>3. ASSUME NEW s \in BackupSubs, NEW u \in BackupUrls, ChangeBackedFeed(s, u) PROVE BackupInv' /\ pkg' = pkg
  <2>1. PICK f \in {Nothing, "pending", "synced"} : BackedUp(s, [db.subs[s] EXCEPT !.feeds[u] = f])
    BY <1>3 DEF ChangeBackedFeed
  <2> DEFINE feeds == [db.subs[s].feeds EXCEPT ![u] = f]
  <2>2. db.subs[s] \in SubTyped /\ db.subs[s].feeds \in [BackupUrls -> Marks]
    BY <1>0, SubFields
  <2>3. feeds \in [BackupUrls -> Marks]
    BY <2>2 DEF Marks
  <2>4. BackedUp(s, [db.subs[s] EXCEPT !.feeds = feeds])
    BY <2>1
  <2> HIDE DEF feeds
  <2>5. [db.subs[s] EXCEPT !.feeds = feeds] \in SubTyped
    BY <2>2, <2>3 DEF SubTyped
  <2> QED
    BY <1>p, <2>4, <2>5
<1>4. ASSUME NEW s \in BackupSubs, ChangeEpisode(s) PROVE BackupInv' /\ pkg' = pkg
  <2>1. PICK e \in EpisodeRows :
          BackedUp(s, [db.subs[s] EXCEPT !.episode = e,
                         !.candidate = IF e.status = Nothing THEN Nothing ELSE db.subs[s].candidate])
    BY <1>4 DEF ChangeEpisode
  <2> DEFINE candidate == IF e.status = Nothing THEN Nothing ELSE db.subs[s].candidate
  <2>2. db.subs[s] \in SubTyped /\ candidate \in CandidateTyped /\ e \in EpisodeTyped
    <3>1. db.subs[s] \in SubTyped /\ db.subs[s].candidate \in CandidateTyped
      BY <1>0, SubFields
    <3>2. e \in EpisodeTyped
      BY EpisodeRowTyped
    <3> QED
      BY <3>1, <3>2 DEF CandidateTyped, CandidateRows
  <2>3. BackedUp(s, [db.subs[s] EXCEPT !.episode = e, !.candidate = candidate])
    BY <2>1
  <2> HIDE DEF candidate
  <2>4. [db.subs[s] EXCEPT !.episode = e, !.candidate = candidate] \in SubTyped
    BY <2>2 DEF SubTyped
  <2> QED
    BY <1>p, <2>3, <2>4
<1>5. ASSUME NEW s \in BackupSubs, ChangeCandidate(s) PROVE BackupInv' /\ pkg' = pkg
  <2>1. PICK c \in CandidateRows : BackedUp(s, [db.subs[s] EXCEPT !.candidate = c])
    BY <1>5 DEF ChangeCandidate
  <2>2. [db.subs[s] EXCEPT !.candidate = c] \in SubTyped
    <3>1. db.subs[s] \in SubTyped /\ c \in CandidateTyped
      BY <1>0 DEF CandidateTyped
    <3> QED
      BY <3>1 DEF SubTyped
  <2> QED
    BY <1>p, <2>1, <2>2
<1>6. ASSUME NEW b \in BOOLEAN, Export(b) PROVE BackupInv' /\ pkg'.format # "none"
  <2> DEFINE settings == [c \in Configs |-> Redact(c, db.configs[c], b)]
             rows == [s \in BackupSubs |-> SubRecord(db.subs[s])]
             content == [configs |-> settings, group |-> db.group, subs |-> rows]
  <2>1. settings \in [Configs -> {Nothing, "a", "b", Redacted}]
    BY <1>0 DEF Redact
  <2>2. rows \in [BackupSubs -> SubTyped]
    BY <1>0, RecordExported
  <2>3. pkg' = [format |-> "auto-rss", content |-> content] /\ UNCHANGED db
    BY <1>6 DEF Export
  <2> HIDE DEF settings, rows
  <2>4. content \in ContentTyped
    BY <1>0, <2>1, <2>2 DEF ContentTyped
  <2> HIDE DEF content
  <2> QED
    BY <1>q, <2>3, <2>4
<1>7. ASSUME NEW s \in BackupSubs, LoadOldPackage(s) PROVE BackupInv' /\ pkg'.format # "none"
  <2>1. PICK text \in NewTexts, enabled \in BOOLEAN, e \in EpisodeRows, c \in CandidateRows :
          pkg' = [format |-> "auto-rss",
                  content |-> [EmptyDb EXCEPT !.subs[s] =
                    [SubNamed(text, enabled) EXCEPT !.feeds = EnsureFeeds(SubNamed(text, enabled).feeds),
                                                  !.episode = e, !.candidate = c]]]
    BY <1>7 DEF LoadOldPackage
  <2> DEFINE new == SubNamed(text, enabled)
             feeds == EnsureFeeds(new.feeds)
             row == [new EXCEPT !.feeds = feeds, !.episode = e, !.candidate = c]
  <2>2. new \in SubTyped /\ new.feeds \in [BackupUrls -> Marks]
    <3>1. text \in Texts
      BY DEF NewTexts, Texts
    <3> QED
      BY <3>1, NewRow, SubFields
  <2>3. feeds \in [BackupUrls -> Marks] /\ e \in EpisodeTyped /\ c \in CandidateTyped
    <3>1. feeds \in [BackupUrls -> Marks]
      BY <2>2 DEF EnsureFeeds, Marks
    <3> QED
      BY <3>1, EpisodeRowTyped, CandidateRowTyped
  <2> HIDE DEF new, feeds
  <2>4. row \in SubTyped
    BY <2>2, <2>3 DEF SubTyped
  <2>5. pkg' = [format |-> "auto-rss", content |-> [EmptyDb EXCEPT !.subs[s] = row]] /\ UNCHANGED db
    BY <1>7, <2>1 DEF LoadOldPackage, new, feeds
  <2> HIDE DEF row
  <2> QED
    BY <1>e, <1>q, <2>4, <2>5
<1>8. ASSUME NEW s \in BackupSubs, LoadAutoBangumi(s) PROVE BackupInv' /\ pkg'.format # "none"
  <2>1. PICK e \in BOOLEAN :
          pkg' = [format |-> "auto-bangumi",
                  content |-> [EmptyDb EXCEPT !.subs[s] = SubNamed("b", e)]]
    BY <1>8 DEF LoadAutoBangumi
  <2> DEFINE row == SubNamed("b", e)
  <2>2. row \in SubTyped
    <3>1. "b" \in Texts
      BY DEF Texts
    <3> QED
      BY <3>1, NewRow
  <2>3. pkg' = [format |-> "auto-bangumi", content |-> [EmptyDb EXCEPT !.subs[s] = row]] /\ UNCHANGED db
    BY <1>8, <2>1 DEF LoadAutoBangumi
  <2> HIDE DEF row
  <2> QED
    BY <1>e, <1>q, <2>2, <2>3
<1> QED
  BY <1>1, <1>2, <1>3, <1>4, <1>5, <1>6, <1>7, <1>8 DEF SettingsNext, LibraryNext

LEMMA BackupStart == BackupInit => BackupInv
<1>1. NoPackage \in [format : {"none", "auto-rss", "auto-bangumi"}, content : ContentTyped]
  BY EmptyTyped DEF NoPackage
<1> QED
  BY <1>1, EmptyTyped DEF BackupInit, BackupInv

LEMMA ImportKeeps == ASSUME BackupInv, NEW how \in Strategies, Import(how) PROVE BackupInv' /\ pkg'.format = "none"
<1>1. NoPackage \in [format : {"none", "auto-rss", "auto-bangumi"}, content : ContentTyped] /\ NoPackage.format = "none"
  BY EmptyTyped DEF NoPackage
<1>2. pkg' = NoPackage
  BY DEF Import
<1> QED
  BY <1>1, <1>2, ImportDoes DEF BackupInv

LEMMA BackupStep == BackupInv /\ [BackupNext]_backupVars => BackupInv'
<1> SUFFICES ASSUME BackupInv, [BackupNext]_backupVars PROVE BackupInv'
  OBVIOUS
<1>1. CASE UNCHANGED backupVars
  BY <1>1 DEF BackupInv, backupVars
<1> QED
  BY <1>1, RestKeeps, ImportKeeps DEF BackupNext

(* An import by any how, of a package this program exported, one from *)
(* before feeds, or one of AutoBangumi, leaves no row behind that says a   *)
(* download or a replacement is under way, other than those it leaves      *)
(* alone, and every feed it adds waits for its baseline: for any number of *)
(* subscriptions and feeds, whatever the program did before.               *)
THEOREM NothingRunsAfterImport == BackupSpec => NothingRunsByImport
<1>1. BackupInv /\ [BackupNext]_backupVars =>
        [Imports => \A s \in BackupSubs :
           LET was == db.subs[s]
               new == db'.subs[s] IN
           /\ new.episode # was.episode => new.episode.status # "downloading" /\ ~new.episode.owned
           /\ new.candidate # was.candidate => new.candidate \in {"available", "failed"}
           /\ \A u \in BackupUrls : new.feeds[u] # was.feeds[u] => new.feeds[u] \in {"pending", Nothing}
        ]_backupVars
  <2> SUFFICES ASSUME BackupInv, BackupNext, Imports, NEW s \in BackupSubs
               PROVE  /\ db'.subs[s].episode # db.subs[s].episode =>
                           db'.subs[s].episode.status # "downloading" /\ ~db'.subs[s].episode.owned
                      /\ db'.subs[s].candidate # db.subs[s].candidate =>
                           db'.subs[s].candidate \in {"available", "failed"}
                      /\ \A u \in BackupUrls : db'.subs[s].feeds[u] # db.subs[s].feeds[u] =>
                           db'.subs[s].feeds[u] \in {"pending", Nothing}
    OBVIOUS
  <2>1. PICK how \in Strategies : Import(how)
    BY RestKeeps DEF BackupNext, Imports
  <2>2. RowImported(db.subs[s], db'.subs[s], pkg.content.subs[s], how)
    BY <2>1, ImportDoes
  <2> QED
    BY <2>2 DEF RowImported
<1> QED
  BY <1>1, BackupStart, BackupStep, PTL DEF BackupSpec, NothingRunsByImport

(* An import takes nothing away but the feeds of a subscription that it     *)
(* overwrites and that the package does not have (restoreSubscriptionFeeds  *)
(* deletes them all and creates those of the package); it puts no           *)
(* placeholder of a secret into the settings; and one that is not to        *)
(* overwrite leaves every value that was there, but for empty ones and the  *)
(* default colour of a group, which a merge replaces: for any number of     *)
(* subscriptions and feeds, and any package.                                *)
THEOREM ImportsKeepLocalRows == BackupSpec => LocalRowsStay
<1>1. BackupInv =>
        [\A how \in Strategies : Import(how) =>
             /\ \A c \in Configs : /\ RowKept(db.configs[c], db'.configs[c])
                                   /\ db'.configs[c] # Redacted
                                   /\ how # "overwrite" => Kept(db.configs[c], db'.configs[c])
             /\ RowKept(db.group, db'.group)
             /\ how # "overwrite" /\ ~(how = "merge" /\ db.group = DefaultColor) => Kept(db.group, db'.group)
             /\ \A s \in BackupSubs :
                  LET was == db.subs[s]
                      new == db'.subs[s]
                      record == pkg.content.subs[s] IN
                  was.there =>
                    /\ new.there
                    /\ RowKept(was.episode.status, new.episode.status) /\ RowKept(was.candidate, new.candidate)
                    /\ \A u \in BackupUrls :
                         (how = "overwrite" /\ record.there /\ record.feeds[u] = Nothing)
                           \/ RowKept(was.feeds[u], new.feeds[u])
                    /\ how # "overwrite" =>
                         /\ Kept(was.text, new.text) /\ new.enabled = was.enabled
                         /\ \A u \in BackupUrls : Kept(was.feeds[u], new.feeds[u])
                         /\ Kept(was.episode.status, new.episode.status)
                         /\ Kept(was.candidate, new.candidate)]_backupVars
  BY ImportDoes DEF RowImported
<1> QED
  BY <1>1, BackupStart, BackupStep, PTL DEF BackupSpec, LocalRowsStay

-----------------------------------------------------------------------------
(* Files of a subscription: what the rename task saves is where the file   *)
(* is.  It needs that no completion touches a torrent whose path was saved *)
(* before.                                                                 *)
HIDE BackupAssumption
USE RenamingAssumption

(* Two completions of one download do not overlap.                         *)
Apart == \A j, k \in Jobs : j # k /\ jobs[j] # NoJob /\ jobs[k] # NoJob => jobs[j].torrent # jobs[k].torrent

Whole(f) == f = [t \in Torrents |-> f[t]]
Placed(p) == p = [location |-> p.location, folder |-> p.folder, name |-> p.name]

RenameTyped ==
  /\ Whole(torrents) /\ \A t \in Torrents : Placed(torrents[t])
  /\ Whole(paths)
  /\ jobs = [j \in Jobs |-> jobs[j]]

(* A completion works on a torrent without a path.                         *)
JobInv(j) ==
  jobs[j] # NoJob => /\ jobs[j].torrent \in Torrents /\ ~Completed(jobs[j].torrent)
                     /\ jobs[j].pc = "commit" => jobs[j].path # NoPath

(* The task works on torrents with one, and knows where they are.          *)
OrganizerInv ==
  organizer # NoJob =>
    /\ organizer.todo \subseteq Torrents /\ \A t \in organizer.todo : Completed(t)
    /\ organizer.pc \in {"rename", "save"} =>
         /\ organizer.torrent \in Torrents /\ Completed(organizer.torrent)
         /\ torrents[organizer.torrent].location = LibraryDir(organizer.title)
    /\ organizer.pc = "rename" => organizer.file = FileOf(organizer.torrent)
    /\ organizer.pc = "save" /\ organizer.torrent \notin Foldered =>
         torrents[organizer.torrent] = OrganizedPath(organizer.torrent)

RenameInv ==
  /\ RenameTyped
  /\ \A t \in Torrents \ Foldered : torrents[t].folder = FALSE
  /\ \A j \in Jobs : JobInv(j)
  /\ OrganizerInv

LEMMA NamedPlace == \A name, location, folder : [location |-> location, folder |-> folder, name |-> FileName(name)] # NoPath
BY DEF FileName, NoPath

(* What a move or a rename leaves of the torrents.                         *)
OnlyOf(t, after) ==
  /\ Whole(after) /\ Placed(after[t])
  /\ \A u \in Torrents : u # t => after[u] = torrents[u]

LEMMA MovedTorrents ==
  ASSUME RenameTyped, NEW t \in Torrents, NEW target
  PROVE  /\ OnlyOf(t, Moved(t, target))
         /\ Moved(t, target)[t].location = target /\ Moved(t, target)[t].folder = torrents[t].folder
         /\ Moved(t, target)[t].name = torrents[t].name
<1> DEFINE place == [location |-> target, folder |-> torrents[t].folder, name |-> torrents[t].name]
           after == [u \in Torrents |-> IF u = t THEN place ELSE torrents[u]]
<1>1. Moved(t, target) = after
  <2>1. torrents[t] = [location |-> torrents[t].location, folder |-> torrents[t].folder, name |-> torrents[t].name]
    BY DEF RenameTyped, Placed
  <2>2. [torrents[t] EXCEPT !.location = target] = place
    BY <2>1
  <2>3. torrents = [u \in Torrents |-> torrents[u]]
    BY DEF RenameTyped, Whole
  <2> HIDE DEF place
  <2> QED
    BY <2>2, <2>3 DEF Moved
<1>2. Placed(place)
  BY DEF Placed
<1>3. place.location = target /\ place.folder = torrents[t].folder /\ place.name = torrents[t].name
  OBVIOUS
<1> HIDE DEF place
<1>4. after[t] = place /\ \A u \in Torrents : u # t => after[u] = torrents[u]
  OBVIOUS
<1>5. Whole(after)
  BY DEF Whole
<1> HIDE DEF after
<1> QED
  BY <1>1, <1>2, <1>3, <1>4, <1>5 DEF OnlyOf

LEMMA RenamedTorrents ==
  ASSUME RenameTyped, NEW t \in Torrents, NEW was, NEW new
  PROVE  /\ OnlyOf(t, Renamed(t, was, new))
         /\ Renamed(t, was, new) # torrents =>
              /\ Renamed(t, was, new)[t] = [location |-> torrents[t].location, folder |-> new.folder, name |-> new.name]
              /\ Renamed(t, was, new)[t].folder = new.folder
<1> DEFINE place == NewPlace(t, new)
           after == [u \in Torrents |-> IF u = t THEN place ELSE torrents[u]]
<1>1. torrents = [u \in Torrents |-> torrents[u]] /\ Placed(torrents[t])
  BY DEF RenameTyped, Whole
<1>2. Placed(place) /\ place.folder = new.folder
      /\ place = [location |-> torrents[t].location, folder |-> new.folder, name |-> new.name]
  BY DEF Placed, NewPlace
<1>3. Renamed(t, was, new) \in {torrents, [torrents EXCEPT ![t] = place]}
  BY DEF Renamed
<1> HIDE DEF place
<1>4. [torrents EXCEPT ![t] = place] = after
  BY <1>1
<1>5. after[t] = place /\ \A u \in Torrents : u # t => after[u] = torrents[u]
  OBVIOUS
<1>6. Whole(after) /\ Whole(torrents)
  BY <1>1 DEF Whole
<1> HIDE DEF after
<1>7. OnlyOf(t, after) /\ OnlyOf(t, torrents)
  BY <1>1, <1>2, <1>5, <1>6 DEF OnlyOf
<1> QED
  BY <1>2, <1>3, <1>4, <1>5, <1>7

LEMMA RenameStart == RenamingInit => RenameInv
<1> SUFFICES ASSUME RenamingInit PROVE RenameInv
  OBVIOUS
<1>1. RenameTyped
  BY DEF RenamingInit, RenameTyped, Whole, Placed
<1>2. ASSUME NEW t \in Torrents \ Foldered PROVE torrents[t].folder = FALSE
  <2>1. torrents[t].folder = (t \in Foldered)
    BY DEF RenamingInit
  <2>2. t \notin Foldered
    OBVIOUS
  <2>3. (t \in Foldered) = FALSE
    <3> DEFINE inside == t \in Foldered
    <3>1. ~inside
      BY <2>2
    <3>2. inside \in BOOLEAN
      OBVIOUS
    <3> HIDE DEF inside
    <3>3. inside = FALSE
      BY <3>1, <3>2
    <3> QED
      BY <3>3 DEF inside
  <2> QED
    BY <2>1, <2>3
<1> QED
  BY <1>1, <1>2 DEF RenamingInit, RenameInv, JobInv, OrganizerInv

(* A completion: the torrent it works on is none of the task's.            *)
JobOp(j, s, state) ==
  /\ UNCHANGED organizer /\ jobs' = [jobs EXCEPT ![j] = state]
  /\ ~Completed(s) /\ \A k \in Jobs : k # j /\ jobs[k] # NoJob => jobs[k].torrent # s
  /\ state # NoJob => state.torrent = s /\ (state.pc = "commit" => state.path # NoPath)
  /\ OnlyOf(s, torrents') /\ (s \notin Foldered => torrents'[s].folder = FALSE)
  /\ Whole(paths') /\ \A t \in Torrents : t # s => paths'[t] = paths[t]
  /\ paths'[s] = paths[s] \/ state = NoJob

LEMMA JobStep ==
  ASSUME RenameInv, NEW j \in Jobs, NEW s \in Torrents, NEW state, JobOp(j, s, state)
  PROVE  RenameInv'
<1> USE DEF JobOp
<1>1. RenameTyped'
  <2>1. Whole(torrents') /\ Whole(paths') /\ \A t \in Torrents : Placed(torrents'[t])
    BY DEF RenameInv, RenameTyped, OnlyOf
  <2>2. jobs' = [k \in Jobs |-> jobs'[k]]
    BY DEF RenameInv, RenameTyped
  <2> QED
    BY <2>1, <2>2 DEF RenameTyped
<1>2. (\A t \in Torrents \ Foldered : torrents[t].folder = FALSE)'
  BY DEF RenameInv, OnlyOf
<1>3. ASSUME NEW k \in Jobs PROVE JobInv(k)'
  <2>1. CASE k = j
    BY <2>1 DEF RenameInv, RenameTyped, JobInv, Completed
  <2>2. CASE k # j
    <3>1. jobs'[k] = jobs[k]
      BY <2>2 DEF RenameInv, RenameTyped
    <3>2. CASE jobs[k] # NoJob
      BY <2>2, <3>1, <3>2 DEF RenameInv, JobInv, Completed
    <3> QED
      BY <3>1, <3>2 DEF JobInv
  <2> QED
    BY <2>1, <2>2
<1>4. OrganizerInv'
  <2> SUFFICES ASSUME organizer # NoJob PROVE OrganizerInv'
    BY DEF OrganizerInv
  <2>1. \A t \in organizer.todo : t # s /\ paths'[t] = paths[t]
    BY DEF RenameInv, OrganizerInv
  <2>2. organizer.pc \in {"rename", "save"} =>
          /\ organizer.torrent \in Torrents /\ organizer.torrent # s
          /\ paths'[organizer.torrent] = paths[organizer.torrent]
          /\ torrents'[organizer.torrent] = torrents[organizer.torrent]
    BY DEF RenameInv, OrganizerInv, OnlyOf
  <2> QED
    BY <2>1, <2>2 DEF RenameInv, OrganizerInv, Completed, FileOf, OrganizedPath
<1> QED
  BY <1>1, <1>2, <1>3, <1>4 DEF RenameInv

LEMMA CompletionSteps ==
  ASSUME RenameInv, Apart, NEW j \in Jobs,
         (\E t \in Torrents : StartCompletion(j, t)) \/ MoveTorrent(j) \/ RenameVideo(j) \/ CommitPath(j) \/ CompletionEnds(j)
  PROVE  RenameInv' \/ ~Apart'
<1> DEFINE s == jobs[j].torrent
<1>0. /\ RenameTyped /\ JobInv(j)
      /\ jobs[j] # NoJob => /\ s \in Torrents /\ ~Completed(s)
                            /\ \A k \in Jobs : k # j /\ jobs[k] # NoJob => jobs[k].torrent # s
      /\ Whole(paths) /\ \A t \in Torrents : OnlyOf(t, torrents)
      /\ \A t \in Torrents \ Foldered : torrents[t].folder = FALSE
  BY DEF RenameInv, JobInv, RenameTyped, Apart, OnlyOf
<1>1. ASSUME NEW t \in Torrents, StartCompletion(j, t) PROVE RenameInv' \/ ~Apart'
  <2> SUFFICES ASSUME Apart' PROVE RenameInv'
    OBVIOUS
  <2> DEFINE target == CompletionTarget(torrents[t].location, title)
             state == [pc |-> "move", torrent |-> t, title |-> title, target |-> target,
                       stays |-> torrents[t].location = target]
  <2>1. jobs' = [jobs EXCEPT ![j] = state] /\ UNCHANGED <<organizer, torrents, paths>> /\ ~Completed(t)
    BY <1>1 DEF StartCompletion, JobGoes
  <2>2. state # NoJob /\ state.torrent = t /\ state.pc = "move"
    BY DEF NoJob
  <2> HIDE DEF target, state
  <2>3. ASSUME NEW k \in Jobs, k # j, jobs[k] # NoJob PROVE jobs[k].torrent # t
    <3>1. jobs'[k] = jobs[k] /\ jobs'[j] = state
      BY <1>0, <2>1, <2>3 DEF RenameTyped
    <3> QED
      BY <2>2, <2>3, <3>1 DEF Apart
  <2> HIDE DEF s
  <2>4. JobOp(j, t, state)
    BY <1>0, <2>1, <2>2, <2>3 DEF JobOp
  <2> QED
    BY <2>4, JobStep
<1>2. CASE MoveTorrent(j)
  <2> DEFINE state == [pc |-> "rename", torrent |-> s, title |-> jobs[j].title,
                       target |-> jobs[j].target, file |-> FileOf(s)]
  <2>1. jobs' = [jobs EXCEPT ![j] = state] /\ UNCHANGED <<organizer, paths>>
    BY <1>2 DEF MoveTorrent, JobGoes
  <2>2. state # NoJob /\ state.torrent = s /\ state.pc = "rename" /\ jobs[j] # NoJob
    BY <1>2 DEF NoJob, MoveTorrent
  <2>3. torrents' = torrents \/ torrents' = Moved(s, jobs[j].target)
    BY <1>2 DEF MoveTorrent
  <2> HIDE DEF s, state
  <2>4. OnlyOf(s, torrents') /\ torrents'[s].folder = torrents[s].folder
    BY <1>0, <2>2, <2>3, MovedTorrents
  <2>5. JobOp(j, s, state)
    BY <1>0, <2>1, <2>2, <2>4 DEF JobOp
  <2> QED
    BY <1>0, <2>2, <2>5, JobStep
<1>3. CASE RenameVideo(j)
  <2> DEFINE new == [folder |-> FALSE, name |-> FileName(jobs[j].title)]
             path == [location |-> jobs[j].target, folder |-> FALSE, name |-> new.name]
             state == [pc |-> "commit", torrent |-> s, path |-> path]
  <2>1. jobs' = [jobs EXCEPT ![j] = state] /\ UNCHANGED <<organizer, paths>>
    BY <1>3 DEF RenameVideo, JobGoes
  <2>2. state # NoJob /\ state.torrent = s /\ state.pc = "commit" /\ state.path = path /\ jobs[j] # NoJob
    BY <1>3 DEF NoJob, RenameVideo
  <2>3. torrents' = Renamed(s, jobs[j].file, new)
    BY <1>3 DEF RenameVideo
  <2>5. path # NoPath
    BY NamedPlace
  <2>6. new.folder = FALSE
    OBVIOUS
  <2> HIDE DEF s, state, path, new
  <2>4. OnlyOf(s, torrents') /\ (s \notin Foldered => torrents'[s].folder = FALSE)
    <3>1. s \in Torrents /\ RenameTyped /\ OnlyOf(s, torrents)
      BY <1>0, <2>2
    <3> DEFINE was == jobs[j].file
               after == Renamed(s, was, new)
    <3> HIDE DEF was
    <3>2. /\ OnlyOf(s, after)
          /\ after # torrents =>
               /\ after[s] = [location |-> torrents[s].location, folder |-> new.folder, name |-> new.name]
               /\ after[s].folder = new.folder
      BY <3>1, RenamedTorrents
    <3>3. torrents' = after
      BY <2>3 DEF was
    <3> HIDE DEF after
    <3> QED
      BY <1>0, <2>6, <3>1, <3>2, <3>3
  <2>7. JobOp(j, s, state)
    BY <1>0, <2>1, <2>2, <2>4, <2>5 DEF JobOp
  <2> QED
    BY <1>0, <2>2, <2>7, JobStep
<1>4. CASE CommitPath(j)
  <2>1. /\ jobs' = [jobs EXCEPT ![j] = NoJob] /\ UNCHANGED <<organizer, torrents>> /\ jobs[j] # NoJob
        /\ paths' = [paths EXCEPT ![s] = jobs[j].path]
    BY <1>4 DEF CommitPath, JobGoes, NoJob
  <2> HIDE DEF s
  <2>2. Whole(paths') /\ \A t \in Torrents : t # s => paths'[t] = paths[t]
    BY <1>0, <2>1 DEF Whole
  <2>3. JobOp(j, s, NoJob)
    BY <1>0, <2>1, <2>2 DEF JobOp
  <2> QED
    BY <1>0, <2>1, <2>3, JobStep
<1>5. CASE CompletionEnds(j)
  <2>1. jobs' = [jobs EXCEPT ![j] = NoJob] /\ UNCHANGED <<organizer, torrents, paths>> /\ jobs[j] # NoJob
    BY <1>5 DEF CompletionEnds, JobGoes, NoJob
  <2> HIDE DEF s
  <2>2. JobOp(j, s, NoJob)
    BY <1>0, <2>1 DEF JobOp
  <2> QED
    BY <1>0, <2>1, <2>2, JobStep
<1> QED
  BY <1>1, <1>2, <1>3, <1>4, <1>5

(* The task, and a new title.                                              *)
LEMMA TaskStep ==
  ASSUME RenameInv, UNCHANGED jobs, OrganizerInv', NEW t \in Torrents, OnlyOf(t, torrents'),
         t \notin Foldered => torrents'[t].folder = FALSE,
         Whole(paths'), \A u \in Torrents : paths'[u] = paths[u] \/ Completed(u)
  PROVE  RenameInv'
<1>1. RenameTyped'
  BY DEF RenameInv, RenameTyped, OnlyOf
<1>2. (\A u \in Torrents \ Foldered : torrents[u].folder = FALSE)'
  BY DEF RenameInv, OnlyOf
<1>3. ASSUME NEW j \in Jobs PROVE JobInv(j)'
  BY DEF RenameInv, JobInv, Completed
<1> QED
  BY <1>1, <1>2, <1>3 DEF RenameInv

LEMMA TaskSteps ==
  ASSUME RenameInv,
         \/ \E kind \in {"rename", "reorganize"} : StartOrganizer(kind)
         \/ \E t \in Torrents : OrganizeMove(t)
         \/ OrganizeRename \/ OrganizeSave \/ OrganizerEnds
         \/ \E name \in Titles : ChangeTitle(name)
  PROVE  RenameInv'
<1> DEFINE s == organizer.torrent
<1>0. /\ RenameTyped /\ OrganizerInv /\ Whole(paths) /\ \A t \in Torrents : OnlyOf(t, torrents)
      /\ \A t \in Torrents \ Foldered : torrents[t].folder = FALSE
      /\ NoJob.pc = "idle"
      /\ organizer # NoJob => organizer.todo \subseteq Torrents /\ \A t \in organizer.todo : Completed(t)
  BY DEF RenameInv, RenameTyped, OnlyOf, NoJob, OrganizerInv
<1>1. ASSUME UNCHANGED <<torrents, paths, jobs, organizer>> PROVE RenameInv'
  BY <1>1 DEF RenameInv, RenameTyped, JobInv, OrganizerInv, Completed, FileOf, OrganizedPath
<1>2. ASSUME UNCHANGED <<torrents, paths, jobs>>, OrganizerInv' PROVE RenameInv'
  BY <1>2 DEF RenameInv, RenameTyped, JobInv, Completed
<1>3. ASSUME NEW kind, StartOrganizer(kind) PROVE RenameInv'
  <2>1. organizer' = [pc |-> "next", kind |-> kind, title |-> title, todo |-> {t \in Torrents : Completed(t)}]
    BY <1>3 DEF StartOrganizer, OrganizerGoes
  <2>2. organizer'.pc = "next" /\ organizer'.todo = {t \in Torrents : Completed(t)} /\ UNCHANGED <<torrents, paths, jobs>>
    BY <1>3, <2>1 DEF StartOrganizer, OrganizerGoes
  <2>3. OrganizerInv'
    BY <2>2 DEF OrganizerInv, Completed
  <2> QED
    BY <1>2, <2>2, <2>3
<1>4. ASSUME NEW t \in Torrents, OrganizeMove(t) PROVE RenameInv'
  <2> DEFINE target == LibraryDir(organizer.title)
             naming == [pc |-> "rename", kind |-> organizer.kind, title |-> organizer.title,
                        todo |-> organizer.todo \ {t}, torrent |-> t, file |-> FileOf(t)]
             left == [pc |-> "next", kind |-> organizer.kind, title |-> organizer.title, todo |-> organizer.todo \ {t}]
  <2>1. organizer # NoJob /\ t \in organizer.todo /\ UNCHANGED <<paths, jobs>>
    BY <1>0, <1>4 DEF OrganizeMove, OrganizerGoes
  <2>2. \/ torrents' = Moved(t, target) /\ organizer' = naming
        \/ organizer' = left /\ UNCHANGED torrents
    BY <1>4 DEF OrganizeMove, OrganizerGoes, Naming, LeftOut, AfterFailedMove, NextDownload
  <2>3. CASE torrents' = Moved(t, target) /\ organizer' = naming
    <3>1. /\ OnlyOf(t, torrents') /\ torrents'[t].location = target /\ torrents'[t].folder = torrents[t].folder
          /\ torrents'[t].name = torrents[t].name
      BY <1>0, <2>3, MovedTorrents
    <3>2. /\ organizer'.pc = "rename" /\ organizer'.todo = organizer.todo \ {t} /\ organizer'.torrent = t
          /\ organizer'.title = organizer.title /\ organizer'.file = FileOf(t)
      BY <2>3
    <3>3. FileOf(t)' = FileOf(t)
      BY <3>1 DEF FileOf
    <3>4. OrganizerInv'
      <4>1. organizer'.file = FileOf(organizer.torrent)'
        BY <3>2, <3>3 DEF FileOf
      <4> HIDE DEF naming
      <4> QED
        BY <1>0, <2>1, <3>1, <3>2, <4>1 DEF OrganizerInv, Completed
    <3> QED
      BY <1>0, <2>1, <3>1, <3>4, TaskStep
  <2>4. CASE organizer' = left /\ UNCHANGED torrents
    <3>1. organizer'.pc = "next" /\ organizer'.todo = organizer.todo \ {t}
      BY <2>4
    <3>2. OrganizerInv'
      BY <1>0, <2>1, <3>1 DEF OrganizerInv, Completed
    <3> QED
      BY <1>2, <2>1, <2>4, <3>2
  <2> QED
    BY <2>2, <2>3, <2>4
<1>5. CASE OrganizeRename
  <2> DEFINE was == organizer.file
             new == [was EXCEPT !.name = FileName(organizer.title)]
             after == Renamed(s, was, new)
             next == [pc |-> "next", kind |-> organizer.kind, title |-> organizer.title, todo |-> organizer.todo]
             named == [pc |-> "save", kind |-> organizer.kind, title |-> organizer.title,
                       todo |-> organizer.todo, torrent |-> s]
  <2>1. organizer # NoJob /\ organizer.pc = "rename" /\ UNCHANGED <<paths, jobs>>
    BY <1>0, <1>5 DEF OrganizeRename, OrganizerGoes
  <2>2. \/ organizer' = next /\ torrents' \in {torrents, after}
        \/ organizer' = named /\ torrents' = after /\ (after # torrents \/ was = new)
    BY <1>5 DEF OrganizeRename, OrganizerGoes, NextDownload, Conflicts
  <2>3. /\ s \in Torrents /\ Completed(s) /\ torrents[s].location = LibraryDir(organizer.title)
        /\ was = [folder |-> torrents[s].folder, name |-> torrents[s].name]
    BY <1>0, <2>1 DEF OrganizerInv, FileOf
  <2>4. new = [folder |-> torrents[s].folder, name |-> FileName(organizer.title)]
    BY <2>3
  <2>5. new.folder = torrents[s].folder /\ new.name = FileName(organizer.title)
        /\ (was = new => torrents[s].name = FileName(organizer.title))
    BY <2>3, <2>4
  <2> HIDE DEF s, was, new
  <2>6. /\ OnlyOf(s, after)
        /\ after # torrents =>
             /\ after[s] = [location |-> torrents[s].location, folder |-> new.folder, name |-> new.name]
             /\ after[s].folder = new.folder
    BY <1>0, <2>3, RenamedTorrents
  <2> HIDE DEF after
  <2>7. OnlyOf(s, torrents') /\ (s \notin Foldered => torrents'[s].folder = FALSE)
    BY <1>0, <2>2, <2>3, <2>5, <2>6
  <2>8. OrganizerInv'
    <3>1. CASE organizer' = next
      <4>1. organizer'.pc = "next" /\ organizer'.todo = organizer.todo
        BY <3>1
      <4> QED
        BY <1>0, <2>1, <4>1 DEF OrganizerInv, Completed
    <3>2. CASE organizer' = named /\ torrents' = after /\ (after # torrents \/ was = new)
      <4>1. /\ organizer'.pc = "save" /\ organizer'.todo = organizer.todo /\ organizer'.torrent = s
            /\ organizer'.title = organizer.title
        BY <3>2
      <4>2. torrents'[s] = [location |-> LibraryDir(organizer.title), folder |-> torrents[s].folder,
                            name |-> FileName(organizer.title)]
        <5>1. torrents[s] = [location |-> torrents[s].location, folder |-> torrents[s].folder, name |-> torrents[s].name]
          BY <1>0, <2>3 DEF OnlyOf, Placed
        <5>2. CASE after # torrents
          BY <2>3, <2>5, <2>6, <3>2, <5>2
        <5>3. CASE after = torrents
          BY <2>3, <2>5, <3>2, <5>1, <5>3
        <5> QED
          BY <5>2, <5>3
      <4>3. torrents'[s].location = LibraryDir(organizer.title)
        BY <4>2
      <4>4. s \notin Foldered => torrents'[s] = OrganizedPath(s)'
        BY <1>0, <2>3, <4>1, <4>2 DEF OrganizedPath
      <4>5. organizer'.torrent \notin Foldered => torrents'[organizer'.torrent] = OrganizedPath(organizer.torrent)'
        BY <4>1, <4>4 DEF OrganizedPath
      <4> QED
        BY <1>0, <2>1, <2>3, <4>1, <4>3, <4>5 DEF OrganizerInv, Completed
    <3> QED
      BY <2>2, <3>1, <3>2
  <2> QED
    BY <1>0, <2>1, <2>3, <2>7, <2>8, TaskStep
<1>6. CASE OrganizeSave
  <2>1. /\ organizer # NoJob /\ organizer.pc = "save" /\ UNCHANGED <<torrents, jobs>>
        /\ organizer' = [pc |-> "next", kind |-> organizer.kind, title |-> organizer.title, todo |-> organizer.todo]
        /\ \/ paths' = paths
           \/ paths' = [paths EXCEPT ![s] = OrganizedPath(s)]
    BY <1>0, <1>6 DEF OrganizeSave, OrganizerGoes, NextDownload
  <2>2. organizer'.pc = "next" /\ organizer'.todo = organizer.todo
    BY <2>1
  <2>3. s \in Torrents /\ Completed(s)
    BY <1>0, <2>1 DEF OrganizerInv
  <2>4. OrganizedPath(s) # NoPath
    BY NamedPlace DEF OrganizedPath
  <2> DEFINE place == OrganizedPath(s)
  <2> HIDE DEF s, place
  <2>5. Whole(paths') /\ \A t \in Torrents : paths'[t] = paths[t] \/ (t = s /\ paths'[t] = place)
    BY <1>0, <2>1 DEF Whole, place
  <2>6. OrganizerInv'
    BY <1>0, <2>1, <2>2, <2>4, <2>5 DEF OrganizerInv, Completed, place
  <2>7. s \notin Foldered => torrents'[s].folder = FALSE
    BY <1>0, <2>1, <2>3
  <2> QED
    BY <1>0, <2>1, <2>3, <2>5, <2>6, <2>7, TaskStep
<1>7. CASE OrganizerEnds
  <2>1. UNCHANGED <<torrents, paths, jobs>> /\ organizer' = NoJob
    BY <1>7 DEF OrganizerEnds, OrganizerGoes
  <2>2. OrganizerInv'
    BY <2>1 DEF OrganizerInv
  <2> QED
    BY <1>2, <2>1, <2>2
<1>8. ASSUME NEW name, ChangeTitle(name) PROVE RenameInv'
  BY <1>1, <1>8 DEF ChangeTitle
<1> QED
  BY <1>3, <1>4, <1>5, <1>6, <1>7, <1>8

(* As long as two completions of one download do not overlap, the path the *)
(* rename task saves is where the video lies, for any number of torrents   *)
(* and tasks, whatever completions, failing moves and renames or new       *)
(* titles come in between; a video in a folder excepted.                   *)
THEOREM TaskSavesTruePath == RenamingSpec /\ []Apart => RenameSavesTruePath
<1>1. RenameInv /\ Apart /\ Apart' /\ [RenamingNext]_renamingVars => RenameInv'
  <2> SUFFICES ASSUME RenameInv, Apart, Apart', [RenamingNext]_renamingVars PROVE RenameInv'
    OBVIOUS
  <2>1. CASE UNCHANGED renamingVars
    BY <2>1 DEF RenameInv, RenameTyped, JobInv, OrganizerInv, Completed, FileOf, OrganizedPath, renamingVars
  <2> QED
    BY <2>1, CompletionSteps, TaskSteps DEF RenamingNext
<1>2. RenameInv /\ Apart /\ [RenamingNext]_renamingVars =>
        [\A t \in Torrents \ Foldered :
           organizer.pc = "save" /\ organizer.torrent = t /\ paths'[t] # paths[t] =>
               paths'[t] = torrents'[t]]_renamingVars
  <2> SUFFICES ASSUME RenameInv, Apart, RenamingNext, NEW t \in Torrents \ Foldered,
                      organizer.pc = "save", organizer.torrent = t, paths'[t] # paths[t]
               PROVE  paths'[t] = torrents'[t]
    OBVIOUS
  <2>1. organizer # NoJob /\ Completed(t) /\ torrents[t] = OrganizedPath(t)
    BY DEF RenameInv, OrganizerInv, NoJob
  <2>2. ASSUME NEW j \in Jobs, CommitPath(j) PROVE FALSE
    <3>1. jobs[j] # NoJob /\ paths' = [paths EXCEPT ![jobs[j].torrent] = jobs[j].path]
      BY <2>2 DEF CommitPath, NoJob
    <3>2. jobs[j].torrent # t
      BY <2>1, <2>2, <3>1 DEF RenameInv, JobInv
    <3> QED
      BY <3>1, <3>2 DEF RenameInv, RenameTyped, Whole
  <2>3. OrganizeSave
    BY <2>2 DEF RenamingNext, StartCompletion, MoveTorrent, RenameVideo, CompletionEnds, StartOrganizer, OrganizeMove,
                OrganizeRename, OrganizerEnds, ChangeTitle
  <2>4. paths' = [paths EXCEPT ![t] = OrganizedPath(t)] /\ torrents' = torrents
    BY <2>3 DEF OrganizeSave
  <2> QED
    BY <2>1, <2>4 DEF RenameInv, RenameTyped, Whole
<1> QED
  BY <1>1, <1>2, RenameStart, PTL DEF RenamingSpec, RenameSavesTruePath
=============================================================================
