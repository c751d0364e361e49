----------------------------- MODULE TaskManager -----------------------------
(***************************************************************************)
(* The background tasks of the program: one at a time, each runs as a      *)
(* goroutine, can be cancelled and ends in a bounded history               *)
(* (service/task/manager.go).  Tasks are numbered as they start.           *)
(***************************************************************************)
EXTENDS Naturals, Sequences, FiniteSets

CONSTANTS MaxTasks,     \* bound on the tasks that are started
          MaxHistory    \* length of the history

ASSUME TaskAssumption == MaxTasks \in Nat /\ MaxHistory \in Nat \ {0}

VARIABLES task,         \* the last task started, the current one, and who was cancelled
          working,      \* the tasks whose function has not returned
          returned,     \* the tasks whose end is still to be recorded, with their outcome
          history       \* the recorded ends, the newest first

taskVars == <<task, working, returned, history>>

Outcomes == {"done", "error"}
Ends == {"completed", "failed", "cancelled"}
TaskIds == 1 .. MaxTasks

TasksInit ==
  /\ task = [last |-> 0, current |-> 0, cancelled |-> {}]
  /\ working = {}
  /\ returned = {}
  /\ history = <<>>

(* StartPreparedTask; a refused preparation changes nothing here.          *)
StartTask ==
  LET n == task.last + 1 IN
  /\ task.current = 0
  /\ n <= MaxTasks
  /\ task' = [task EXCEPT !.last = n, !.current = n]
  /\ working' = working \cup {n}
  /\ UNCHANGED <<returned, history>>

(* The function of a task returns, whether or not it heeds a cancel.       *)
TaskReturns(n, outcome) ==
  /\ n \in working
  /\ working' = working \ {n}
  /\ returned' = returned \cup {[id |-> n, outcome |-> outcome]}
  /\ UNCHANGED <<task, history>>

(* Mutated: what the function returned counts for more than the cancel.    *)
EndByOutcome(t) ==
  IF t.outcome = "error" THEN "failed"
  ELSE IF t.id \in task.cancelled THEN "cancelled" ELSE "completed"

EndOf(t) ==
  IF t.id \in task.cancelled THEN "cancelled"
  ELSE IF t.outcome = "error" THEN "failed" ELSE "completed"

Recorded(t) ==
  LET all == <<[id |-> t.id, end |-> EndOf(t)]>> \o history IN
  SubSeq(all, 1, IF Len(all) > MaxHistory THEN MaxHistory ELSE Len(all))

RecordEnd(t) ==
  /\ t \in returned
  /\ returned' = returned \ {t}
  /\ history' = Recorded(t)
  /\ task' = [task EXCEPT !.current = 0]
  /\ UNCHANGED working

(* Mutated: the cancelled task is no longer the current one.               *)
CancelAndForget ==
  /\ task.current # 0
  /\ task' = [task EXCEPT !.cancelled = @ \cup {task.current}, !.current = 0]
  /\ UNCHANGED <<working, returned, history>>

(* A cancel has no task in its request: it meets the current one.          *)
CancelCurrent ==
  /\ task.current # 0
  /\ task' = [task EXCEPT !.cancelled = @ \cup {task.current}]
  /\ UNCHANGED <<working, returned, history>>

ProcessRestarts ==
  /\ task' = [task EXCEPT !.current = 0]
  /\ working' = {}
  /\ returned' = {}
  /\ history' = <<>>

TasksNext ==
  \/ StartTask \/ CancelCurrent \/ ProcessRestarts
  \/ \E n \in TaskIds, o \in Outcomes : TaskReturns(n, o)
  \/ \E t \in returned : RecordEnd(t)

TasksSpec == TasksInit /\ [][TasksNext]_taskVars

(* Never do two tasks work at the same time, not even while a cancelled    *)
(* one is still on its way out.                                            *)
OneTaskWorks == Cardinality(working) + Cardinality(returned) <= 1

(* A task is recorded as cancelled if and only if a cancel was accepted    *)
(* for it, also when its function returned before it noticed, and it is    *)
(* recorded once.                                                          *)
CancelIsTold ==
  \A i \in 1 .. Len(history) :
    /\ (history[i].end = "cancelled") <=> (history[i].id \in task.cancelled)
    /\ \A j \in 1 .. Len(history) : history[i].id = history[j].id => i = j
=============================================================================
