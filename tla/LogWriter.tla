------------------------------ MODULE LogWriter ------------------------------
(***************************************************************************)
(* The table of log rows and its cleanup: rows that are too old go first,  *)
(* then the oldest beyond a limit, in batches, while rows are being added  *)
(* (pkg/logger/db_writer.go).                                              *)
(***************************************************************************)
EXTENDS Naturals

CONSTANTS LogLimit,      \* maxLogCount
          LogBatch,      \* cleanupBatch
          MaxLogs        \* bound on the rows

ASSUME LogAssumption ==
  /\ LogLimit \in Nat /\ LogBatch \in Nat \ {0} /\ MaxLogs \in Nat
  /\ LogLimit <= MaxLogs

VARIABLES logs,          \* how many rows are too old, and how many are not
          cleaner        \* the cleanup: is one due, its phase, the rows still to go, and whether the
                 \* user has cleared logs since it began

logVars == <<logs, cleaner>>

LogsInit ==
  /\ logs = [old |-> 0, young |-> 0]
  /\ cleaner = [due |-> TRUE, pc |-> "idle", excess |-> 0, cleared |-> FALSE]

Total == logs.old + logs.young
Smaller(a, b) == IF a <= b THEN a ELSE b

WriteLog ==
  /\ Total < MaxLogs
  /\ logs' = [logs EXCEPT !.young = @ + 1]
  /\ UNCHANGED cleaner

(* Time passes.                                                            *)
LogAges ==
  /\ logs.young > 0
  /\ logs' = [logs EXCEPT !.young = @ - 1, !.old = @ + 1]
  /\ UNCHANGED cleaner

(* An hour goes by, which is longer than a cleanup takes.                  *)
CleanupDue ==
  /\ cleaner.pc = "idle" /\ ~cleaner.due
  /\ cleaner' = [cleaner EXCEPT !.due = TRUE]
  /\ UNCHANGED logs

(* reserveCleanup, by the goroutine of a row that was just added.          *)
ReserveCleanup ==
  /\ cleaner.due /\ Total > 0
  /\ cleaner' = [due |-> FALSE, pc |-> "expired", excess |-> 0, cleared |-> FALSE]
  /\ UNCHANGED logs

(* The oldest n rows go.                                                   *)
Drop(n) ==
  logs' = IF n <= logs.old THEN [logs EXCEPT !.old = @ - n]
          ELSE [old |-> 0, young |-> logs.young - (n - logs.old)]

DropExpired ==
  /\ cleaner.pc = "expired" /\ logs.old > 0
  /\ Drop(Smaller(logs.old, LogBatch))
  /\ UNCHANGED cleaner

(* No expired row is left, or they could not be read.                      *)
CountExcess ==
  /\ cleaner.pc = "expired"
  /\ cleaner' = [cleaner EXCEPT !.pc = "excess",
                   !.excess = IF Total > LogLimit THEN Total - LogLimit ELSE 0]
  /\ UNCHANGED logs

(* The user clears the rows older than some days.  An excess that was      *)
(* counted before is not counted again.                                    *)
ClearLogs(n) ==
  /\ n \in 1 .. Total
  /\ Drop(n)
  /\ cleaner' = [cleaner EXCEPT !.cleared = TRUE]

(* Mutated: batches are always full.                                       *)
FullBatch(excess) == LogBatch

BatchOf(excess) == Smaller(excess, LogBatch)

DropExcess ==
  LET n == Smaller(BatchOf(cleaner.excess), Total) IN
  /\ cleaner.pc = "excess" /\ cleaner.excess > 0
  /\ Drop(n)
  /\ cleaner' = [cleaner EXCEPT !.excess = IF @ > n THEN @ - n ELSE 0]

(* The excess is gone, or the database refuses.                            *)
EndCleanup ==
  /\ cleaner.pc # "idle"
  /\ cleaner' = [cleaner EXCEPT !.pc = "idle", !.excess = 0]
  /\ UNCHANGED logs

LogsNext ==
  \/ WriteLog \/ LogAges \/ CleanupDue \/ ReserveCleanup
  \/ DropExpired \/ CountExcess \/ DropExcess \/ EndCleanup
  \/ \E n \in 1 .. MaxLogs : ClearLogs(n)

LogsSpec == LogsInit /\ [][LogsNext]_logVars

(* A cleanup that goes on while rows are added and become old never takes  *)
(* a recent row and leaves fewer rows than the limit, unless the user      *)
(* cleared logs while it was under way.                                    *)
RecentLogsStay ==
  [][logs'.young < logs.young /\ logs'.old <= logs.old /\ ~cleaner'.cleared
     => logs'.old + logs'.young >= LogLimit]_logVars
=============================================================================
