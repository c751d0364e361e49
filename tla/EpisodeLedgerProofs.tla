------------------------- MODULE EpisodeLedgerProofs -------------------------
(* The promises of the ledger hold for every number of episodes and         *)
(* downloads.                                                               *)
EXTENDS EpisodeLedger, TLAPS

(* Every operation of episodeRepository writes a legal status and the id of *)
(* a download, or NULL.                                                     *)
THEOREM TypeCorrect == Spec => []TypeOK
<1>1. Init => TypeOK
  BY DEF Init, TypeOK, Row, Statuses
<1>2. TypeOK /\ [Next]_ledger => TypeOK'
  <2> SUFFICES ASSUME TypeOK, [Next]_ledger PROVE TypeOK'
    OBVIOUS
  <2> USE DEF TypeOK, Row, Statuses, UserStatuses, OwnedStatuses
  <2>1. CASE UNCHANGED ledger
    BY <2>1
  <2>2. ASSUME NEW e \in Episodes, Observe(e) \/ Claim(e) \/ Release(e)
        PROVE  TypeOK'
    BY <2>2 DEF Observe, Claim, Release
  <2>3. ASSUME NEW e \in Episodes, NEW d \in DownloadIds,
               Attach(e, d) \/ Requeue(e, d) \/ Complete(e, d)
        PROVE  TypeOK'
    BY <2>3 DEF Attach, Requeue, Complete
  <2>4. ASSUME NEW d \in DownloadIds, Fail(d) PROVE TypeOK'
    BY <2>4 DEF Fail
  <2>5. ASSUME NEW ids \in SUBSET DownloadIds, Detach(ids) PROVE TypeOK'
    BY <2>5 DEF Detach, Detached
  <2>6. ASSUME NEW chosen \in SUBSET Episodes, NEW status \in UserStatuses,
               SetUserStatus(chosen, status)
        PROVE  TypeOK'
    BY <2>6 DEF SetUserStatus
  <2> QED
    BY <2>1, <2>2, <2>3, <2>4, <2>5, <2>6 DEF Next, Automatic
<1> QED
  BY <1>1, <1>2, PTL DEF Spec

(* What the program does by itself leaves an owned episode in its status.   *)
LEMMA OwnedStays ==
  ASSUME TypeOK, Automatic, NEW e \in Episodes, ledger[e].status \in OwnedStatuses
  PROVE  ledger'[e].status = ledger[e].status
<1> USE DEF TypeOK, Row, OwnedStatuses
<1>1. ASSUME NEW f \in Episodes, Observe(f) \/ Claim(f) \/ Release(f)
      PROVE  ledger'[e].status = ledger[e].status
  BY <1>1 DEF Observe, Claim, Release, Unclaimed
<1>2. ASSUME NEW f \in Episodes, NEW d \in DownloadIds,
             Attach(f, d) \/ Requeue(f, d) \/ Complete(f, d)
      PROVE  ledger'[e].status = ledger[e].status
  BY <1>2 DEF Attach, Requeue, Complete
<1>3. ASSUME NEW d \in DownloadIds, Fail(d) PROVE ledger'[e].status = ledger[e].status
  BY <1>3 DEF Fail
<1>4. ASSUME NEW ids \in SUBSET DownloadIds, Detach(ids)
      PROVE  ledger'[e].status = ledger[e].status
  BY <1>4 DEF Detach, Detached
<1> QED
  BY <1>1, <1>2, <1>3, <1>4 DEF Automatic

(* No completion, failure, collection or deletion changes the status of an  *)
(* episode that is owned or decided about: only SetUserStatus does.         *)
THEOREM OwnedStatusesStand == Spec => OwnedStatusStands
<1>1. TypeOK /\ [Next]_ledger =>
        [Automatic =>
           \A e \in Episodes :
             ledger[e].status \in OwnedStatuses
               => ledger'[e].status = ledger[e].status]_ledger
  BY OwnedStays
<1> QED
  BY <1>1, TypeCorrect, PTL DEF Spec, OwnedStatusStands
=============================================================================
