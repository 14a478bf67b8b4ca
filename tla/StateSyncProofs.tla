---------------------------- MODULE StateSyncProofs ----------------------------
(***************************************************************************)
(* Proofs about StateSync: types, and that two undisturbed rounds of       *)
(* syncLoop make the Manager's row right, for every number of callbacks,   *)
(* process identifiers, attempts and changes.                              *)
(***************************************************************************)
EXTENDS StateSync, TLAPS

USE StateSyncAssumption DEF Readers

(***************************************************************************)
(* The inductive invariant.  The first three parts are about the agent,    *)
(* the call under way and the Manager's operation; the others say what     *)
(* the bookkeeping of TwoSyncsSuffice means.                               *)
(***************************************************************************)

(* Between changes an agent has a PID just when it runs. *)
AgentWhole ==
    /\ due = None => ((status = "running") <=> (pid # 0))
    /\ due # None => ((due.status = "running") <=> (due.pid # 0))

CallOpen == request # "none" <=> pc[Syncer] = "have"

OperationHasRow == opc # "idle" => db # None

(* After a successful clean round only the current report can be pending. *)
PendingFresh == settled >= 1 => pending \in {None, Current}

(* A round under way has not been disturbed, or nothing is counted.       *)
RoundClean == settled >= 1 /\ pc[Syncer] # "idle" => clean

ReadFresh == clean /\ pc[Syncer] = "read" => report[Syncer].status = status

(* So what a second clean round sends is current ... *)
SentFresh == settled >= 1 /\ pc[Syncer] = "have" => Sent = Current

(* ... and what it has written is. *)
ServedFresh == settled >= 1 /\ request = "served" /\ due = None => RowIsCurrent

IInv ==
    /\ TypeOK
    /\ AgentWhole
    /\ CallOpen
    /\ OperationHasRow
    /\ PendingFresh
    /\ RoundClean
    /\ ReadFresh
    /\ SentFresh
    /\ ServedFresh
    /\ TwoSyncsSuffice

(* No step makes clean anything but a Boolean. *)
LEMMA CleanStep == clean \in BOOLEAN /\ [Next]_vars => clean' \in BOOLEAN
  BY Zenon DEF Next, vars, ghost, Change, FinishChange, DaemonRestart,
         SyncerStep, ReadStatus, Collect, Serve, ServeSwallowsError,
         ServeRefuses, Retry, SyncOk, SyncFail, LateStep, LateServe, LateLost,
         NotifierStep, NotifyRead, NotifyStore, NotifyStuck, ManualSync, Operated,
         UpdateRow, ClearPID, Disturbed, DisturbedIf

LEMMA InvInit == Init => IInv
<1> SUFFICES ASSUME Init
             PROVE  IInv
  OBVIOUS
<1>1. clean \in BOOLEAN
  BY DEF Init
<1>2. TypeOK
  BY <1>1 DEF Init, TypeOK, Statuses, Reports, NoReport
<1>. QED
  BY <1>2 DEF Init, IInv, AgentWhole, CallOpen, OperationHasRow, PendingFresh,
         RoundClean, ReadFresh, SentFresh, ServedFresh, TwoSyncsSuffice

(* After a disturbance nothing is counted, and nothing said of counts. *)
LEMMA NothingCounted ==
    ASSUME settled' = 0
    PROVE  PendingFresh' /\ RoundClean' /\ SentFresh' /\ ServedFresh' /\ TwoSyncsSuffice'
  BY DEF PendingFresh, RoundClean, SentFresh, ServedFresh, TwoSyncsSuffice

(* Each action, and under it each part of the invariant that it touches;   *)
(* what it leaves alone comes first.                                       *)
LEMMA InvStep == IInv /\ [Next]_vars => IInv'
<1> SUFFICES ASSUME IInv, [Next]_vars
             PROVE  IInv'
  OBVIOUS
<1>0. clean' \in BOOLEAN
  BY CleanStep DEF IInv, TypeOK
<1> USE DEF IInv, Reports, Statuses, NoReport, Current, Sent, RowIsCurrent, Goto,
            agent, readers, network, operation, ghost
<1>1. ASSUME NEW new \in Reports, Change(new)
      PROVE  IInv'
  <2>1. CallOpen' /\ OperationHasRow'
    BY <1>1 DEF Change, CallOpen, OperationHasRow
  <2>2. TypeOK'
    BY <1>1, <1>0 DEF Change, Disturbed, TypeOK
  <2>3. AgentWhole'
    BY <1>1 DEF Change, AgentWhole
  <2>4. ReadFresh'
    BY <1>1 DEF Change, Disturbed, ReadFresh
  <2>5. settled' = 0
    BY <1>1 DEF Change, Disturbed
  <2>. QED  BY <2>1, <2>2, <2>3, <2>4, <2>5, NothingCounted
<1>2. ASSUME FinishChange
      PROVE  IInv'
  <2>1. CallOpen' /\ OperationHasRow'
    BY <1>2 DEF FinishChange, CallOpen, OperationHasRow
  <2>2. TypeOK'
    BY <1>2, <1>0 DEF FinishChange, Disturbed, TypeOK
  <2>3. AgentWhole'
    BY <1>2 DEF FinishChange, AgentWhole
  <2>4. ReadFresh'
    BY <1>2 DEF FinishChange, Disturbed, ReadFresh
  <2>5. settled' = 0
    BY <1>2 DEF FinishChange, Disturbed
  <2>. QED  BY <2>1, <2>2, <2>3, <2>4, <2>5, NothingCounted
<1>3. ASSUME DaemonRestart
      PROVE  IInv'
  <2>1. OperationHasRow'
    BY <1>3 DEF DaemonRestart, OperationHasRow
  <2>2. TypeOK'
    BY <1>3, <1>0 DEF DaemonRestart, Disturbed, TypeOK
  <2>3. AgentWhole'
    BY <1>3 DEF DaemonRestart, AgentWhole
  <2>4. CallOpen'
    BY <1>3 DEF DaemonRestart, CallOpen
  <2>5. ReadFresh'
    BY <1>3 DEF DaemonRestart, ReadFresh
  <2>6. settled' = 0
    BY <1>3 DEF DaemonRestart, Disturbed
  <2>. QED  BY <2>1, <2>2, <2>3, <2>4, <2>5, <2>6, NothingCounted
<1>4. ASSUME NEW r \in Readers, ReadStatus(r)
      PROVE  IInv'
  <2>1. AgentWhole' /\ OperationHasRow' /\ PendingFresh' /\ ServedFresh' /\
         TwoSyncsSuffice'
    BY <1>4 DEF ReadStatus, AgentWhole, OperationHasRow, PendingFresh,
           ServedFresh, TwoSyncsSuffice
  <2>2. TypeOK'
    BY <1>4, <1>0 DEF ReadStatus, TypeOK
  <2>3. CallOpen'
    BY <1>4 DEF ReadStatus, CallOpen
  <2>4. RoundClean'
    BY <1>4 DEF ReadStatus, RoundClean
  <2>5. ReadFresh'
    BY <1>4 DEF ReadStatus, TypeOK, ReadFresh
  <2>6. SentFresh'
    BY <1>4 DEF ReadStatus, SentFresh
  <2>. QED  BY <2>1, <2>2, <2>3, <2>4, <2>5, <2>6
<1>5. ASSUME NEW n \in Notifiers, NotifyRead(n)
      PROVE  IInv'
  <2>1. AgentWhole' /\ OperationHasRow' /\ PendingFresh' /\ ServedFresh' /\
         TwoSyncsSuffice'
    BY <1>5 DEF NotifyRead, AgentWhole, OperationHasRow, PendingFresh,
           ServedFresh, TwoSyncsSuffice
  <2>2. TypeOK'
    BY <1>5 DEF NotifyRead, TypeOK
  <2>3. CallOpen'
    BY <1>5 DEF NotifyRead, CallOpen
  <2>4. RoundClean'
    BY <1>5 DEF NotifyRead, RoundClean
  <2>5. ReadFresh'
    BY <1>5 DEF NotifyRead, ReadFresh
  <2>6. SentFresh'
    BY <1>5 DEF NotifyRead, SentFresh
  <2>. QED  BY <2>1, <2>2, <2>3, <2>4, <2>5, <2>6
<1>6. ASSUME NEW n \in Notifiers, NotifyStore(n)
      PROVE  IInv'
  <2>1. AgentWhole' /\ OperationHasRow'
    BY <1>6 DEF NotifyStore, AgentWhole, OperationHasRow
  <2>2. TypeOK'
    BY <1>6, <1>0 DEF NotifyStore, Done, DisturbedIf, Disturbed, TypeOK
  <2>3. CallOpen'
    BY <1>6 DEF NotifyStore, Done, CallOpen
  <2>4. PendingFresh'
    BY <1>6 DEF NotifyStore, DisturbedIf, Disturbed, PendingFresh
  <2>5. RoundClean'
    BY <1>6 DEF NotifyStore, Done, DisturbedIf, Disturbed, RoundClean
  <2>6. ReadFresh'
    BY <1>6 DEF NotifyStore, Done, ReadFresh
  <2>7. SentFresh'
    BY <1>6 DEF NotifyStore, Done, DisturbedIf, Disturbed, SentFresh
  <2>8. ServedFresh'
    BY <1>6 DEF NotifyStore, DisturbedIf, Disturbed, ServedFresh
  <2>9. TwoSyncsSuffice'
    BY <1>6 DEF NotifyStore, DisturbedIf, Disturbed, TwoSyncsSuffice
  <2>. QED  BY <2>1, <2>2, <2>3, <2>4, <2>5, <2>6, <2>7, <2>8, <2>9
<1>7. ASSUME NEW n \in Notifiers, NotifyStuck(n)
      PROVE  IInv'
  <2>1. AgentWhole' /\ OperationHasRow' /\ PendingFresh' /\ ServedFresh' /\
         TwoSyncsSuffice'
    BY <1>7 DEF NotifyStuck, AgentWhole, OperationHasRow, PendingFresh,
           ServedFresh, TwoSyncsSuffice
  <2>2. TypeOK'
    BY <1>7 DEF NotifyStuck, TypeOK
  <2>3. CallOpen'
    BY <1>7 DEF NotifyStuck, CallOpen
  <2>4. RoundClean'
    BY <1>7 DEF NotifyStuck, RoundClean
  <2>5. ReadFresh'
    BY <1>7 DEF NotifyStuck, ReadFresh
  <2>6. SentFresh'
    BY <1>7 DEF NotifyStuck, SentFresh
  <2>. QED  BY <2>1, <2>2, <2>3, <2>4, <2>5, <2>6
<1>8. ASSUME Collect
      PROVE  IInv'
  <2>1. AgentWhole' /\ OperationHasRow' /\ PendingFresh' /\ TwoSyncsSuffice'
    BY <1>8 DEF Collect, AgentWhole, OperationHasRow, PendingFresh,
           TwoSyncsSuffice
  <2>2. TypeOK'
    BY <1>8 DEF Collect, TypeOK
  <2>3. CallOpen'
    BY <1>8 DEF Collect, TypeOK, CallOpen
  <2>4. RoundClean'
    BY <1>8 DEF Collect, RoundClean
  <2>5. ReadFresh'
    BY <1>8 DEF Collect, TypeOK, ReadFresh
  <2>6. SentFresh'
    BY <1>8 DEF Collect, TypeOK, SentFresh, PendingFresh, ReadFresh, RoundClean
  <2>7. ServedFresh'
    BY <1>8 DEF Collect, ServedFresh
  <2>. QED  BY <2>1, <2>2, <2>3, <2>4, <2>5, <2>6, <2>7
<1>9. ASSUME Serve
      PROVE  IInv'
  <2>1. AgentWhole' /\ PendingFresh' /\ RoundClean' /\ ReadFresh' /\ SentFresh'
    BY <1>9 DEF Serve, AgentWhole, PendingFresh, RoundClean, ReadFresh,
           SentFresh
  <2>2. TypeOK'
    BY <1>9 DEF Serve, Row, TypeOK
  <2>3. CallOpen'
    BY <1>9 DEF Serve, CallOpen
  <2>4. OperationHasRow'
    BY <1>9 DEF Serve, Row, TypeOK, OperationHasRow
  <2>5. ServedFresh'
    BY <1>9 DEF Serve, Row, TypeOK, ServedFresh, SentFresh, CallOpen,
           AgentWhole
  <2>6. TwoSyncsSuffice'
    BY <1>9 DEF Serve, Row, TypeOK, TwoSyncsSuffice, SentFresh, CallOpen
  <2>. QED  BY <2>1, <2>2, <2>3, <2>4, <2>5, <2>6
<1>10. ASSUME ServeSwallowsError
       PROVE  IInv'
  <2>1. AgentWhole' /\ OperationHasRow'
    BY <1>10 DEF ServeSwallowsError, AgentWhole, OperationHasRow
  <2>2. TypeOK'
    BY <1>10, <1>0 DEF ServeSwallowsError, Disturbed, TypeOK
  <2>3. CallOpen'
    BY <1>10 DEF ServeSwallowsError, CallOpen
  <2>4. ReadFresh'
    BY <1>10 DEF ServeSwallowsError, ReadFresh, CallOpen
  <2>5. settled' = 0
    BY <1>10 DEF ServeSwallowsError, Disturbed
  <2>. QED  BY <2>1, <2>2, <2>3, <2>4, <2>5, NothingCounted
<1>11. ASSUME ServeRefuses
       PROVE  IInv'
  <2>1. AgentWhole' /\ OperationHasRow' /\ PendingFresh' /\ RoundClean' /\
         ReadFresh' /\ SentFresh' /\ TwoSyncsSuffice'
    BY <1>11 DEF ServeRefuses, AgentWhole, OperationHasRow, PendingFresh,
           RoundClean, ReadFresh, SentFresh, TwoSyncsSuffice
  <2>2. TypeOK'
    BY <1>11 DEF ServeRefuses, TypeOK
  <2>3. CallOpen'
    BY <1>11 DEF ServeRefuses, CallOpen
  <2>4. ServedFresh'
    BY <1>11 DEF ServeRefuses, ServedFresh
  <2>. QED  BY <2>1, <2>2, <2>3, <2>4
<1>12. ASSUME Retry
       PROVE  IInv'
  <2>1. AgentWhole' /\ OperationHasRow' /\ PendingFresh' /\ RoundClean' /\
         ReadFresh' /\ SentFresh' /\ TwoSyncsSuffice'
    BY <1>12 DEF Retry, AgentWhole, OperationHasRow, PendingFresh, RoundClean,
           ReadFresh, SentFresh, TwoSyncsSuffice
  <2>2. TypeOK'
    BY <1>12 DEF Retry, StillUnderWay, TypeOK
  <2>3. CallOpen'
    BY <1>12 DEF Retry, CallOpen
  <2>4. ServedFresh'
    BY <1>12 DEF Retry, ServedFresh
  <2>. QED  BY <2>1, <2>2, <2>3, <2>4
<1>13. ASSUME SyncOk
       PROVE  IInv'
  <2>1. AgentWhole' /\ OperationHasRow'
    BY <1>13 DEF SyncOk, AgentWhole, OperationHasRow
  <2>2. TypeOK'
    BY <1>13, <1>0 DEF SyncOk, CallOver, Done, TypeOK
  <2>3. CallOpen'
    BY <1>13 DEF SyncOk, CallOver, Done, TypeOK, CallOpen
  <2>4. PendingFresh'
    BY <1>13 DEF SyncOk, PendingFresh
  <2>5. RoundClean'
    BY <1>13 DEF SyncOk, CallOver, Done, TypeOK, RoundClean
  <2>6. ReadFresh'
    BY <1>13 DEF SyncOk, ReadFresh
  <2>7. SentFresh'
    BY <1>13 DEF SyncOk, CallOver, Done, TypeOK, SentFresh
  <2>8. ServedFresh'
    BY <1>13 DEF SyncOk, CallOver, ServedFresh
  <2>9. TwoSyncsSuffice'
    BY <1>13 DEF SyncOk, TypeOK, TwoSyncsSuffice, ServedFresh
  <2>. QED  BY <2>1, <2>2, <2>3, <2>4, <2>5, <2>6, <2>7, <2>8, <2>9
<1>14. ASSUME SyncFail
       PROVE  IInv'
  <2>1. AgentWhole' /\ OperationHasRow'
    BY <1>14 DEF SyncFail, AgentWhole, OperationHasRow
  <2>2. TypeOK'
    BY <1>14, <1>0 DEF SyncFail, CallOver, Done, StillUnderWay, TypeOK
  <2>3. CallOpen'
    BY <1>14 DEF SyncFail, CallOver, Done, TypeOK, CallOpen
  <2>4. PendingFresh'
    BY <1>14 DEF SyncFail, PendingFresh
  <2>5. RoundClean'
    BY <1>14 DEF SyncFail, CallOver, Done, TypeOK, RoundClean
  <2>6. ReadFresh'
    BY <1>14 DEF SyncFail, ReadFresh
  <2>7. SentFresh'
    BY <1>14 DEF SyncFail, CallOver, Done, TypeOK, SentFresh
  <2>8. ServedFresh'
    BY <1>14 DEF SyncFail, CallOver, ServedFresh
  <2>9. TwoSyncsSuffice'
    BY <1>14 DEF SyncFail, TwoSyncsSuffice
  <2>. QED  BY <2>1, <2>2, <2>3, <2>4, <2>5, <2>6, <2>7, <2>8, <2>9
<1>15. ASSUME NEW m \in Reports, LateServe(m)
       PROVE  IInv'
  <2>1. AgentWhole' /\ CallOpen'
    BY <1>15 DEF LateServe, AgentWhole, CallOpen
  <2>2. TypeOK'
    BY <1>15, <1>0 DEF LateServe, Row, DisturbedIf, Disturbed, TypeOK
  <2>3. OperationHasRow'
    BY <1>15 DEF LateServe, Row, TypeOK, OperationHasRow
  <2>4. PendingFresh'
    BY <1>15 DEF LateServe, DisturbedIf, Disturbed, PendingFresh
  <2>5. RoundClean'
    BY <1>15 DEF LateServe, DisturbedIf, Disturbed, RoundClean
  <2>6. ReadFresh'
    BY <1>15 DEF LateServe, DisturbedIf, Disturbed, ReadFresh
  <2>7. SentFresh'
    BY <1>15 DEF LateServe, DisturbedIf, Disturbed, SentFresh
  <2>8. ServedFresh'
    BY <1>15 DEF LateServe, Row, DisturbedIf, Disturbed, TypeOK, ServedFresh
  <2>9. TwoSyncsSuffice'
    BY <1>15 DEF LateServe, Row, DisturbedIf, Disturbed, TypeOK,
           TwoSyncsSuffice
  <2>. QED  BY <2>1, <2>2, <2>3, <2>4, <2>5, <2>6, <2>7, <2>8, <2>9
<1>16. ASSUME NEW m \in Reports, LateLost(m)
       PROVE  IInv'
  <2>1. AgentWhole' /\ CallOpen' /\ OperationHasRow' /\ PendingFresh' /\
         RoundClean' /\ ReadFresh' /\ SentFresh' /\ ServedFresh' /\
         TwoSyncsSuffice'
    BY <1>16 DEF LateLost, AgentWhole, CallOpen, OperationHasRow, PendingFresh,
           RoundClean, ReadFresh, SentFresh, ServedFresh, TwoSyncsSuffice
  <2>2. TypeOK'
    BY <1>16 DEF LateLost, TypeOK
  <2>. QED  BY <2>1, <2>2
<1>17. ASSUME Operated
       PROVE  IInv'
  <2>1. AgentWhole' /\ CallOpen' /\ PendingFresh' /\ RoundClean' /\ ReadFresh'
         /\ SentFresh' /\ ServedFresh' /\ TwoSyncsSuffice'
    BY <1>17 DEF Operated, AgentWhole, CallOpen, PendingFresh, RoundClean,
           ReadFresh, SentFresh, ServedFresh, TwoSyncsSuffice
  <2>2. TypeOK'
    BY <1>17 DEF Operated, TypeOK
  <2>3. OperationHasRow'
    BY <1>17 DEF Operated, OperationHasRow
  <2>. QED  BY <2>1, <2>2, <2>3
<1>18. ASSUME UpdateRow
       PROVE  IInv'
  <2>1. AgentWhole' /\ CallOpen'
    BY <1>18 DEF UpdateRow, AgentWhole, CallOpen
  <2>2. TypeOK'
    BY <1>18, <1>0 DEF UpdateRow, DisturbedIf, Disturbed, TypeOK,
           OperationHasRow
  <2>3. OperationHasRow'
    BY <1>18 DEF UpdateRow, TypeOK, OperationHasRow
  <2>4. PendingFresh'
    BY <1>18 DEF UpdateRow, DisturbedIf, Disturbed, PendingFresh
  <2>5. RoundClean'
    BY <1>18 DEF UpdateRow, DisturbedIf, Disturbed, RoundClean
  <2>6. ReadFresh'
    BY <1>18 DEF UpdateRow, DisturbedIf, Disturbed, ReadFresh
  <2>7. SentFresh'
    BY <1>18 DEF UpdateRow, DisturbedIf, Disturbed, SentFresh
  <2>8. ServedFresh'
    BY <1>18 DEF UpdateRow, DisturbedIf, Disturbed, TypeOK, ServedFresh
  <2>9. TwoSyncsSuffice'
    BY <1>18 DEF UpdateRow, DisturbedIf, Disturbed, TypeOK, TwoSyncsSuffice
  <2>. QED  BY <2>1, <2>2, <2>3, <2>4, <2>5, <2>6, <2>7, <2>8, <2>9
<1>19. ASSUME ClearPID
       PROVE  IInv'
  <2>1. AgentWhole' /\ CallOpen'
    BY <1>19 DEF ClearPID, AgentWhole, CallOpen
  <2>2. TypeOK'
    BY <1>19, <1>0 DEF ClearPID, DisturbedIf, Disturbed, TypeOK,
           OperationHasRow
  <2>3. OperationHasRow'
    BY <1>19 DEF ClearPID, OperationHasRow
  <2>4. PendingFresh'
    BY <1>19 DEF ClearPID, DisturbedIf, Disturbed, PendingFresh
  <2>5. RoundClean'
    BY <1>19 DEF ClearPID, DisturbedIf, Disturbed, RoundClean
  <2>6. ReadFresh'
    BY <1>19 DEF ClearPID, DisturbedIf, Disturbed, ReadFresh
  <2>7. SentFresh'
    BY <1>19 DEF ClearPID, DisturbedIf, Disturbed, SentFresh
  <2>8. ServedFresh'
    BY <1>19 DEF ClearPID, DisturbedIf, Disturbed, TypeOK, ServedFresh
  <2>9. TwoSyncsSuffice'
    BY <1>19 DEF ClearPID, DisturbedIf, Disturbed, TypeOK, TwoSyncsSuffice
  <2>. QED  BY <2>1, <2>2, <2>3, <2>4, <2>5, <2>6, <2>7, <2>8, <2>9
<1>20. ASSUME ManualSync
       PROVE  IInv'
  <2>1. AgentWhole' /\ OperationHasRow' /\ PendingFresh' /\ ServedFresh' /\
         TwoSyncsSuffice'
    BY <1>20 DEF ManualSync, AgentWhole, OperationHasRow, PendingFresh,
           ServedFresh, TwoSyncsSuffice
  <2>2. TypeOK'
    BY <1>20 DEF ManualSync, Done, TypeOK
  <2>3. CallOpen'
    BY <1>20 DEF ManualSync, Done, CallOpen
  <2>4. RoundClean'
    BY <1>20 DEF ManualSync, Done, RoundClean
  <2>5. ReadFresh'
    BY <1>20 DEF ManualSync, Done, ReadFresh
  <2>6. SentFresh'
    BY <1>20 DEF ManualSync, Done, SentFresh
  <2>. QED  BY <2>1, <2>2, <2>3, <2>4, <2>5, <2>6
<1>21. CASE UNCHANGED vars
  BY <1>21 DEF vars, TypeOK, AgentWhole, CallOpen, OperationHasRow,
         PendingFresh, RoundClean, ReadFresh, SentFresh, ServedFresh,
         TwoSyncsSuffice
<1>. QED
  BY <1>1, <1>2, <1>3, <1>4, <1>5, <1>6, <1>7, <1>8, <1>9, <1>10, <1>11, <1>12,
         <1>13, <1>14, <1>15, <1>16, <1>17, <1>18, <1>19, <1>20, <1>21 DEF Next,
         SyncerStep, NotifierStep, LateStep

THEOREM InvHolds == Spec => []IInv
  BY InvInit, InvStep, PTL DEF Spec

(***************************************************************************)
(* Every report, pending, sent, late or in the row, is a report, however   *)
(* calls are retried and lost (state_syncer.go, daemon_server.go).         *)
(***************************************************************************)
THEOREM TypeCorrect == Spec => []TypeOK
  BY InvHolds, PTL DEF IInv

(***************************************************************************)
(* Two rounds of syncLoop that nothing disturbs make the row right: the    *)
(* first may still carry a stale pending report, the second cannot.        *)
(***************************************************************************)
THEOREM TwoSyncsSufficeHolds == Spec => []TwoSyncsSuffice
  BY InvHolds, PTL DEF IInv
================================================================================
