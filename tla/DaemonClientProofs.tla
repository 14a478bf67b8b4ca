-------------------------- MODULE DaemonClientProofs --------------------------
(***************************************************************************)
(* Proofs about DaemonClient: types, one open client at most, nobody       *)
(* rebuilds a connection beside somebody else, and the one way in which    *)
(* everybody can wait for everybody, which nothing ends, for every number  *)
(* of callers, closers and clients.                                        *)
(***************************************************************************)
EXTENDS DaemonClient, FiniteSetTheorems, TLAPS

USE DaemonClientAssumption DEF Threads

InUse == {"ensure", "connecting", "look", "want", "reconnect", "dial", "rpc", "closeWant", "closing"}
Locking == {"reconnect", "dial", "closing"}
Closing == {"closeWant", "closing"}

(***************************************************************************)
(* The inductive invariant.  A caller uses a client that exists; who locks *)
(* a client is known from where the callers are, and the other way round;  *)
(* the same for the pool's lock, whose holder closes the entry.            *)
(***************************************************************************)
ClientsExist ==
    /\ \A t \in Threads : pc[t] \in InUse => client[t] \in Clients /\ conn[client[t]] # "none"
    /\ entry # None => conn[entry] # "none"
    /\ \A c \in Clients : mpc[c] # "none" => conn[c] # "none"

LockHeld ==
    /\ \A t \in Threads : pc[t] \in Locking => wlock[client[t]] = t
    /\ \A c \in Clients : wlock[c] # None => client[wlock[c]] = c /\ pc[wlock[c]] \in Locking

PoolHeld ==
    /\ \A t \in Threads : pc[t] \in Closing => pool = t /\ client[t] = entry
    /\ pool # None => pc[pool] \in Closing

DialAlone == \A t \in Threads : pc[t] = "dial" => mpc[client[t]] # "wait"

IInv ==
    /\ TypeOK
    /\ ClientsExist
    /\ LockHeld
    /\ PoolHeld
    /\ DialAlone
    /\ OneOpenClient

LEMMA InvInit == Init => IInv
  BY DEF Init, IInv, TypeOK, States, ClientsExist, LockHeld, PoolHeld,
         DialAlone, OneOpenClient, InUse, Locking, Closing

(* Each action, and under it each part of the invariant that it touches;   *)
(* what it leaves alone comes first.                                       *)
LEMMA InvStep == IInv /\ [Next]_vars => IInv'
<1> SUFFICES ASSUME IInv, [Next]_vars
             PROVE  IInv'
  OBVIOUS
<1> USE DEF IInv, InUse, Locking, Closing, States, Seen,
            Goto, SetConn, Unlock, pools, monitors, callers
<1>1. ASSUME NEW t \in Threads, LookUp(t)
      PROVE  IInv'
  <2>1. OneOpenClient'
    BY <1>1 DEF LookUp, OneOpenClient
  <2>2. TypeOK'
    BY <1>1 DEF LookUp, Use, TypeOK
  <2>3. ClientsExist'
    BY <1>1 DEF LookUp, Use, TypeOK, ClientsExist
  <2>4. LockHeld'
    BY <1>1 DEF LookUp, Use, TypeOK, LockHeld
  <2>5. PoolHeld'
    BY <1>1 DEF LookUp, Use, TypeOK, PoolHeld
  <2>6. DialAlone'
    BY <1>1 DEF LookUp, Use, TypeOK, DialAlone
  <2>. QED  BY <2>1, <2>2, <2>3, <2>4, <2>5, <2>6
<1>2. ASSUME NEW t \in Threads, FoundMeanwhile(t)
      PROVE  IInv'
  <2>1. OneOpenClient'
    BY <1>2 DEF FoundMeanwhile, OneOpenClient
  <2>2. TypeOK'
    BY <1>2 DEF FoundMeanwhile, Use, TypeOK
  <2>3. ClientsExist'
    BY <1>2 DEF FoundMeanwhile, Use, TypeOK, ClientsExist
  <2>4. LockHeld'
    BY <1>2 DEF FoundMeanwhile, Use, LockHeld
  <2>5. PoolHeld'
    BY <1>2 DEF FoundMeanwhile, Use, PoolHeld
  <2>6. DialAlone'
    BY <1>2 DEF FoundMeanwhile, Use, DialAlone
  <2>. QED  BY <2>1, <2>2, <2>3, <2>4, <2>5, <2>6
<1>3. ASSUME NEW t \in Threads, Create(t)
      PROVE  IInv'
  <2>1. TypeOK'
    BY <1>3 DEF Create, NewClient, Use, TypeOK
  <2>2. ClientsExist'
    BY <1>3 DEF Create, NewClient, Use, TypeOK, ClientsExist
  <2>3. LockHeld'
    BY <1>3 DEF Create, NewClient, Use, LockHeld
  <2>4. PoolHeld'
    BY <1>3 DEF Create, NewClient, Use, PoolHeld
  <2>5. DialAlone'
    BY <1>3 DEF Create, NewClient, Use, DialAlone
  <2>6. OneOpenClient'
    BY <1>3 DEF Create, NewClient, OneOpenClient
  <2>. QED  BY <2>1, <2>2, <2>3, <2>4, <2>5, <2>6
<1>4. ASSUME NEW t \in Threads, ReadState(t)
      PROVE  IInv'
  <2>1. OneOpenClient'
    BY <1>4 DEF ReadState, OneOpenClient
  <2>2. TypeOK'
    BY <1>4 DEF ReadState, TypeOK
  <2>3. ClientsExist'
    BY <1>4 DEF ReadState, ClientsExist
  <2>4. LockHeld'
    BY <1>4 DEF ReadState, LockHeld
  <2>5. PoolHeld'
    BY <1>4 DEF ReadState, PoolHeld
  <2>6. DialAlone'
    BY <1>4 DEF ReadState, DialAlone
  <2>. QED  BY <2>1, <2>2, <2>3, <2>4, <2>5, <2>6
<1>5. ASSUME NEW t \in Threads, StateChanged(t)
      PROVE  IInv'
  <2>1. OneOpenClient'
    BY <1>5 DEF StateChanged, OneOpenClient
  <2>2. TypeOK'
    BY <1>5 DEF StateChanged, TypeOK
  <2>3. ClientsExist'
    BY <1>5 DEF StateChanged, ClientsExist
  <2>4. LockHeld'
    BY <1>5 DEF StateChanged, LockHeld
  <2>5. PoolHeld'
    BY <1>5 DEF StateChanged, PoolHeld
  <2>6. DialAlone'
    BY <1>5 DEF StateChanged, DialAlone
  <2>. QED  BY <2>1, <2>2, <2>3, <2>4, <2>5, <2>6
<1>6. ASSUME NEW t \in Threads, LookAgain(t)
      PROVE  IInv'
  <2>1. OneOpenClient'
    BY <1>6 DEF LookAgain, OneOpenClient
  <2>2. TypeOK'
    BY <1>6 DEF LookAgain, TypeOK
  <2>3. ClientsExist'
    BY <1>6 DEF LookAgain, ClientsExist
  <2>4. LockHeld'
    BY <1>6 DEF LookAgain, LockHeld
  <2>5. PoolHeld'
    BY <1>6 DEF LookAgain, PoolHeld
  <2>6. DialAlone'
    BY <1>6 DEF LookAgain, DialAlone
  <2>. QED  BY <2>1, <2>2, <2>3, <2>4, <2>5, <2>6
<1>7. ASSUME NEW t \in Threads, WaitTimeout(t)
      PROVE  IInv'
  <2>1. OneOpenClient'
    BY <1>7 DEF WaitTimeout, OneOpenClient
  <2>2. TypeOK'
    BY <1>7 DEF WaitTimeout, TypeOK
  <2>3. ClientsExist'
    BY <1>7 DEF WaitTimeout, ClientsExist
  <2>4. LockHeld'
    BY <1>7 DEF WaitTimeout, LockHeld
  <2>5. PoolHeld'
    BY <1>7 DEF WaitTimeout, PoolHeld
  <2>6. DialAlone'
    BY <1>7 DEF WaitTimeout, DialAlone
  <2>. QED  BY <2>1, <2>2, <2>3, <2>4, <2>5, <2>6
<1>8. ASSUME NEW t \in Threads, Want(t)
      PROVE  IInv'
  <2>1. OneOpenClient'
    BY <1>8 DEF Want, OneOpenClient
  <2>2. TypeOK'
    BY <1>8 DEF Want, TypeOK
  <2>3. ClientsExist'
    BY <1>8 DEF Want, ClientsExist
  <2>4. LockHeld'
    BY <1>8 DEF Want, TypeOK, LockHeld, ClientsExist
  <2>5. PoolHeld'
    BY <1>8 DEF Want, PoolHeld
  <2>6. DialAlone'
    BY <1>8 DEF Want, DialAlone
  <2>. QED  BY <2>1, <2>2, <2>3, <2>4, <2>5, <2>6
<1>9. ASSUME NEW t \in Threads, Reconnect(t)
      PROVE  IInv'
  <2>1. TypeOK'
    BY <1>9 DEF Reconnect, TypeOK
  <2>2. ClientsExist'
    BY <1>9 DEF Reconnect, TypeOK, ClientsExist
  <2>3. LockHeld'
    BY <1>9 DEF Reconnect, TypeOK, LockHeld, ClientsExist
  <2>4. PoolHeld'
    BY <1>9 DEF Reconnect, TypeOK, PoolHeld
  <2>5. DialAlone'
    BY <1>9 DEF Reconnect, HasLock, TypeOK, DialAlone
  <2>6. OneOpenClient'
    BY <1>9 DEF Reconnect, TypeOK, OneOpenClient, ClientsExist
  <2>. QED  BY <2>1, <2>2, <2>3, <2>4, <2>5, <2>6
<1>10. ASSUME NEW t \in Threads, DialOk(t)
      PROVE  IInv'
  <2>1. TypeOK'
    BY <1>10 DEF DialOk, TypeOK
  <2>2. ClientsExist'
    BY <1>10 DEF DialOk, ClientsExist
  <2>3. LockHeld'
    BY <1>10 DEF DialOk, TypeOK, LockHeld
  <2>4. PoolHeld'
    BY <1>10 DEF DialOk, PoolHeld
  <2>5. DialAlone'
    BY <1>10 DEF DialOk, DialAlone
  <2>6. OneOpenClient'
    BY <1>10 DEF DialOk, OneOpenClient, ClientsExist
  <2>. QED  BY <2>1, <2>2, <2>3, <2>4, <2>5, <2>6
<1>11. ASSUME NEW t \in Threads, DialFails(t)
       PROVE  IInv'
  <2>1. OneOpenClient'
    BY <1>11 DEF DialFails, OneOpenClient
  <2>2. TypeOK'
    BY <1>11 DEF DialFails, TypeOK
  <2>3. ClientsExist'
    BY <1>11 DEF DialFails, ClientsExist
  <2>4. LockHeld'
    BY <1>11 DEF DialFails, TypeOK, LockHeld
  <2>5. PoolHeld'
    BY <1>11 DEF DialFails, PoolHeld
  <2>6. DialAlone'
    BY <1>11 DEF DialFails, DialAlone
  <2>. QED  BY <2>1, <2>2, <2>3, <2>4, <2>5, <2>6
<1>12. ASSUME NEW t \in Threads, Rpc(t)
       PROVE  IInv'
  <2>1. TypeOK'
    BY <1>12 DEF Rpc, TypeOK
  <2>2. ClientsExist'
    BY <1>12 DEF Rpc, TypeOK, ClientsExist
  <2>3. LockHeld'
    BY <1>12 DEF Rpc, TypeOK, LockHeld
  <2>4. PoolHeld'
    BY <1>12 DEF Rpc, TypeOK, PoolHeld
  <2>5. DialAlone'
    BY <1>12 DEF Rpc, TypeOK, DialAlone
  <2>6. OneOpenClient'
    BY <1>12 DEF Rpc, TypeOK, OneOpenClient
  <2>. QED  BY <2>1, <2>2, <2>3, <2>4, <2>5, <2>6
<1>13. ASSUME NEW t \in Threads, CloseNothing(t)
       PROVE  IInv'
  <2>1. OneOpenClient'
    BY <1>13 DEF CloseNothing, OneOpenClient
  <2>2. TypeOK'
    BY <1>13 DEF CloseNothing, AfterClose, TypeOK
  <2>3. ClientsExist'
    BY <1>13 DEF CloseNothing, AfterClose, TypeOK, ClientsExist
  <2>4. LockHeld'
    BY <1>13 DEF CloseNothing, ClosesNow, AfterClose, LockHeld
  <2>5. PoolHeld'
    BY <1>13 DEF CloseNothing, AfterClose, PoolHeld
  <2>6. DialAlone'
    BY <1>13 DEF CloseNothing, AfterClose, TypeOK, DialAlone
  <2>. QED  BY <2>1, <2>2, <2>3, <2>4, <2>5, <2>6
<1>14. ASSUME NEW t \in Threads, CloseEntry(t)
       PROVE  IInv'
  <2>1. OneOpenClient'
    BY <1>14 DEF CloseEntry, OneOpenClient
  <2>2. TypeOK'
    BY <1>14 DEF CloseEntry, TypeOK
  <2>3. ClientsExist'
    BY <1>14 DEF CloseEntry, TypeOK, ClientsExist
  <2>4. LockHeld'
    BY <1>14 DEF CloseEntry, ClosesNow, LockHeld
  <2>5. PoolHeld'
    BY <1>14 DEF CloseEntry, TypeOK, PoolHeld
  <2>6. DialAlone'
    BY <1>14 DEF CloseEntry, TypeOK, DialAlone
  <2>. QED  BY <2>1, <2>2, <2>3, <2>4, <2>5, <2>6
<1>15. ASSUME NEW t \in Threads, Close(t)
       PROVE  IInv'
  <2>1. TypeOK'
    BY <1>15 DEF Close, AfterClose, TypeOK
  <2>2. ClientsExist'
    BY <1>15 DEF Close, AfterClose, TypeOK, ClientsExist
  <2>3. LockHeld'
    BY <1>15 DEF Close, AfterClose, TypeOK, LockHeld
  <2>4. PoolHeld'
    BY <1>15 DEF Close, AfterClose, TypeOK, PoolHeld
  <2>5. DialAlone'
    BY <1>15 DEF Close, AfterClose, DialAlone
  <2>6. OneOpenClient'
    BY <1>15 DEF Close, TypeOK, OneOpenClient, PoolHeld
  <2>. QED  BY <2>1, <2>2, <2>3, <2>4, <2>5, <2>6
<1>16. ASSUME NEW c \in Clients, FirstLook(c)
       PROVE  IInv'
  <2>1. LockHeld' /\ PoolHeld' /\ OneOpenClient'
    BY <1>16 DEF FirstLook, LockHeld, PoolHeld, OneOpenClient
  <2>2. TypeOK'
    BY <1>16 DEF FirstLook, TypeOK, ClientsExist
  <2>3. ClientsExist'
    BY <1>16 DEF FirstLook, ClientsExist
  <2>4. DialAlone'
    BY <1>16 DEF FirstLook, DialAlone
  <2>. QED  BY <2>1, <2>2, <2>3, <2>4
<1>17. ASSUME NEW c \in Clients, MonitorLock(c)
       PROVE  IInv'
  <2>1. LockHeld' /\ PoolHeld' /\ OneOpenClient'
    BY <1>17 DEF MonitorLock, LockHeld, PoolHeld, OneOpenClient
  <2>2. TypeOK'
    BY <1>17 DEF MonitorLock, TypeOK
  <2>3. ClientsExist'
    BY <1>17 DEF MonitorLock, ClientsExist
  <2>4. DialAlone'
    BY <1>17 DEF MonitorLock, DialAlone, LockHeld
  <2>. QED  BY <2>1, <2>2, <2>3, <2>4
<1>18. ASSUME NEW c \in Clients, MonitorWakes(c)
       PROVE  IInv'
  <2>1. LockHeld' /\ PoolHeld' /\ OneOpenClient'
    BY <1>18 DEF MonitorWakes, LockHeld, PoolHeld, OneOpenClient
  <2>2. TypeOK'
    BY <1>18 DEF MonitorWakes, TypeOK, ClientsExist
  <2>3. ClientsExist'
    BY <1>18 DEF MonitorWakes, ClientsExist
  <2>4. DialAlone'
    BY <1>18 DEF MonitorWakes, DialAlone
  <2>. QED  BY <2>1, <2>2, <2>3, <2>4
<1>19. ASSUME NEW c \in Clients, MonitorCancelled(c)
       PROVE  IInv'
  <2>1. LockHeld' /\ PoolHeld' /\ OneOpenClient'
    BY <1>19 DEF MonitorCancelled, LockHeld, PoolHeld, OneOpenClient
  <2>2. TypeOK'
    BY <1>19 DEF MonitorCancelled, TypeOK
  <2>3. ClientsExist'
    BY <1>19 DEF MonitorCancelled, ClientsExist
  <2>4. DialAlone'
    BY <1>19 DEF MonitorCancelled, DialAlone
  <2>. QED  BY <2>1, <2>2, <2>3, <2>4
<1>20. ASSUME NEW c \in Clients, Starts(c)
       PROVE  IInv'
  <2>1. LockHeld' /\ PoolHeld' /\ DialAlone'
    BY <1>20 DEF Starts, LockHeld, PoolHeld, DialAlone
  <2>2. TypeOK'
    BY <1>20 DEF Starts, TypeOK
  <2>3. ClientsExist'
    BY <1>20 DEF Starts, ClientsExist
  <2>4. OneOpenClient'
    BY <1>20 DEF Starts, OneOpenClient
  <2>. QED  BY <2>1, <2>2, <2>3, <2>4
<1>21. ASSUME NEW c \in Clients, Connects(c)
       PROVE  IInv'
  <2>1. LockHeld' /\ PoolHeld' /\ DialAlone'
    BY <1>21 DEF Connects, LockHeld, PoolHeld, DialAlone
  <2>2. TypeOK'
    BY <1>21 DEF Connects, TypeOK
  <2>3. ClientsExist'
    BY <1>21 DEF Connects, ClientsExist
  <2>4. OneOpenClient'
    BY <1>21 DEF Connects, OneOpenClient
  <2>. QED  BY <2>1, <2>2, <2>3, <2>4
<1>22. ASSUME NEW c \in Clients, Retries(c)
       PROVE  IInv'
  <2>1. LockHeld' /\ PoolHeld' /\ DialAlone'
    BY <1>22 DEF Retries, LockHeld, PoolHeld, DialAlone
  <2>2. TypeOK'
    BY <1>22 DEF Retries, TypeOK
  <2>3. ClientsExist'
    BY <1>22 DEF Retries, ClientsExist
  <2>4. OneOpenClient'
    BY <1>22 DEF Retries, OneOpenClient
  <2>. QED  BY <2>1, <2>2, <2>3, <2>4
<1>23. ASSUME NEW c \in Clients, GoesIdle(c)
       PROVE  IInv'
  <2>1. LockHeld' /\ PoolHeld' /\ DialAlone'
    BY <1>23 DEF GoesIdle, LockHeld, PoolHeld, DialAlone
  <2>2. TypeOK'
    BY <1>23 DEF GoesIdle, TypeOK
  <2>3. ClientsExist'
    BY <1>23 DEF GoesIdle, ClientsExist
  <2>4. OneOpenClient'
    BY <1>23 DEF GoesIdle, OneOpenClient
  <2>. QED  BY <2>1, <2>2, <2>3, <2>4
<1>24. CASE UNCHANGED vars
  BY <1>24 DEF vars, TypeOK, ClientsExist, LockHeld, PoolHeld, DialAlone,
         OneOpenClient
<1>. QED
  BY <1>1, <1>2, <1>3, <1>4, <1>5, <1>6, <1>7, <1>8, <1>9, <1>10, <1>11,
    <1>12, <1>13, <1>14, <1>15, <1>16, <1>17, <1>18, <1>19, <1>20, <1>21,
    <1>22, <1>23, <1>24 DEF Next, CallStep, MonitorStep, ConnectionStep

THEOREM InvHolds == Spec => []IInv
  BY InvInit, InvStep, PTL DEF Spec

(***************************************************************************)
(* Every lock, label, connection and client keeps its type: a caller that  *)
(* goes on to use a client has one (daemon_client.go).                     *)
(***************************************************************************)
THEOREM TypeCorrect == Spec => []TypeOK
  BY InvHolds, PTL DEF IInv

(***************************************************************************)
(* DaemonClientPool creates no second client beside an open one, and drops *)
(* none that has not been closed (GetClient, CloseClient, CloseAll).       *)
(***************************************************************************)
THEOREM OneOpenClientHolds == Spec => []OneOpenClient
  BY InvHolds, PTL DEF IInv

(***************************************************************************)
(* ensureConnection dials anew with c.mu to itself: neither a second       *)
(* caller nor the waiting monitor has the client then.                     *)
(***************************************************************************)
LEMMA OneRebuilder ==
    ASSUME IInv, NEW c \in Clients, NEW t \in Rebuilding(c)
    PROVE  Rebuilding(c) = {t} /\ mpc[c] # "wait"
  BY DEF IInv, LockHeld, DialAlone, Rebuilding, Locking

THEOREM RebuiltAloneHolds == Spec => []RebuiltAlone
<1>1. IInv => RebuiltAlone
  <2> SUFFICES ASSUME IInv, NEW c \in Clients, NEW t \in Rebuilding(c)
               PROVE  Cardinality(Rebuilding(c)) = 1 /\ mpc[c] # "wait"
    BY DEF RebuiltAlone
  <2>. QED  BY OneRebuilder, FS_Singleton
<1>. QED  BY <1>1, InvHolds, PTL

(***************************************************************************)
(* Where everybody waits, some monitor waits for a change of a connection  *)
(* that is idle or closed and not cancelled (monitorConnection waits with  *)
(* c.mu read-locked).  Whoever waits for p.mu waits for one who waits for  *)
(* c.mu, and whoever waits for c.mu waits for a monitor in the end.        *)
(***************************************************************************)
LEMMA WaitingMonitorIsStuck ==
    ASSUME IInv, Halted, NEW c \in Clients, mpc[c] = "wait"
    PROVE  Stuck(c)
  BY DEF IInv, TypeOK, States, Halted, MayMonitor, MayChange, Stuck, Seen

LEMMA LockWaitsForMonitor ==
    ASSUME IInv, Halted, NEW c \in Clients, wlock[c] # None
    PROVE  mpc[c] = "wait"
<1> DEFINE t == wlock[c]
<1>1. t \in Threads /\ client[t] = c /\ pc[t] \in Locking
  BY DEF IInv, TypeOK, LockHeld
<1>2. pc[t] \in {"reconnect", "closing"}
  BY <1>1 DEF Halted, MayCall, Locking
<1>. QED  BY <1>1, <1>2 DEF Halted, MayCall, HasLock

LEMMA CallerWaitsForMonitor ==
    ASSUME IInv, Halted, NEW t \in Threads,
           pc[t] \in {"ensure", "want", "closeWant", "reconnect", "closing"}
    PROVE  \E c \in Clients : mpc[c] = "wait"
<1>1. client[t] \in Clients
  BY DEF IInv, ClientsExist, InUse
<1>2. wlock[client[t]] # None
  BY DEF IInv, LockHeld, Halted, MayCall, Locking
<1>. QED  BY <1>1, <1>2, LockWaitsForMonitor

THEOREM OnlyMonitorsHalt == Spec => [](Halted => \E c \in Clients : Stuck(c))
<1>1. IInv /\ Halted => \E c \in Clients : Stuck(c)
  <2> SUFFICES ASSUME IInv, Halted
               PROVE  \E c \in Clients : mpc[c] = "wait"
    BY WaitingMonitorIsStuck
  <2>1. PICK t \in Threads : InCall(t)
    BY DEF Halted
  <2>2. pc[t] \notin {"connecting", "look", "dial", "rpc"}
    BY DEF Halted, MayCall
  <2>3. CASE pc[t] \in {"create", "close"}
    <3>1. pool # None
      BY <2>1, <2>3 DEF Halted, MayCall, ClosesNow, InCall
    <3>2. pool \in Threads /\ pc[pool] \in Closing
      BY <3>1 DEF IInv, TypeOK, PoolHeld
    <3>. QED  BY <3>2, CallerWaitsForMonitor DEF Closing
  <2>4. CASE pc[t] \in {"ensure", "want", "closeWant", "reconnect", "closing"}
    BY <2>4, CallerWaitsForMonitor
  <2>. QED  BY <2>1, <2>2, <2>3, <2>4 DEF IInv, TypeOK, InCall
<1>. QED  BY <1>1, InvHolds, PTL

(***************************************************************************)
(* Nothing ends such a halt: callers, monitors and gRPC have no step that  *)
(* Halted does not rule out, and a caller that comes later finds the same  *)
(* client (GetClient) and waits for its lock too (ensureConnection).       *)
(***************************************************************************)
LEMMA CallersMayMove ==
    ASSUME NEW t \in Threads, CallStep(t)
    PROVE  MayCall(t)
<1> USE DEF MayCall
<1>1. CASE FoundMeanwhile(t)
  BY <1>1 DEF FoundMeanwhile, OutOfClients
<1>2. CASE Create(t)
  BY <1>2 DEF Create, NewClient, OutOfClients
<1>3. CASE ReadState(t) \/ StateChanged(t) \/ LookAgain(t) \/ WaitTimeout(t) \/ Want(t)
  BY <1>3 DEF ReadState, StateChanged, LookAgain, WaitTimeout, Want
<1>4. CASE Reconnect(t) \/ DialOk(t) \/ DialFails(t) \/ Rpc(t)
  BY <1>4 DEF Reconnect, DialOk, DialFails, Rpc
<1>5. CASE CloseNothing(t) \/ CloseEntry(t) \/ Close(t)
  BY <1>5 DEF CloseNothing, CloseEntry, Close
<1>. QED  BY <1>1, <1>2, <1>3, <1>4, <1>5 DEF CallStep

LEMMA ConnectionsMayMove ==
    ASSUME NEW c \in Clients, MonitorStep(c) \/ ConnectionStep(c)
    PROVE  MayMonitor(c) \/ MayChange(c)
<1>1. CASE MonitorStep(c)
  BY <1>1 DEF MonitorStep, FirstLook, MonitorLock, MonitorWakes, MonitorCancelled, MayMonitor
<1>2. CASE ConnectionStep(c)
  BY <1>2 DEF ConnectionStep, Starts, Connects, Retries, GoesIdle, MayChange
<1>. QED  BY <1>1, <1>2

LEMMA EntryIsLocked ==
    ASSUME IInv, Halted, pool = None
    PROVE  entry \in Clients /\ wlock[entry] # None
<1>1. PICK t \in Threads : InCall(t)
  BY DEF Halted
<1>2. pc[t] \in {"ensure", "want", "closeWant", "reconnect", "closing"}
  BY <1>1 DEF IInv, TypeOK, Halted, MayCall, ClosesNow, InCall
<1>3. client[t] \in Clients /\ conn[client[t]] # "none"
  BY <1>2 DEF IInv, ClientsExist, InUse
<1>4. wlock[client[t]] # None
  BY <1>2 DEF IInv, LockHeld, Halted, MayCall, Locking
<1>5. Stuck(client[t])
  BY <1>3, <1>4, LockWaitsForMonitor, WaitingMonitorIsStuck
<1>. QED  BY <1>3, <1>4, <1>5 DEF IInv, OneOpenClient, Stuck

THEOREM HaltIsForEver == Spec => [](Halted => []Halted)
<1>1. IInv /\ Halted /\ [Next]_vars => Halted'
  <2> SUFFICES ASSUME IInv, Halted, [Next]_vars
               PROVE  Halted'
    OBVIOUS
  <2> USE DEF Halted, MayCall, MayMonitor, MayChange, InCall, OutOfClients, ClosesNow, HasLock, Seen
  <2>1. CASE UNCHANGED vars
    BY <2>1 DEF vars, pools, monitors, callers
  <2>2. ASSUME NEW t \in Threads, LookUp(t)
        PROVE  Halted'
    <3>1. entry \in Clients /\ wlock[entry] # None
      BY <2>2, EntryIsLocked DEF LookUp
    <3>2. /\ pc' = [pc EXCEPT ![t] = "ensure"]
          /\ client' = [client EXCEPT ![t] = entry]
          /\ UNCHANGED <<pools, wlock, conn, cancelled, monitors>>
      BY <2>2, <3>1 DEF LookUp, Use, Goto
    <3>3. \E u \in Threads : InCall(u)'
      BY <3>2 DEF IInv, TypeOK, pools
    <3>4. ASSUME NEW u \in Threads
          PROVE  ~MayCall(u)'
      BY <3>1, <3>2, <3>4 DEF IInv, TypeOK, pools, monitors
    <3>5. ASSUME NEW c \in Clients
          PROVE  ~MayMonitor(c)' /\ ~MayChange(c)'
      BY <3>2 DEF monitors
    <3>. QED  BY <3>3, <3>4, <3>5
  <2>3. ASSUME NEW t \in Threads, CallStep(t)
        PROVE  FALSE
    BY <2>3, CallersMayMove
  <2>4. ASSUME NEW c \in Clients, MonitorStep(c) \/ ConnectionStep(c)
        PROVE  FALSE
    BY <2>4, ConnectionsMayMove
  <2>. QED  BY <2>1, <2>2, <2>3, <2>4 DEF Next
<1>. QED  BY <1>1, InvHolds, PTL DEF Spec
=============================================================================
