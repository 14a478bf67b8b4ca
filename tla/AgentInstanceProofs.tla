------------------------ MODULE AgentInstanceProofs ------------------------
(***************************************************************************)
(* Proofs about AgentInstance: its type correctness, the safety invariant  *)
(* Inv, and that a live process is abandoned by a stale waiter only, for   *)
(* every number of operators, checkers and processes.                      *)
(***************************************************************************)
EXTENDS AgentInstance, TLAPS

USE AgentAssumption

(* Every goroutine step that is not a wait or a kill leaves the processes  *)
(* alone; these lemmas say what the shared helpers keep well typed.        *)
LEMMA ReturnType ==
    ASSUME TypeOK, NEW t \in Threads, Return(t)
    PROVE  /\ pc' \in [Threads -> Labels]
           /\ call' \in [Threads -> {"none", "start", "stop", "restart"}]
           /\ ctxDone' \in [Threads -> BOOLEAN]
           /\ ctx' \in [Procs -> Threads \cup {None}]
  BY DEF TypeOK, Return, Goto, EndContext, Labels

LEMMA ReturnLabel ==
    ASSUME TypeOK, NEW t \in Threads, Return(t)
    PROVE  \A s \in Threads : pc'[s] = "stopWait" => pc[s] = "stopWait" /\ s # t
  BY DEF TypeOK, Return, Goto

LEMMA GotoLabel ==
    ASSUME TypeOK, NEW t \in Threads, NEW l \in Labels, Goto(t, l)
    PROVE  /\ pc' \in [Threads -> Labels]
           /\ l # "stopWait" =>
                \A s \in Threads : pc'[s] = "stopWait" => pc[s] = "stopWait" /\ s # t
           /\ \A s \in Threads : s # t => pc'[s] = pc[s]
  BY DEF TypeOK, Goto

(***************************************************************************)
(* Every variable keeps its type, whichever goroutine steps (instance.go,  *)
(* multi_health_checker.go).                                               *)
(***************************************************************************)
THEOREM TypeCorrect == Spec => []TypeOK
<1>1. Init => TypeOK
  <2> SUFFICES ASSUME Init PROVE TypeOK
    OBVIOUS
  <2>1. restartCount \in 0 .. RestartCountCap
    BY DEF Init
  <2>2. /\ pc \in [Threads -> Labels]
        /\ call \in [Threads -> {"none", "start", "stop", "restart"}]
        /\ ctxDone \in [Threads -> BOOLEAN]
    BY DEF Init, Labels
  <2>3. /\ os \in [Procs -> {"unused", "alive", "zombie", "reaped"}]
        /\ ctx \in [Procs -> Threads \cup {None}]
    BY DEF Init
  <2>. QED  BY <2>1, <2>2, <2>3 DEF Init, TypeOK, Statuses
<1>2. TypeOK /\ [Next]_vars => TypeOK'
  <2> SUFFICES ASSUME TypeOK, [Next]_vars
               PROVE  TypeOK'
    OBVIOUS
  <2>1. ASSUME NEW t \in Threads, OperationStep(t)
        PROVE  TypeOK'
    <3>1. CASE StartClear(t)
      BY <3>1 DEF StartClear, Goto, TypeOK, Labels, info, system
    <3>2. CASE SpawnAlready(t)
      BY <3>2 DEF SpawnAlready, Goto, TypeOK, Labels, instance, info, system
    <3>3. CASE SpawnOk(t)
      BY <3>3 DEF SpawnOk, Goto, TypeOK, Labels, Statuses
    <3>4. CASE SpawnFail(t)
      <4>1. CASE call[t] = "restart"
        BY <3>4, <4>1 DEF SpawnFail, Goto, TypeOK, Labels, Statuses
      <4>2. CASE call[t] # "restart"
        BY <3>4, <4>2, ReturnType DEF SpawnFail, TypeOK, Statuses
      <4>. QED  BY <4>1, <4>2
    <3>5. CASE RestartFailed(t)
      BY <3>5, ReturnType DEF RestartFailed, TypeOK, Statuses, instance
    <3>6. CASE StopNothing(t)
      BY <3>6 DEF StopNothing, AfterStop, Goto, TypeOK, Labels, Statuses, system
    <3>7. CASE StopSignal(t)
      BY <3>7 DEF StopSignal, StopTarget, Goto, TypeOK, Labels, Statuses, system
    <3>8. CASE StopKill(t)
      BY <3>8 DEF StopKill, TypeOK, instance, info, threads
    <3>9. CASE StopDone(t)
      BY <3>9 DEF StopDone, AfterStop, Goto, TypeOK, Labels, Statuses, system
    <3>10. CASE RestartBegin(t)
      BY <3>10 DEF RestartBegin, Goto, TypeOK, Labels, Statuses, instance, system
    <3>11. CASE BackoffOver(t)
      BY <3>11 DEF BackoffOver, Goto, TypeOK, Labels, instance, info, system
    <3>12. CASE RestartProbe(t)
      BY <3>12 DEF RestartProbe, Goto, TypeOK, Labels, instance, info, system
    <3>13. CASE Publish(t)
      <4>1. restartCount' \in 0 .. RestartCountCap
        BY <3>13 DEF Publish, TypeOK
      <4>. QED  BY <4>1, <3>13, ReturnType DEF Publish, TypeOK, instance
    <3>. QED
      BY <2>1, <3>1, <3>2, <3>3, <3>4, <3>5, <3>6, <3>7, <3>8, <3>9, <3>10,
         <3>11, <3>12, <3>13 DEF OperationStep
  <2>2. ASSUME NEW c \in Threads, CheckerStep(c)
        PROVE  TypeOK'
    <3>1. CASE CheckerTick(c)
      BY <3>1 DEF CheckerTick, Healthy, Goto, TypeOK, Labels, instance, system
    <3>2. CASE CheckerFindsDead(c)
      BY <3>2 DEF CheckerFindsDead, Goto, TypeOK, Labels, instance, info, system
    <3>3. CASE CheckerFindsAlive(c)
      BY <3>3 DEF CheckerFindsAlive, Healthy, Goto, TypeOK, Labels, instance, system
    <3>4. CASE CheckerFindsOverThreshold(c)
      BY <3>4 DEF CheckerFindsOverThreshold, EnterRestart, Goto, TypeOK, Labels,
                  instance, info, system
    <3>5. CASE CheckerReadStatus(c)
      BY <3>5 DEF CheckerReadStatus, Goto, TypeOK, Labels, instance, info, system
    <3>6. CASE CheckerMarkStatus(c)
      BY <3>6 DEF CheckerMarkStatus, Goto, TypeOK, Labels, Statuses, instance, system
    <3>7. CASE CheckerMarkPid(c)
      BY <3>7 DEF CheckerMarkPid, Goto, TypeOK, Labels, instance, system
    <3>8. CASE CheckerAskManual(c)
      BY <3>8 DEF CheckerAskManual, EnterRestart, Goto, TypeOK, Labels,
                  instance, info, system
    <3>. QED
      BY <2>2, <3>1, <3>2, <3>3, <3>4, <3>5, <3>6, <3>7, <3>8 DEF CheckerStep
  <2>3. ASSUME NEW t \in Operators, NEW c \in Calls, ReceiveCall(t, c)
        PROVE  TypeOK'
    BY <2>3 DEF ReceiveCall, Goto, TypeOK, Labels, Threads, instance, info, system
  <2>4. ASSUME NEW t \in Operators, RpcCancelled(t)
        PROVE  TypeOK'
    BY <2>4 DEF RpcCancelled, EndContext, TypeOK, Threads, instance, info
  <2>5. ASSUME NEW p \in Procs, Exit(p) \/ ContextKill(p) \/ Reap(p)
        PROVE  TypeOK'
    BY <2>5 DEF Exit, ContextKill, Reap, TypeOK, instance, info, threads
  <2>6. ASSUME NEW p \in Procs, Waiter(p)
        PROVE  TypeOK'
    BY <2>6 DEF Waiter, TypeOK, Statuses, threads
  <2>7. CASE UNCHANGED vars
    BY <2>7 DEF TypeOK, vars, instance, info, system, threads
  <2>. QED
    BY <2>1, <2>2, <2>3, <2>4, <2>5, <2>6, <2>7
    DEF Next, ThreadStep, ProcessStep
<1>. QED  BY <1>1, <1>2, PTL DEF Spec

(***************************************************************************)
(* Inv is inductive: the recorded PID belongs to the process the instance  *)
(* holds, "running" is recorded only while there is one, its PID has not   *)
(* been recycled, and Stop alone holds ai.mu while it waits.               *)
(***************************************************************************)
LEMMA InvStep == TypeOK /\ Inv /\ [Next]_vars => Inv'
<1> SUFFICES ASSUME TypeOK, Inv, [Next]_vars
             PROVE  Inv'
  OBVIOUS
<1> USE DEF Inv, PidTracksProcess, RunningHasProcess, HandleIsFresh, StopOwnsProcess
<1>1. ASSUME NEW t \in Threads, OperationStep(t)
      PROVE  Inv'
  <2>1. CASE StartClear(t)
    BY <2>1, GotoLabel DEF StartClear, TypeOK, Labels, info, system
  <2>2. CASE SpawnAlready(t)
    BY <2>2, GotoLabel DEF SpawnAlready, TypeOK, Labels, instance, info, system
  <2>3. CASE SpawnOk(t)
    <3>1. \A s \in Threads : pc'[s] # "stopWait"
      BY <2>3, GotoLabel DEF SpawnOk, Labels
    <3>. QED  BY <2>3, <3>1 DEF SpawnOk, TypeOK
  <2>4. CASE SpawnFail(t)
    <3>1. \A s \in Threads : pc'[s] = "stopWait" => pc[s] = "stopWait"
      BY <2>4, GotoLabel, ReturnLabel DEF SpawnFail, Labels
    <3>. QED  BY <2>4, <3>1 DEF SpawnFail, TypeOK
  <2>5. CASE RestartFailed(t)
    BY <2>5, ReturnLabel DEF RestartFailed, TypeOK, instance
  <2>6. CASE StopNothing(t)
    <3>1. \A s \in Threads : pc'[s] # "stopWait"
      BY <2>6, GotoLabel DEF StopNothing, AfterStop, Labels
    <3>. QED  BY <2>6, <3>1 DEF StopNothing, TypeOK, system
  <2>7. CASE StopSignal(t)
    <3>1. process' = process /\ process # None
      BY <2>7 DEF StopSignal, StopTarget, Exists
    <3>2. \A s \in Threads : pc'[s] = "stopWait" => s = t
      BY <2>7, GotoLabel DEF StopSignal, Labels
    <3>. QED  BY <2>7, <3>1, <3>2 DEF StopSignal, TypeOK, system
  <2>8. CASE StopKill(t)
    BY <2>8 DEF StopKill, TypeOK, instance, info, threads
  <2>9. CASE StopDone(t)
    <3>1. \A s \in Threads : pc'[s] # "stopWait"
      BY <2>9, GotoLabel DEF StopDone, AfterStop, Labels
    <3>. QED  BY <2>9, <3>1 DEF StopDone, TypeOK, system
  <2>10. CASE RestartBegin(t)
    <3>1. \A s \in Threads : pc'[s] = "stopWait" => pc[s] = "stopWait"
      BY <2>10, GotoLabel DEF RestartBegin, Labels
    <3>. QED  BY <2>10, <3>1 DEF RestartBegin, TypeOK, instance, system
  <2>11. CASE BackoffOver(t)
    BY <2>11, GotoLabel DEF BackoffOver, TypeOK, Labels, instance, info, system
  <2>12. CASE RestartProbe(t)
    BY <2>12, GotoLabel DEF RestartProbe, TypeOK, Labels, instance, info, system
  <2>13. CASE Publish(t)
    BY <2>13, ReturnLabel DEF Publish, TypeOK, instance
  <2>. QED
    BY <1>1, <2>1, <2>2, <2>3, <2>4, <2>5, <2>6, <2>7, <2>8, <2>9, <2>10,
       <2>11, <2>12, <2>13 DEF OperationStep
<1>2. ASSUME NEW c \in Threads, CheckerStep(c)
      PROVE  Inv'
  <2>1. /\ UNCHANGED <<instance, system>>
        /\ pid' \in {pid, None}
        /\ status' \in {status, "stopped"}
    BY <1>2 DEF CheckerStep, CheckerTick, CheckerFindsDead, CheckerFindsAlive,
       CheckerFindsOverThreshold, CheckerReadStatus, CheckerMarkStatus,
       CheckerMarkPid, CheckerAskManual, info, instance, system
  <2>2. \A s \in Threads : pc'[s] = "stopWait" => pc[s] = "stopWait"
    <3>1. \E l \in Labels \ {"stopWait"} : Goto(c, l)
      BY <1>2 DEF CheckerStep, CheckerTick, CheckerFindsDead, CheckerFindsAlive,
         CheckerFindsOverThreshold, CheckerReadStatus, CheckerMarkStatus,
         CheckerMarkPid, CheckerAskManual, EnterRestart, Healthy, Labels
    <3>. QED  BY <3>1, GotoLabel
  <2>. QED  BY <2>1, <2>2 DEF TypeOK, instance, system
<1>3. ASSUME NEW t \in Operators, NEW c \in Calls, ReceiveCall(t, c)
      PROVE  Inv'
  <2>1. t \in Threads /\ c \in Labels /\ c # "stopWait"
    BY DEF Threads, Labels
  <2>. QED
    BY <1>3, <2>1, GotoLabel DEF ReceiveCall, TypeOK, instance, info, system
<1>4. ASSUME NEW t \in Operators, RpcCancelled(t)
      PROVE  Inv'
  BY <1>4 DEF RpcCancelled, TypeOK, instance, info
<1>5. ASSUME NEW p \in Procs, Exit(p) \/ ContextKill(p) \/ Reap(p)
      PROVE  Inv'
  BY <1>5 DEF Exit, ContextKill, Reap, TypeOK, instance, info, threads
<1>6. ASSUME NEW p \in Procs, Waiter(p)
      PROVE  Inv'
  BY <1>6 DEF Waiter, TypeOK, threads
<1>7. CASE UNCHANGED vars
  BY <1>7 DEF vars, instance, info, system, threads
<1>. QED
  BY <1>1, <1>2, <1>3, <1>4, <1>5, <1>6, <1>7
  DEF Next, ThreadStep, ProcessStep

(***************************************************************************)
(* The safety of the instance's bookkeeping: Inv holds in every reachable  *)
(* state.                                                                  *)
(***************************************************************************)
THEOREM Safety == Spec => []Inv
<1>1. Init => Inv
  BY DEF Init, Inv, PidTracksProcess, RunningHasProcess, HandleIsFresh, StopOwnsProcess
<1>. QED  BY <1>1, InvStep, TypeCorrect, PTL DEF Spec

(* Its parts.  A PID is on record only for the process the instance holds,  *)
(* so Stop's lookup by PID finds no other (instance.go:238).                *)
COROLLARY PidTracked == Spec => []PidTracksProcess
<1>1. Inv => PidTracksProcess
  BY DEF Inv
<1>. QED  BY <1>1, Safety, PTL

(* "running" is never on record without a process (multi_manager.go:308).   *)
COROLLARY RunningHeld == Spec => []RunningHasProcess
<1>1. Inv => RunningHasProcess
  BY DEF Inv
<1>. QED  BY <1>1, Safety, PTL

(* No probe or signal reaches a PID that is no longer the agent's.          *)
COROLLARY HandleFresh == Spec => []HandleIsFresh
<1>1. Inv => HandleIsFresh
  BY DEF Inv
<1>. QED  BY <1>1, Safety, PTL

(* Nobody replaces the process a Stop waits for (instance.go:321).          *)
COROLLARY StopOwns == Spec => []StopOwnsProcess
<1>1. Inv => StopOwnsProcess
  BY DEF Inv
<1>. QED  BY <1>1, Safety, PTL

(***************************************************************************)
(* A live process leaves the instance's hands only when the waiter of      *)
(* another, earlier process clears the instance (instance.go:166-176).     *)
(***************************************************************************)
THEOREM AbandonedByStaleWaiter == Spec => AbandonedOnlyByStaleWaiter
<1> DEFINE Abandon ==
      \A p \in Procs :
         process = p /\ os[p] = "alive" /\ process' # p
           => \E q \in Procs \ {p} : os[q] = "reaped" /\ os'[q] = "unused"
<1>1. TypeOK /\ Inv /\ [Next]_vars => [Abandon]_vars
  <2> SUFFICES ASSUME TypeOK, Inv, [Next]_vars,
                      NEW p \in Procs,
                      process = p, os[p] = "alive", process' # p
               PROVE  \E q \in Procs \ {p} : os[q] = "reaped" /\ os'[q] = "unused"
    OBVIOUS
  <2>0. Exists(process) /\ process # None
    BY DEF Exists, TypeOK
  <2>1. ASSUME NEW t \in Threads, OperationStep(t)
        PROVE  process' = process
    <3>1. CASE StopNothing(t)
      <4>1. pid = None \/ StopTarget # process
        BY <3>1, <2>0 DEF StopNothing
      <4>2. StopTarget = process
        BY <2>0 DEF StopTarget
      <4>. QED  BY <3>1, <4>1, <4>2 DEF StopNothing
    <3>2. CASE StopSignal(t)
      BY <3>2, <2>0 DEF StopSignal, StopTarget
    <3>3. CASE StopDone(t)
      BY <3>3 DEF StopDone
    <3>4. CASE SpawnOk(t)
      BY <3>4, <2>0 DEF SpawnOk
    <3>. QED
      BY <2>1, <3>1, <3>2, <3>3, <3>4
      DEF OperationStep, StartClear, SpawnAlready, SpawnFail, RestartFailed,
          StopKill, RestartBegin, BackoffOver, RestartProbe, Publish, instance
  <2>2. ASSUME NEW c \in Threads, CheckerStep(c)
        PROVE  process' = process
    BY <2>2 DEF CheckerStep, CheckerTick, CheckerFindsDead, CheckerFindsAlive,
       CheckerFindsOverThreshold, CheckerReadStatus, CheckerMarkStatus,
       CheckerMarkPid, CheckerAskManual, instance
  <2>3. ASSUME NEW t \in Operators, NEW c \in Calls, ReceiveCall(t, c)
        PROVE  process' = process
    BY <2>3 DEF ReceiveCall, instance
  <2>4. ASSUME NEW t \in Operators, RpcCancelled(t)
        PROVE  process' = process
    BY <2>4 DEF RpcCancelled, instance
  <2>5. ASSUME NEW q \in Procs, Exit(q) \/ ContextKill(q) \/ Reap(q)
        PROVE  process' = process
    BY <2>5 DEF Exit, ContextKill, Reap, instance
  <2>6. ASSUME NEW q \in Procs, Waiter(q)
        PROVE  q # p /\ os[q] = "reaped" /\ os'[q] = "unused"
    BY <2>6 DEF Waiter, TypeOK
  <2>7. ASSUME UNCHANGED vars
        PROVE  process' = process
    BY <2>7 DEF vars, instance
  <2>8. \E q \in Procs : Waiter(q)
    BY <2>1, <2>2, <2>3, <2>4, <2>5, <2>7
    DEF Next, ThreadStep, ProcessStep, AgentAssumption
  <2>. QED  BY <2>6, <2>8
<1>. QED
  BY <1>1, TypeCorrect, Safety, PTL DEF Spec, AbandonedOnlyByStaleWaiter

-----------------------------------------------------------------------------
(* How the lives of the processes go on. *)
LEMMA LifeSteps ==
    ASSUME TypeOK
    PROVE  /\ \A p \in Procs : /\ Life[p] = "free" <=> os[p] = "unused"
                               /\ Life[p] = "alive" <=> os[p] = "alive"
                               /\ Life[p] = "ended" <=> os[p] \in {"zombie", "reaped"}
           /\ \A p \in Procs : os' = [os EXCEPT ![p] = "alive"]
                => Life' = [Life EXCEPT ![p] = "alive"]
           /\ \A p \in Procs : os' = [os EXCEPT ![p] = "zombie"]
                => Life' = [Life EXCEPT ![p] = "ended"]
           /\ \A p \in Procs : os[p] = "zombie" /\ os' = [os EXCEPT ![p] = "reaped"]
                => Life' = Life
           /\ \A p \in Procs : os' = [os EXCEPT ![p] = "unused"]
                => Life' = [Life EXCEPT ![p] = "free"]
           /\ os' = os => Life' = Life
  <1> DEFINE of(s) == CASE s = "unused" -> "free" [] s = "alive" -> "alive" [] OTHER -> "ended"
  <1>1. /\ of("unused") = "free" /\ of("alive") = "alive"
        /\ of("zombie") = "ended" /\ of("reaped") = "ended"
    OBVIOUS
  <1>2. Life = [p \in Procs |-> of(os[p])] /\ Life' = [p \in Procs |-> of(os'[p])]
    BY DEF Life
  <1>3. os \in [Procs -> {"unused", "alive", "zombie", "reaped"}]
    BY DEF TypeOK
  <1> HIDE DEF of
  <1>4. \A p \in Procs : /\ Life[p] = "free" <=> os[p] = "unused"
                         /\ Life[p] = "alive" <=> os[p] = "alive"
                         /\ Life[p] = "ended" <=> os[p] \in {"zombie", "reaped"}
    BY <1>1, <1>2, <1>3
  <1>5. \A s : \A p \in Procs :
          os' = [os EXCEPT ![p] = s] => Life' = [Life EXCEPT ![p] = of(s)]
    BY <1>2, <1>3
  <1>6. \A p \in Procs :
          os[p] = "zombie" /\ os' = [os EXCEPT ![p] = "reaped"] => Life' = Life
    BY <1>1, <1>2, <1>3
  <1>. QED  BY <1>1, <1>2, <1>4, <1>5, <1>6

LEMMA HoldsLive ==
    ASSUME TypeOK
    PROVE  Abstract!HoldsLive <=> process # None /\ os[process] = "alive"
  BY LifeSteps DEF Abstract!HoldsLive, TypeOK

(* What is not a step of Supervision leaves its variables alone. *)
LEMMA Stutters ==
    ASSUME TypeOK, UNCHANGED <<process, pid, manuallyStopped, os>>
    PROVE  UNCHANGED Abstract!vars
  BY LifeSteps DEF Abstract!vars

(* The steps of a goroutine: a spawn, the end of a stop, a kill and the    *)
(* taking away of the mark are steps of Supervision.                       *)
LEMMA OperationRefines ==
    ASSUME TypeOK, Inv, NEW t \in Threads, OperationStep(t)
    PROVE  [Abstract!Next]_(Abstract!vars)
<1>1. CASE StartClear(t) \/ SpawnFail(t)
  <2>1. UNCHANGED <<process, pid, os>> /\ manuallyStopped' \in {manuallyStopped, FALSE}
    BY <1>1 DEF StartClear, SpawnFail, TypeOK, info, system
  <2>2. CASE manuallyStopped' = manuallyStopped
    BY <2>1, <2>2, Stutters
  <2>3. CASE manuallyStopped' # manuallyStopped
    <3>1. manuallyStopped /\ manuallyStopped' = FALSE
      BY <2>1, <2>3 DEF TypeOK
    <3>. QED  BY <2>1, <3>1, LifeSteps DEF Abstract!Next, Abstract!Allow
  <2>. QED  BY <2>2, <2>3
<1>2. CASE SpawnOk(t)
  <2>1. PICK p \in Procs : /\ os[p] = "unused" /\ process' = p /\ pid' = p
                           /\ os' = [os EXCEPT ![p] = "alive"]
    BY <1>2 DEF SpawnOk
  <2>2. ~Abstract!HoldsLive /\ manuallyStopped' \in {manuallyStopped, FALSE}
    BY <1>2, HoldsLive DEF SpawnOk, Exists, TypeOK
  <2>3. Abstract!Launch(p)
    BY <2>1, <2>2, LifeSteps DEF Abstract!Launch
  <2>. QED  BY <2>3 DEF Abstract!Next
<1>3. CASE StopNothing(t)
  <2>1. /\ UNCHANGED os /\ pid' = None /\ manuallyStopped' = TRUE
        /\ process' = IF pid = None THEN process ELSE None
    BY <1>3 DEF StopNothing, system
  <2>2. pid # None => ~Abstract!HoldsLive
    BY <1>3, HoldsLive DEF StopNothing, StopTarget, Exists
  <2>. QED  BY <2>1, <2>2, LifeSteps DEF Abstract!Next, Abstract!Stop
<1>4. CASE StopDone(t)
  <2>1. /\ UNCHANGED os /\ process' = None /\ pid' = None /\ manuallyStopped' = TRUE
        /\ os[process] = "reaped"
    BY <1>4 DEF StopDone, system
  <2>2. ~Abstract!HoldsLive
    BY <2>1, HoldsLive
  <2>. QED  BY <2>1, <2>2, LifeSteps DEF Abstract!Next, Abstract!Stop
<1>5. CASE StopSignal(t)
  <2>1. process' = process
    BY <1>5 DEF StopSignal, StopTarget, Inv, PidTracksProcess
  <2>. QED  BY <1>5, <2>1, Stutters DEF StopSignal, system
<1>6. CASE StopKill(t)
  <2>1. process \in Procs
    BY <1>6 DEF StopKill, TypeOK, Inv, StopOwnsProcess
  <2>2. Abstract!End(process)
    BY <1>6, <2>1, LifeSteps DEF StopKill, Abstract!End, instance, info
  <2>. QED  BY <2>1, <2>2 DEF Abstract!Next
<1>7. CASE SpawnAlready(t) \/ RestartFailed(t) \/ RestartBegin(t) \/ BackoffOver(t)
           \/ RestartProbe(t) \/ Publish(t)
  BY <1>7, Stutters DEF SpawnAlready, RestartFailed, RestartBegin, BackoffOver,
     RestartProbe, Publish, instance, info, system
<1>. QED  BY <1>1, <1>2, <1>3, <1>4, <1>5, <1>6, <1>7 DEF OperationStep

LEMMA CheckerRefines ==
    ASSUME TypeOK, NEW c \in Threads, CheckerStep(c)
    PROVE  [Abstract!Next]_(Abstract!vars)
<1>1. UNCHANGED <<process, manuallyStopped, os>> /\ pid' \in {pid, None}
  BY DEF CheckerStep, CheckerTick, CheckerFindsDead, CheckerFindsAlive,
     CheckerFindsOverThreshold, CheckerReadStatus, CheckerMarkStatus,
     CheckerMarkPid, CheckerAskManual, info, instance, system
<1>2. CASE pid' = pid
  BY <1>1, <1>2, Stutters
<1>3. CASE pid' # pid
  <2>1. pid # None /\ pid' = None
    BY <1>1, <1>3
  <2>. QED  BY <1>1, <2>1, LifeSteps DEF Abstract!Next, Abstract!LoseTrack
<1>. QED  BY <1>2, <1>3

(***************************************************************************)
(* The goroutines around an agent implement Supervision, whatever their    *)
(* number and however they interleave: no process is started while a live  *)
(* one is held, a stop that has the PID on record leaves none held, and    *)
(* the mark of a stop comes from stops and goes with starts.               *)
(***************************************************************************)
THEOREM Refinement == Spec => RefinesSupervision
<1>1. Init => Abstract!Init
  BY DEF Init, Abstract!Init, Life
<1>2. TypeOK /\ Inv /\ [Next]_vars => [Abstract!Next]_(Abstract!vars)
  <2> SUFFICES ASSUME TypeOK, Inv, [Next]_vars
               PROVE  [Abstract!Next]_(Abstract!vars)
    OBVIOUS
  <2>1. CASE (\E t \in Operators, c \in Calls : ReceiveCall(t, c))
             \/ (\E t \in Impatient : RpcCancelled(t)) \/ UNCHANGED vars
    BY <2>1, Stutters DEF ReceiveCall, RpcCancelled, vars, instance, info, system
  <2>2. ASSUME NEW p \in Procs, Exit(p) \/ ContextKill(p)
        PROVE  Abstract!End(p)
    BY <2>2, LifeSteps DEF Exit, ContextKill, Abstract!End, instance, info
  <2>3. ASSUME NEW p \in Procs, Reap(p)
        PROVE  UNCHANGED Abstract!vars
    BY <2>3, LifeSteps DEF Reap, Abstract!vars, instance, info
  <2>4. ASSUME NEW p \in Procs, Waiter(p)
        PROVE  Abstract!Note(p)
    BY <2>4, LifeSteps DEF Waiter, Abstract!Note
  <2>. QED
    BY <2>1, <2>2, <2>3, <2>4, OperationRefines, CheckerRefines
    DEF Next, ThreadStep, ProcessStep, Abstract!Next
<1>. QED
  BY <1>1, <1>2, TypeCorrect, Safety, PTL DEF Spec, RefinesSupervision, Abstract!Spec
=============================================================================
