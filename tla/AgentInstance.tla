---------------------------- MODULE AgentInstance ----------------------------
(***************************************************************************)
(* One agent under the Daemon: AgentInstance (instance.go), the operations *)
(* MultiAgentManager wraps around it, the gRPC handler that calls them and *)
(* the health checker's goroutine for this agent.                          *)
(*                                                                         *)
(* The goroutines are Boot (StartAll, under the daemon's context), one per *)
(* concurrent OperateAgent call (Operators, each under its own RPC         *)
(* context), at most one health checker, and for every process spawned a   *)
(* waiter that runs cmd.Wait and then takes ai.mu.  A critical section of  *)
(* ai.mu is one step, except Stop's, which keeps the lock while it waits   *)
(* for the process to die.  AgentInfo has a lock of its own that is only   *)
(* held for one read or write, so each such access is one step.            *)
(***************************************************************************)
EXTENDS Naturals

CONSTANTS Operators,        \* goroutines that serve OperateAgent
          Boot,             \* the goroutine of StartAll at daemon start
          Checkers,         \* the health checker's goroutine, or none
          Procs,            \* process identifiers the OS may hand out
          None,             \* nil process, PID 0, free lock, finished context
          Calls,            \* the OperateAgent operations in use
          Impatient,        \* operators whose client may give up mid-call
          RestartCountCap   \* restart counts from here on behave alike

Threads == Operators \cup Checkers \cup {Boot}

ASSUME AgentAssumption ==
    /\ None \notin Threads \cup Procs
    /\ Boot \notin Operators \cup Checkers
    /\ Operators \cap Checkers = {}
    /\ Impatient \subseteq Operators
    /\ Calls \subseteq {"start", "stop", "restart"}
    /\ RestartCountCap \in Nat \ {0}

VARIABLES
    mu,               \* holder of ai.mu across steps (only Stop), or None
    process,          \* ai.process
    pid,              \* info.PID
    status,           \* info.Status
    manuallyStopped,  \* ai.manuallyStopped
    restartCount,     \* info.RestartCount, saturated at RestartCountCap
    os,               \* state of each process and of its waiter goroutine
    ctx,              \* goroutine whose context the process is tied to
    pc, call,         \* where a goroutine is, and in which operation
    ctxDone,          \* the RPC context of an operator has ended early
    published         \* status last handed to the metadata writer

info == <<pid, status, restartCount>>
instance == <<mu, process, manuallyStopped>>
system == <<os, ctx>>
threads == <<pc, call, ctxDone>>
vars == <<instance, info, system, threads, published>>

Statuses == {"stopped", "starting", "running", "stopping", "restarting", "failed"}
Labels == {"idle", "start", "spawn", "failed", "restart", "backoff", "probe",
           "stop", "stopWait", "publish",
           "probeAlive", "dead", "markStatus", "markPid", "askManual"}

TypeOK ==
    /\ mu \in Threads \cup {None}
    /\ process \in Procs \cup {None}
    /\ pid \in Procs \cup {None}
    /\ status \in Statuses
    /\ manuallyStopped \in BOOLEAN
    /\ restartCount \in 0 .. RestartCountCap
    /\ os \in [Procs -> {"unused", "alive", "zombie", "reaped"}]
    /\ ctx \in [Procs -> Threads \cup {None}]
    /\ pc \in [Threads -> Labels]
    /\ call \in [Threads -> {"none", "start", "stop", "restart"}]
    /\ ctxDone \in [Threads -> BOOLEAN]
    /\ published \in {"none", "running", "stopped"}

Init ==
    /\ mu = None /\ process = None /\ pid = None
    /\ status = "stopped" /\ manuallyStopped = FALSE /\ restartCount = 0
    /\ os = [p \in Procs |-> "unused"]
    /\ ctx = [p \in Procs |-> None]
    /\ pc = [t \in Threads |-> IF t = Boot THEN "start" ELSE "idle"]
    /\ call = [t \in Threads |-> IF t = Boot THEN "start" ELSE "none"]
    /\ ctxDone = [t \in Threads |-> FALSE]
    /\ published = "none"

-----------------------------------------------------------------------------
(* kill(pid, 0) succeeds until the process has been waited for.  *)
Exists(p) == p # None /\ os[p] \in {"alive", "zombie"}

Booted == pc[Boot] = "idle"

Goto(t, label) == pc' = [pc EXCEPT ![t] = label]

EndContext(t) == ctx' = [p \in Procs |-> IF ctx[p] = t THEN None ELSE ctx[p]]

(* The goroutine's handler returns.  gRPC then cancels the RPC's context,  *)
(* to which exec.CommandContext has tied the process the call spawned.     *)
Return(t) ==
    /\ Goto(t, "idle")
    /\ call' = [call EXCEPT ![t] = "none"]
    /\ ctxDone' = [ctxDone EXCEPT ![t] = FALSE]
    /\ IF t \in Operators THEN EndContext(t) ELSE UNCHANGED ctx

(* A restart begins, on the checker's own initiative. *)
EnterRestart(c) ==
    /\ Goto(c, "restart")
    /\ call' = [call EXCEPT ![c] = "restart"]

-----------------------------------------------------------------------------
(* Start, startInternal *)

StartClear(t) ==
    /\ pc[t] = "start" /\ mu = None
    /\ manuallyStopped' = FALSE
    /\ Goto(t, "spawn")
    /\ UNCHANGED <<mu, process, info, system, call, ctxDone, published>>

SpawnAlready(t) ==
    /\ pc[t] = "spawn" /\ mu = None
    /\ Exists(process)
    /\ Goto(t, "publish")
    /\ UNCHANGED <<instance, info, system, call, ctxDone, published>>

SpawnOk(t) ==
    /\ pc[t] = "spawn" /\ mu = None
    /\ ~Exists(process)
    /\ ~ctxDone[t]
    /\ \E p \in Procs :
          /\ os[p] = "unused"
          /\ process' = p
          /\ pid' = p
          /\ os' = [os EXCEPT ![p] = "alive"]
          /\ ctx' = [ctx EXCEPT ![p] = t]
    /\ status' = "running"
    /\ manuallyStopped' = (manuallyStopped /\ call[t] # "restart")
    /\ Goto(t, "publish")
    /\ UNCHANGED <<mu, restartCount, call, ctxDone, published>>

(* Binary path, log directory, log file or cmd.Start fails; a context that *)
(* is done makes cmd.Start fail.  Start returns the error at once, Restart *)
(* sets the status a second time, outside ai.mu.                           *)
SpawnFail(t) ==
    /\ pc[t] = "spawn" /\ mu = None
    /\ ~Exists(process)
    /\ status' = "failed"
    /\ manuallyStopped' = (manuallyStopped /\ call[t] # "restart")
    /\ IF call[t] = "restart"
         THEN Goto(t, "failed") /\ UNCHANGED <<ctx, call, ctxDone>>
         ELSE Return(t)
    /\ UNCHANGED <<mu, process, pid, restartCount, os, published>>

RestartFailed(t) ==
    /\ pc[t] = "failed"
    /\ status' = "failed"
    /\ Return(t)
    /\ UNCHANGED <<instance, pid, restartCount, os, published>>

-----------------------------------------------------------------------------
(* Stop.  Every caller outside the tests asks for a graceful stop. *)

StopTarget == IF process # None THEN process ELSE pid

AfterStop(t) == IF call[t] = "stop" THEN "publish" ELSE "spawn"

(* Nothing to signal: PID 0, or the process is already gone. *)
StopNothing(t) ==
    /\ pc[t] = "stop" /\ mu = None
    /\ ~(pid # None /\ Exists(StopTarget))
    /\ process' = IF pid = None THEN process ELSE None
    /\ pid' = None
    /\ status' = "stopped"
    /\ manuallyStopped' = TRUE
    /\ Goto(t, AfterStop(t))
    /\ UNCHANGED <<mu, restartCount, system, call, ctxDone, published>>

(* SIGTERM is sent, and the lock kept until the process is gone. *)
StopSignal(t) ==
    /\ pc[t] = "stop" /\ mu = None
    /\ pid # None /\ Exists(StopTarget)
    /\ mu' = t
    /\ process' = StopTarget
    /\ status' = "stopping"
    /\ Goto(t, "stopWait")
    /\ UNCHANGED <<pid, restartCount, manuallyStopped, system, call, ctxDone, published>>

(* The 30 s are over, or the caller's context is done: SIGKILL. *)
StopKill(t) ==
    /\ pc[t] = "stopWait"
    /\ os[process] = "alive"
    /\ os' = [os EXCEPT ![process] = "zombie"]
    /\ UNCHANGED <<instance, info, ctx, threads, published>>

(* Mutants of StopDone: it does not wait for the process, or keeps ai.mu.  *)
StopDoneEarly(t) ==
    /\ pc[t] = "stopWait"
    /\ mu' = None /\ process' = None /\ pid' = None
    /\ status' = "stopped" /\ manuallyStopped' = TRUE
    /\ Goto(t, AfterStop(t))
    /\ UNCHANGED <<restartCount, system, call, ctxDone, published>>

StopDoneLocked(t) ==
    /\ pc[t] = "stopWait" /\ os[process] = "reaped"
    /\ process' = None /\ pid' = None
    /\ status' = "stopped" /\ manuallyStopped' = TRUE
    /\ Goto(t, AfterStop(t))
    /\ UNCHANGED <<mu, restartCount, system, call, ctxDone, published>>

StopDone(t) ==
    /\ pc[t] = "stopWait"
    /\ os[process] = "reaped"
    /\ mu' = None
    /\ process' = None
    /\ pid' = None
    /\ status' = "stopped"
    /\ manuallyStopped' = TRUE
    /\ Goto(t, AfterStop(t))
    /\ UNCHANGED <<restartCount, system, call, ctxDone, published>>

-----------------------------------------------------------------------------
(* Restart *)

(* calculateBackoff: no delay for a first restart or for an operator; a    *)
(* last restart more than five minutes ago resets the count and the delay. *)
RestartBegin(t) ==
    /\ pc[t] = "restart"
    /\ status' = "restarting"
    /\ \/ /\ t \notin Checkers \/ restartCount = 0
          /\ Goto(t, "probe")
          /\ UNCHANGED restartCount
       \/ /\ t \in Checkers /\ restartCount > 0
          /\ Goto(t, "backoff")
          /\ UNCHANGED restartCount
       \/ /\ t \in Checkers /\ restartCount > 0
          /\ restartCount' = 0
          /\ Goto(t, "probe")
    /\ UNCHANGED <<instance, pid, system, call, ctxDone, published>>

BackoffOver(t) ==
    /\ pc[t] = "backoff"
    /\ Goto(t, "probe")
    /\ UNCHANGED <<instance, info, system, call, ctxDone, published>>

RestartProbe(t) ==
    /\ pc[t] = "probe" /\ mu = None
    /\ Goto(t, IF Exists(process) THEN "stop" ELSE "spawn")
    /\ UNCHANGED <<instance, info, system, call, ctxDone, published>>

(* Mutant of Publish: it hands over whatever status it finds. *)
PublishFound(t) ==
    /\ pc[t] = "publish"
    /\ restartCount' = IF call[t] = "restart" /\ restartCount < RestartCountCap
                         THEN restartCount + 1 ELSE restartCount
    /\ published' = IF t = Boot THEN published ELSE status
    /\ Return(t)
    /\ UNCHANGED <<instance, pid, status, os>>

(* StartAgent, StopAgent and RestartAgent hand the new status to the       *)
(* metadata writer; StartAll hands over nothing.                           *)
Publish(t) ==
    /\ pc[t] = "publish"
    /\ restartCount' = IF call[t] = "restart" /\ restartCount < RestartCountCap
                         THEN restartCount + 1 ELSE restartCount
    /\ published' = IF t = Boot THEN published
                    ELSE IF call[t] = "stop" THEN "stopped" ELSE "running"
    /\ Return(t)
    /\ UNCHANGED <<instance, pid, status, os>>

-----------------------------------------------------------------------------
(* The health checker: one round per tick *)

(* A restart count whose last restart is over five minutes old is reset    *)
(* whenever the agent is found healthy, also a manually stopped one.       *)
Healthy(c) ==
    /\ Goto(c, "idle")
    /\ restartCount' \in {restartCount, 0}

CheckerTick(c) ==
    /\ pc[c] = "idle" /\ Booted /\ mu = None
    /\ IF manuallyStopped
         THEN Healthy(c)
         ELSE Goto(c, "probeAlive") /\ UNCHANGED restartCount
    /\ UNCHANGED <<instance, pid, status, system, call, ctxDone, published>>

(* IsRunning, then the resource check, which reads the PID afresh. *)
CheckerFindsDead(c) ==
    /\ pc[c] = "probeAlive" /\ mu = None
    /\ ~Exists(process) \/ pid = None
    /\ Goto(c, "dead")
    /\ UNCHANGED <<instance, info, system, call, ctxDone, published>>

CheckerFindsAlive(c) ==
    /\ pc[c] = "probeAlive" /\ mu = None
    /\ Exists(process) /\ pid # None
    /\ Healthy(c)
    /\ UNCHANGED <<instance, pid, status, system, call, ctxDone, published>>

(* Above a threshold for too long: restarted without asking whether the    *)
(* agent has been stopped by hand in the meantime.                         *)
CheckerFindsOverThreshold(c) ==
    /\ pc[c] = "probeAlive" /\ mu = None
    /\ Exists(process) /\ pid # None
    /\ EnterRestart(c)
    /\ UNCHANGED <<instance, info, system, ctxDone, published>>

(* UpdateAgentStatusWhenProcessExits: a read of the status and two writes, *)
(* none of them under ai.mu.                                               *)
CheckerReadStatus(c) ==
    /\ pc[c] = "dead"
    /\ Goto(c, IF status = "stopped" THEN "askManual" ELSE "markStatus")
    /\ UNCHANGED <<instance, info, system, call, ctxDone, published>>

CheckerMarkStatus(c) ==
    /\ pc[c] = "markStatus"
    /\ status' = "stopped"
    /\ Goto(c, "markPid")
    /\ UNCHANGED <<instance, pid, restartCount, system, call, ctxDone, published>>

CheckerMarkPid(c) ==
    /\ pc[c] = "markPid"
    /\ pid' = None
    /\ published' = "stopped"
    /\ Goto(c, "askManual")
    /\ UNCHANGED <<instance, status, restartCount, system, call, ctxDone>>

(* Mutant of CheckerAskManual: any agent recorded as stopped is left so. *)
CheckerAskStatus(c) ==
    /\ pc[c] = "askManual" /\ mu = None
    /\ IF manuallyStopped \/ status = "stopped"
         THEN Goto(c, "idle") /\ UNCHANGED call ELSE EnterRestart(c)
    /\ UNCHANGED <<instance, info, system, ctxDone, published>>

CheckerAskManual(c) ==
    /\ pc[c] = "askManual" /\ mu = None
    /\ IF manuallyStopped THEN Goto(c, "idle") /\ UNCHANGED call ELSE EnterRestart(c)
    /\ UNCHANGED <<instance, info, system, ctxDone, published>>

-----------------------------------------------------------------------------
(* The gRPC side and the operating system *)

ReceiveCall(t, c) ==
    /\ pc[t] = "idle" /\ Booted
    /\ Goto(t, c)
    /\ call' = [call EXCEPT ![t] = c]
    /\ UNCHANGED <<instance, info, system, ctxDone, published>>

(* The client gives up, or its deadline passes, while the call runs. *)
RpcCancelled(t) ==
    /\ pc[t] # "idle" /\ ~ctxDone[t]
    /\ ctxDone' = [ctxDone EXCEPT ![t] = TRUE]
    /\ EndContext(t)
    /\ UNCHANGED <<instance, info, os, pc, call, published>>

(* The agent exits: after SIGTERM, by itself or by a crash. *)
Exit(p) ==
    /\ os[p] = "alive"
    /\ os' = [os EXCEPT ![p] = "zombie"]
    /\ UNCHANGED <<instance, info, ctx, threads, published>>

(* exec.CommandContext kills the process once its context is done. *)
ContextKill(p) ==
    /\ os[p] = "alive" /\ ctx[p] = None
    /\ os' = [os EXCEPT ![p] = "zombie"]
    /\ UNCHANGED <<instance, info, ctx, threads, published>>

(* wait4 returns, in the waiter goroutine or in Stop. *)
Reap(p) ==
    /\ os[p] = "zombie"
    /\ os' = [os EXCEPT ![p] = "reaped"]
    /\ UNCHANGED <<instance, info, ctx, threads, published>>

(* Mutants of Waiter: one write is missing, or the lock is not taken. *)
WaiterEnds(p) ==
    /\ os[p] = "reaped"
    /\ os' = [os EXCEPT ![p] = "unused"]
    /\ ctx' = [ctx EXCEPT ![p] = None]
    /\ UNCHANGED <<mu, manuallyStopped, restartCount, threads, published>>

WaiterKeepsPid(p) ==
    mu = None /\ process' = None /\ status' = "stopped" /\ UNCHANGED pid /\ WaiterEnds(p)

WaiterKeepsStatus(p) ==
    mu = None /\ process' = None /\ pid' = None /\ UNCHANGED status /\ WaiterEnds(p)

WaiterKeepsHandle(p) ==
    mu = None /\ pid' = None /\ status' = "stopped" /\ UNCHANGED process /\ WaiterEnds(p)

WaiterUnlocked(p) ==
    process' = None /\ pid' = None /\ status' = "stopped" /\ WaiterEnds(p)

(* The waiter goroutine of p.  It clears the instance whatever process the *)
(* instance holds by now.                                                  *)
Waiter(p) ==
    /\ os[p] = "reaped" /\ mu = None
    /\ process' = None
    /\ pid' = None
    /\ status' = "stopped"
    /\ os' = [os EXCEPT ![p] = "unused"]
    /\ ctx' = [ctx EXCEPT ![p] = None]
    /\ UNCHANGED <<mu, manuallyStopped, restartCount, threads, published>>

-----------------------------------------------------------------------------
OperationStep(t) ==
    \/ StartClear(t) \/ SpawnAlready(t) \/ SpawnOk(t) \/ SpawnFail(t)
    \/ RestartFailed(t)
    \/ StopNothing(t) \/ StopSignal(t) \/ StopKill(t) \/ StopDone(t)
    \/ RestartBegin(t) \/ BackoffOver(t) \/ RestartProbe(t)
    \/ Publish(t)

CheckerStep(c) ==
    \/ CheckerTick(c)
    \/ CheckerFindsDead(c) \/ CheckerFindsAlive(c) \/ CheckerFindsOverThreshold(c)
    \/ CheckerReadStatus(c) \/ CheckerMarkStatus(c) \/ CheckerMarkPid(c)
    \/ CheckerAskManual(c)

ThreadStep(t) == OperationStep(t) \/ (t \in Checkers /\ CheckerStep(t))

(* What the runtime and the kernel do about a process, unlike its Exit. *)
ProcessStep(p) == ContextKill(p) \/ Reap(p) \/ Waiter(p)

Next ==
    \/ \E t \in Threads : ThreadStep(t)
    \/ \E t \in Operators, c \in Calls : ReceiveCall(t, c)
    \/ \E t \in Impatient : RpcCancelled(t)
    \/ \E p \in Procs : Exit(p) \/ ProcessStep(p)

Spec == Init /\ [][Next]_vars

(* A goroutine that can run does run; sync.Mutex hands the lock over in    *)
(* its starvation mode, so a goroutine is not passed over for ever.  The   *)
(* 30 s timer and the ticker fire; the kernel delivers SIGKILL and wait4.  *)
(* Nothing is assumed of the agent, of the operators or of spawning.       *)
Fairness ==
    /\ \A t \in Threads : SF_vars(ThreadStep(t))
    /\ \A p \in Procs : SF_vars(ProcessStep(p))

FairSpec == Spec /\ Fairness

-----------------------------------------------------------------------------
(* Properties *)

(* A PID is on record only for the process the instance holds, so a lookup *)
(* by PID in Stop never finds a process other than its own.                *)
PidTracksProcess == pid # None => pid = process

(* "running" is never the recorded status of an instance that holds no     *)
(* process, whoever wrote the status last and in whatever order.           *)
RunningHasProcess == status = "running" => process # None

(* The process handle never outlives the waiter of that process: no        *)
(* signal or liveness probe can reach a PID the OS has handed out again.   *)
HandleIsFresh == process # None => os[process] # "unused"

(* While Stop waits for a process to die, no other goroutine replaces the  *)
(* process or the PID it waits for: it holds ai.mu and there is only one.  *)
StopOwnsProcess ==
    \A t \in Threads : pc[t] = "stopWait" => mu = t /\ process # None

Inv == PidTracksProcess /\ RunningHasProcess /\ HandleIsFresh /\ StopOwnsProcess

(* The instance lets go of a live process in one way only: the waiter of   *)
(* an EARLIER process clears the instance late.  Neither Stop (on any of   *)
(* its paths) nor a restart nor the health checker ever abandons one.      *)
AbandonedOnlyByStaleWaiter ==
    [][\A p \in Procs :
          process = p /\ os[p] = "alive" /\ process' # p
            => \E q \in Procs \ {p} : os[q] = "reaped" /\ os'[q] = "unused"]_vars

(* What of all this concerns the processes is Supervision's: the instance  *)
(* starts none beside a live one it holds, lets go of one only when it, or *)
(* an earlier one, has ended, and is marked as stopped by a stop only.     *)
Life ==
    [p \in Procs |->
        CASE os[p] = "unused" -> "free" [] os[p] = "alive" -> "alive" [] OTHER -> "ended"]

Abstract == INSTANCE Supervision WITH
    held <- process, life <- Life, known <- pid # None, manual <- manuallyStopped

RefinesSupervision == Abstract!Spec

(* Every OperateAgent call returns: Stop's wait, the waiter goroutines and *)
(* the health checker never block one another for ever on ai.mu.           *)
CallsReturn == \A t \in Operators : pc[t] # "idle" ~> pc[t] = "idle"

(* An agent that is down and was not stopped by hand is brought up again   *)
(* by the health checker, or its start is reported as failed.              *)
Recovery ==
    (~Exists(process) /\ ~manuallyStopped)
        ~> (Exists(process) \/ manuallyStopped \/ status = "failed")

(* What the repository says and the code does not do.                      *)

(* "manuallyStopped marks whether the agent was stopped by hand, to keep   *)
(* the health checker from restarting it": once a stop call has returned,  *)
(* only another operator call takes the mark away.                         *)
StopSticks ==
    [][manuallyStopped /\ published = "stopped" /\ (\A o \in Operators : pc[o] = "idle")
         => manuallyStopped']_vars

(* Starting an agent that runs leaves its one process alone: there is      *)
(* never a live process besides the one the instance holds.                *)
SingleProcess == \A p \in Procs : os[p] = "alive" => p = process
=============================================================================
