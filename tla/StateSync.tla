------------------------------ MODULE StateSync ------------------------------
(***************************************************************************)
(* How the Manager's database learns the state of one agent: the Daemon's  *)
(* StateSyncer (state_syncer.go) with its pending reports, the             *)
(* SyncAgentStates call (manager_client.go, daemon_server.go), and the     *)
(* three writers of the agent's row in AgentService: that call, the        *)
(* update after an OperateAgent call, and the manual sync of the web UI.   *)
(*                                                                         *)
(* Status and PID sit behind AgentInfo's own lock and are written and read *)
(* one at a time.  Nothing a sync carries links one agent to another, so   *)
(* one agent is enough.  The metadata store appears as the one thing it    *)
(* can do to a sync: once an update of an existing record has locked it    *)
(* for good (MetadataPipeline), the next callback never comes back, and    *)
(* keeps ss.mu.                                                            *)
(***************************************************************************)
EXTENDS Naturals

CONSTANTS Notifiers,     \* goroutines of notifyStateChange
          Syncer,        \* the goroutine of syncLoop
          Manual,        \* the Manager's goroutine in SyncAgentStatesFromDaemon
          Pids,          \* process identifiers
          None,          \* no report, no row
          MaxAttempts,   \* attempts of one call (3)
          MaxChanges     \* bound: changes of the agent, restarts of the Daemon

Readers == Notifiers \cup {Syncer, Manual}

ASSUME StateSyncAssumption ==
    /\ Pids \subseteq Nat \ {0}
    /\ Syncer \notin Notifiers /\ Manual \notin Notifiers \cup {Syncer}
    /\ MaxAttempts \in Nat \ {0} /\ MaxChanges \in Nat
    /\ None \notin [status : {"running", "stopped"}, pid : Pids \cup {0}]

VARIABLES
    status, pid,   \* the agent, as the Daemon's registry has it
    due,           \* the other half of a change under way, or None
    changes,       \* how many changes there have been
    pending,       \* ss.pendingStates: a report, or None
    pc, report,    \* where a reader is, and what it has read
    request,       \* the attempt under way: none, sent, served or refused
    attempts,      \* attempts made in this call
    late,          \* reports on their way to the row, awaited by no syncer
    db,            \* the Manager's row: status and PID, or None
    opc,           \* the Manager in OperateAgent: idle, update or clear
    op,            \* the status that operation expects
    clean, settled \* what TwoSyncsSuffice counts, see below

agent == <<status, pid, due, changes>>
readers == <<pc, report>>
network == <<request, attempts, late>>
operation == <<opc, op>>
ghost == <<clean, settled>>
vars == <<agent, pending, readers, network, db, operation, ghost>>

Statuses == {"running", "stopped"}
Reports == [status : Statuses, pid : Pids \cup {0}]

TypeOK ==
    /\ status \in Statuses /\ pid \in Pids \cup {0}
    /\ due \in Reports \cup {None}
    /\ changes \in 0 .. MaxChanges
    /\ pending \in Reports \cup {None}
    /\ pc \in [Readers -> {"idle", "read", "have", "stuck"}]
    /\ report \in [Readers -> Reports]
    /\ request \in {"none", "sent", "served", "refused"}
    /\ attempts \in 0 .. MaxAttempts
    /\ late \subseteq Reports
    /\ db \in Reports \cup {None}
    /\ opc \in {"idle", "update", "clear"}
    /\ op \in Statuses
    /\ clean \in BOOLEAN /\ settled \in 0 .. 2

NoReport == [status |-> "stopped", pid |-> 0]

(* A fresh Daemon; the row may be there from an earlier one. *)
Init ==
    /\ status = "stopped" /\ pid = 0 /\ due = None /\ changes = 0
    /\ pending = None
    /\ pc = [r \in Readers |-> "idle"]
    /\ report = [r \in Readers |-> NoReport]
    /\ request = "none" /\ attempts = 0 /\ late = {}
    /\ db \in Reports \cup {None}
    /\ opc = "idle" /\ op = "stopped"
    /\ clean = FALSE /\ settled = 0

-----------------------------------------------------------------------------
(* Bookkeeping for TwoSyncsSuffice.  settled counts the successful syncs   *)
(* since the last disturbance whose collection also began after it.        *)
Disturbed == clean' = FALSE /\ settled' = 0

DisturbedIf(condition) == IF condition THEN Disturbed ELSE UNCHANGED ghost

Current == [status |-> status, pid |-> pid]

Goto(r, label) == pc' = [pc EXCEPT ![r] = label]

(* A reader is done; what it has read is of no more use to anybody. *)
Done(r) ==
    /\ Goto(r, "idle")
    /\ report' = [report EXCEPT ![r] = NoReport]

-----------------------------------------------------------------------------
(* The agent changes: what AgentInstance, its waiter goroutine and the     *)
(* health checker write, status first or PID first.                        *)

Change(new) ==
    /\ due = None /\ changes < MaxChanges
    /\ new # Current
    /\ (new.status = "running") <=> (new.pid # 0)
    /\ changes' = changes + 1
    /\ due' = new
    /\ \/ status' = new.status /\ UNCHANGED pid
       \/ pid' = new.pid /\ UNCHANGED status
    /\ Disturbed
    /\ UNCHANGED <<pending, readers, network, db, operation>>

FinishChange ==
    /\ due # None
    /\ status' = due.status /\ pid' = due.pid
    /\ due' = None
    /\ Disturbed
    /\ UNCHANGED <<changes, pending, readers, network, db, operation>>

(* The Daemon dies and comes back: every agent is registered as stopped,   *)
(* the pending reports are gone, and a request may still be on its way.    *)
DaemonRestart ==
    /\ changes < MaxChanges
    /\ changes' = changes + 1
    /\ status' = "stopped" /\ pid' = 0 /\ due' = None
    /\ pending' = None
    /\ pc' = [r \in Readers |-> "idle"]
    /\ report' = [r \in Readers |-> NoReport]
    /\ late' = IF request = "sent" THEN late \cup {report[Syncer]} ELSE late
    /\ request' = "none" /\ attempts' = 0
    /\ Disturbed
    /\ UNCHANGED <<db, operation>>

-----------------------------------------------------------------------------
(* A callback that waits for the locked store has ss.mu, for good.         *)
SyncerBlocked == \E n \in Notifiers : pc[n] = "stuck"

(* Every reader asks for the status, then for the PID: notifyStateChange's *)
(* goroutine, collectAgentStates, and ListAgents for the manual sync.  Of  *)
(* the three only collectAgentStates takes ss.mu; what they read of the    *)
(* metadata they give up after 100 ms.                                     *)

ReadStatus(r) ==
    /\ pc[r] = "idle"
    /\ r = Syncer => ~SyncerBlocked
    /\ report' = [report EXCEPT ![r].status = status]
    /\ Goto(r, "read")
    /\ IF r = Syncer THEN clean' = TRUE /\ UNCHANGED settled ELSE UNCHANGED ghost
    /\ UNCHANGED <<agent, pending, network, db, operation>>

NotifyRead(n) ==
    /\ pc[n] = "read"
    /\ report' = [report EXCEPT ![n].pid = pid]
    /\ Goto(n, "have")
    /\ UNCHANGED <<agent, pending, network, db, operation, ghost>>

(* OnAgentStateChange: the last callback to get ss.mu wins.  A collection  *)
(* holds ss.mu from its first read to its merge.                           *)
NotifyStore(n) ==
    /\ pc[n] = "have" /\ pc[Syncer] # "read" /\ ~SyncerBlocked
    /\ pending' = report[n]
    /\ Done(n)
    /\ DisturbedIf(report[n] # Current)
    /\ UNCHANGED <<agent, network, db, operation>>

(* It reads the record with ss.mu held and no timeout: the store may have  *)
(* been locked for good by then.                                           *)
NotifyStuck(n) ==
    /\ pc[n] = "have" /\ pc[Syncer] # "read" /\ ~SyncerBlocked
    /\ Goto(n, "stuck")
    /\ UNCHANGED <<agent, pending, report, network, db, operation, ghost>>

-----------------------------------------------------------------------------
(* One round of syncLoop *)

(* collectAgentStates prefers a pending report to what it has just read;   *)
(* the call is sent.                                                       *)
Collect ==
    /\ pc[Syncer] = "read"
    /\ report' = [report EXCEPT ![Syncer] =
                     IF pending # None THEN pending
                     ELSE [status |-> @.status, pid |-> pid]]
    /\ Goto(Syncer, "have")
    /\ request' = "sent" /\ attempts' = 1
    /\ UNCHANGED <<agent, pending, late, db, operation, ghost>>

Sent == report[Syncer]

(* Mutant of Row: a report without a PID is not written at all. *)
RowNeedsPid(m) == IF db = None \/ m.pid # 0 THEN m ELSE db

(* SyncAgentStates: a new row, or an update that leaves out a zero PID. *)
Row(m) ==
    IF db = None THEN m
    ELSE [status |-> m.status, pid |-> IF m.pid # 0 THEN m.pid ELSE db.pid]

Serve ==
    /\ request = "sent"
    /\ db' = Row(Sent)
    /\ request' = "served"
    /\ UNCHANGED <<agent, pending, readers, attempts, late, operation, ghost>>

(* The row cannot be read or written: the error is logged, the loop over   *)
(* the agents goes on, and the answer is success all the same.             *)
ServeSwallowsError ==
    /\ request = "sent"
    /\ request' = "served"
    /\ Disturbed
    /\ UNCHANGED <<agent, pending, readers, attempts, late, db, operation>>

(* The transaction fails as a whole. *)
ServeRefuses ==
    /\ request = "sent"
    /\ request' = "refused"
    /\ UNCHANGED <<agent, pending, readers, attempts, late, db, operation, ghost>>

StillUnderWay == IF request = "sent" THEN late \cup {Sent} ELSE late

(* Mutant of Retry: one attempt too many. *)
RetryOnceMore ==
    /\ request \in {"sent", "served"} /\ attempts <= MaxAttempts
    /\ request' = "sent"
    /\ attempts' = attempts + 1
    /\ late' = StillUnderWay
    /\ UNCHANGED <<agent, pending, readers, db, operation, ghost>>

(* gRPC's retry policy: UNAVAILABLE, before or after the Manager's commit. *)
Retry ==
    /\ request \in {"sent", "served"} /\ attempts < MaxAttempts
    /\ request' = "sent"
    /\ attempts' = attempts + 1
    /\ late' = StillUnderWay
    /\ UNCHANGED <<agent, pending, readers, db, operation, ghost>>

CallOver == Done(Syncer) /\ request' = "none" /\ attempts' = 0

(* Mutant of SyncOk: the pending report outlives the sync. *)
SyncOkKeepsPending ==
    /\ request = "served" /\ ~SyncerBlocked
    /\ CallOver
    /\ settled' = IF clean /\ settled < 2 THEN settled + 1 ELSE settled
    /\ clean' = FALSE
    /\ UNCHANGED <<agent, pending, late, db, operation>>

SyncOk ==
    /\ request = "served" /\ ~SyncerBlocked
    /\ pending' = None
    /\ CallOver
    /\ settled' = IF clean /\ settled < 2 THEN settled + 1 ELSE settled
    /\ clean' = FALSE
    /\ UNCHANGED <<agent, late, db, operation>>

(* Refused, or no answer within ten seconds: what was sent is put back,    *)
(* over whatever has become pending since.                                 *)
SyncFail ==
    /\ request # "none" /\ ~SyncerBlocked
    /\ pending' = Sent
    /\ CallOver
    /\ late' = StillUnderWay
    /\ clean' = FALSE
    /\ settled' = IF Sent # Current THEN 0 ELSE settled
    /\ UNCHANGED <<agent, db, operation>>

(* A request the Daemon has given up on, or what a manual sync has read,   *)
(* reaches the row after all, or is lost.                                  *)
LateServe(m) ==
    /\ db' = Row(m)
    /\ late' = late \ {m}
    /\ DisturbedIf(m # Current)
    /\ UNCHANGED <<agent, pending, readers, request, attempts, operation>>

LateLost(m) ==
    /\ late' = late \ {m}
    /\ UNCHANGED <<agent, pending, readers, request, attempts, db, operation, ghost>>

-----------------------------------------------------------------------------
(* The Manager's own writes *)

(* OperateAgent on the Daemon has succeeded; the answer is on its way. *)
Operated ==
    /\ opc = "idle" /\ db # None /\ due = None
    /\ opc' = "update"
    /\ op' = status
    /\ UNCHANGED <<agent, pending, readers, network, db, ghost>>

(* The expected status is written, its failure only logged ... *)
UpdateRow ==
    /\ opc = "update"
    /\ db' \in {db, [db EXCEPT !.status = op]}
    /\ opc' = IF op = "stopped" THEN "clear" ELSE "idle"
    /\ op' = "stopped"
    /\ DisturbedIf(op # status)
    /\ UNCHANGED <<agent, pending, readers, network>>

(* ... and after a stop ClearPID writes the zero that Update leaves out. *)
ClearPID ==
    /\ opc = "clear"
    /\ db' \in {db, [db EXCEPT !.pid = 0]}
    /\ opc' = "idle"
    /\ DisturbedIf(pid # 0)
    /\ UNCHANGED <<agent, pending, readers, network, op>>

(* SyncAgentStatesFromDaemon: what ListAgents has read is on its way to    *)
(* the row, which it reaches like any other report, unless a step fails.   *)
ManualSync ==
    /\ pc[Manual] = "read"
    /\ late' = late \cup {[status |-> report[Manual].status, pid |-> pid]}
    /\ Done(Manual)
    /\ UNCHANGED <<agent, pending, request, attempts, db, operation, ghost>>

-----------------------------------------------------------------------------
SyncerStep == ReadStatus(Syncer) \/ Collect

NotifierStep(n) == NotifyRead(n) \/ NotifyStore(n) \/ NotifyStuck(n)

LateStep(m) == m \in late /\ (LateServe(m) \/ LateLost(m))

Next ==
    \/ \E new \in Reports : Change(new)
    \/ FinishChange \/ DaemonRestart
    \/ SyncerStep
    \/ Serve \/ ServeSwallowsError \/ ServeRefuses \/ Retry \/ SyncOk \/ SyncFail
    \/ \E m \in Reports : LateStep(m)
    \/ \E n \in Notifiers : ReadStatus(n) \/ NotifierStep(n)
    \/ ReadStatus(Manual) \/ ManualSync
    \/ Operated \/ UpdateRow \/ ClearPID

Spec == Init /\ [][Next]_vars

(* Goroutines run, the ticker of syncLoop fires, and a call ends after ten *)
(* seconds at the latest, where ss.mu can be had.  Calls may fail or go    *)
(* unanswered any number of times in a row, but not for ever: the Manager  *)
(* serves some request again and again, and some call succeeds.            *)
Fairness ==
    /\ WF_vars(FinishChange)
    /\ WF_vars(SyncerStep)
    /\ WF_vars(SyncOk \/ SyncFail) /\ SF_vars(Serve) /\ SF_vars(SyncOk)
    /\ \A m \in Reports : WF_vars(LateStep(m))
    /\ \A n \in Notifiers : WF_vars(NotifierStep(n))
    /\ WF_vars(ManualSync)
    /\ WF_vars(UpdateRow) /\ WF_vars(ClearPID)

FairSpec == Spec /\ Fairness

-----------------------------------------------------------------------------
(* Properties *)

(* The PID of a stopped agent is left out: the row keeps the last one,     *)
(* because Update omits a zero.                                            *)
RowIsCurrent ==
    /\ db # None
    /\ db.status = status
    /\ status = "running" => db.pid = pid

(* After the last change, and once no stale callback, late request or      *)
(* operation of the Manager is left to disturb it, two successful rounds   *)
(* of syncLoop make the Manager's row right: the first may still carry a   *)
(* stale pending report, the second cannot.                                *)
TwoSyncsSuffice == settled = 2 /\ due = None => RowIsCurrent

(* However syncs, callbacks and operations are lost, repeated, delayed or  *)
(* reordered, the row ends up right for good when the agent stops          *)
(* changing (as it does: MaxChanges), except in the one way the code       *)
(* leaves: a callback that waits for a store locked for good ends every    *)
(* later sync of this Daemon, and then the row may stay wrong.             *)
Converges == <>[]RowIsCurrent \/ <>[]SyncerBlocked
=============================================================================
