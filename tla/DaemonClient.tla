----------------------------- MODULE DaemonClient -----------------------------
(***************************************************************************)
(* The Manager's connection to the Daemon of one node                      *)
(* (manager/internal/grpc/daemon_client.go): DaemonClientPool with its     *)
(* lock and its entry for the node, DaemonClient with its sync.RWMutex,    *)
(* ensureConnection, Close and the goroutine monitorConnection, and the    *)
(* calls AgentService makes: GetClient, an RPC, CloseClient after an error.*)
(*                                                                         *)
(* An entry that is closed is replaced by a new DaemonClient object, while *)
(* a caller may still use the old one.  The connection itself is gRPC's:   *)
(* its connectivity states change as pick_first changes them.              *)
(***************************************************************************)
EXTENDS Naturals, FiniteSets

CONSTANTS Callers,     \* HTTP goroutines in AgentService
          Closers,     \* the Manager's main goroutine in CloseAll
          Clients,     \* DaemonClient objects; bounds how many are created
          None

Threads == Callers \cup Closers

ASSUME DaemonClientAssumption ==
    /\ Closers \cap Callers = {}
    /\ None \notin Threads \cup Clients

VARIABLES
    pool,       \* who keeps p.mu across steps, or None
    entry,      \* p.clients[nodeID], or None
    wlock,      \* who waits for c.mu.Lock, or has it; it keeps readers out
    conn,       \* the connectivity of c.conn; "none" before NewDaemonClient,
                \* "starting" while a new channel still says it is idle
    cancelled,  \* c.ctx is done
    mpc, mseen, \* monitorConnection: where it is, the state it saw last
    pc, client  \* where a caller is, and the DaemonClient it uses

pools == <<pool, entry>>
monitors == <<mpc, mseen>>
callers == <<pc, client>>
vars == <<pools, wlock, conn, cancelled, monitors, callers>>

States == {"idle", "connecting", "ready", "failure", "shutdown"}

TypeOK ==
    /\ pool \in Threads \cup {None}
    /\ entry \in Clients \cup {None}
    /\ wlock \in [Clients -> Threads \cup {None}]
    /\ conn \in [Clients -> States \cup {"none", "starting"}]
    /\ cancelled \in [Clients -> BOOLEAN]
    /\ mpc \in [Clients -> {"none", "first", "lock", "wait", "exited"}]
    /\ mseen \in [Clients -> States]
    /\ pc \in [Threads -> {"idle", "create", "ensure", "connecting", "look", "want", "reconnect",
                           "dial", "rpc", "close", "closeWant", "closing", "done"}]
    /\ client \in [Threads -> Clients \cup {None}]

Init ==
    /\ pool = None /\ entry = None
    /\ wlock = [c \in Clients |-> None]
    /\ conn = [c \in Clients |-> "none"]
    /\ cancelled = [c \in Clients |-> FALSE]
    /\ mpc = [c \in Clients |-> "none"]
    /\ mseen = [c \in Clients |-> "idle"]
    /\ pc = [t \in Threads |-> "idle"]
    /\ client = [t \in Threads |-> None]

Goto(t, label) == pc' = [pc EXCEPT ![t] = label]

SetConn(c, state) == conn' = [conn EXCEPT ![c] = state]

(* What GetState says. *)
Seen(c) == IF conn[c] = "starting" THEN "idle" ELSE conn[c]

-----------------------------------------------------------------------------
(* DaemonClientPool.GetClient: a look under RLock, another under Lock.     *)

Use(t, c) ==
    /\ client' = [client EXCEPT ![t] = c]
    /\ Goto(t, "ensure")

LookUp(t) ==
    /\ t \in Callers /\ pc[t] = "idle" /\ pool = None
    /\ IF entry = None
         THEN Goto(t, "create") /\ UNCHANGED client
         ELSE Use(t, entry)
    /\ UNCHANGED <<pools, wlock, conn, cancelled, monitors>>

FoundMeanwhile(t) ==
    /\ pc[t] = "create" /\ pool = None /\ entry # None
    /\ Use(t, entry)
    /\ UNCHANGED <<pools, wlock, conn, cancelled, monitors>>

(* NewDaemonClient dials without blocking, so the channel is idle at first *)
(* and leaves that state by itself, and starts the monitor.                *)
NewClient(t) ==
    \E c \in Clients :
       /\ conn[c] = "none"
       /\ SetConn(c, "starting")
       /\ mpc' = [mpc EXCEPT ![c] = "first"]
       /\ entry' = c
       /\ Use(t, c)

(* Mutant of Create: no second look at the map under the write lock. *)
CreateUnseen(t) ==
    /\ pc[t] = "create" /\ pool = None
    /\ NewClient(t)
    /\ UNCHANGED <<pool, wlock, cancelled, mseen>>

Create(t) ==
    /\ pc[t] = "create" /\ pool = None /\ entry = None
    /\ NewClient(t)
    /\ UNCHANGED <<pool, wlock, cancelled, mseen>>

-----------------------------------------------------------------------------
(* ensureConnection *)

(* c.mu.RLock: a writer that waits keeps new readers out. *)
ReadState(t) ==
    /\ pc[t] = "ensure" /\ wlock[client[t]] = None
    /\ Goto(t, CASE conn[client[t]] = "ready" -> "rpc"
                 [] conn[client[t]] = "connecting" -> "connecting"
                 [] OTHER -> "want")
    /\ UNCHANGED <<pools, wlock, conn, cancelled, monitors, client>>

StateChanged(t) ==
    /\ pc[t] = "connecting" /\ conn[client[t]] # "connecting"
    /\ Goto(t, "look")
    /\ UNCHANGED <<pools, wlock, conn, cancelled, monitors, client>>

(* GetState is asked again: what connects anew is used as if it were ready. *)
LookAgain(t) ==
    /\ pc[t] = "look"
    /\ Goto(t, IF conn[client[t]] \in {"ready", "connecting"} THEN "rpc" ELSE "want")
    /\ UNCHANGED <<pools, wlock, conn, cancelled, monitors, client>>

(* The five seconds are over: ErrConnectionFailed, after which             *)
(* AgentService closes the client.                                         *)
WaitTimeout(t) ==
    /\ pc[t] = "connecting"
    /\ Goto(t, "close")
    /\ UNCHANGED <<pools, wlock, conn, cancelled, monitors, client>>

(* c.mu.Lock is called: first come, first to keep readers out. *)
Want(t) ==
    /\ pc[t] \in {"want", "closeWant"} /\ wlock[client[t]] = None
    /\ wlock' = [wlock EXCEPT ![client[t]] = t]
    /\ Goto(t, IF pc[t] = "want" THEN "reconnect" ELSE "closing")
    /\ UNCHANGED <<pools, conn, cancelled, monitors, client>>

(* Mutant of HasLock: the monitor would not keep its read lock. *)
HasLockAnyhow(t, c) == wlock[c] = t

(* The lock is there once monitorConnection does not read-lock it.  *)
HasLock(t, c) == wlock[c] = t /\ mpc[c] # "wait"

Unlock(c) == wlock' = [wlock EXCEPT ![c] = None]

Reconnect(t) ==
    /\ pc[t] = "reconnect" /\ HasLock(t, client[t])
    /\ IF conn[client[t]] = "ready"
         THEN Goto(t, "rpc") /\ Unlock(client[t]) /\ UNCHANGED conn
         ELSE Goto(t, "dial") /\ SetConn(client[t], "shutdown") /\ UNCHANGED wlock
    /\ UNCHANGED <<pools, cancelled, monitors, client>>

DialOk(t) ==
    /\ pc[t] = "dial"
    /\ SetConn(client[t], "ready")
    /\ Unlock(client[t])
    /\ Goto(t, "rpc")
    /\ UNCHANGED <<pools, cancelled, monitors, client>>

(* Mutants of DialFails: the error path does not unlock, or leaves c.conn  *)
(* without a connection.                                                   *)
DialFailsLocked(t) ==
    /\ pc[t] = "dial"
    /\ Goto(t, "close")
    /\ UNCHANGED <<pools, wlock, conn, cancelled, monitors, client>>

DialFailsNil(t) ==
    /\ pc[t] = "dial"
    /\ SetConn(client[t], "nil")
    /\ Unlock(client[t])
    /\ Goto(t, "close")
    /\ UNCHANGED <<pools, cancelled, monitors, client>>

(* Ten seconds without a connection: c.conn stays the closed one. *)
DialFails(t) ==
    /\ pc[t] = "dial"
    /\ Unlock(client[t])
    /\ Goto(t, "close")
    /\ UNCHANGED <<pools, conn, cancelled, monitors, client>>

-----------------------------------------------------------------------------
(* The call itself.  gRPC leaves idle mode for it.  A connection error or  *)
(* a timeout makes AgentService close the client.                          *)
Rpc(t) ==
    /\ pc[t] = "rpc"
    /\ IF conn[client[t]] = "idle" THEN SetConn(client[t], "connecting") ELSE UNCHANGED conn
    /\ \/ Goto(t, "close") /\ UNCHANGED client
       \/ Goto(t, "idle") /\ client' = [client EXCEPT ![t] = None]
    /\ UNCHANGED <<pools, wlock, cancelled, monitors>>

(* CloseClient and CloseAll keep p.mu while they close the client.         *)
AfterClose(t) ==
    /\ Goto(t, IF t \in Closers THEN "done" ELSE "idle")
    /\ client' = [client EXCEPT ![t] = None]

ClosesNow(t) == pc[t] = "close" \/ (t \in Closers /\ pc[t] = "idle")

CloseNothing(t) ==
    /\ ClosesNow(t)
    /\ pool = None /\ entry = None
    /\ AfterClose(t)
    /\ UNCHANGED <<pools, wlock, conn, cancelled, monitors>>

CloseEntry(t) ==
    /\ ClosesNow(t)
    /\ pool = None /\ entry # None
    /\ pool' = t
    /\ client' = [client EXCEPT ![t] = entry]
    /\ Goto(t, "closeWant")
    /\ UNCHANGED <<entry, wlock, conn, cancelled, monitors>>

(* DaemonClient.Close under c.mu, then the entry goes. *)
Close(t) ==
    /\ pc[t] = "closing" /\ HasLock(t, client[t])
    /\ cancelled' = [cancelled EXCEPT ![client[t]] = TRUE]
    /\ SetConn(client[t], "shutdown")
    /\ Unlock(client[t])
    /\ entry' = None /\ pool' = None
    /\ AfterClose(t)
    /\ UNCHANGED monitors

-----------------------------------------------------------------------------
(* monitorConnection: it waits for a change of state WITH c.mu read-locked *)

FirstLook(c) ==
    /\ mpc[c] = "first" /\ wlock[c] = None
    /\ mseen' = [mseen EXCEPT ![c] = Seen(c)]
    /\ mpc' = [mpc EXCEPT ![c] = "lock"]
    /\ UNCHANGED <<pools, wlock, conn, cancelled, callers>>

MonitorLock(c) ==
    /\ mpc[c] = "lock" /\ wlock[c] = None
    /\ mpc' = [mpc EXCEPT ![c] = "wait"]
    /\ UNCHANGED <<pools, wlock, conn, cancelled, mseen, callers>>

MonitorWakes(c) ==
    /\ mpc[c] = "wait" /\ Seen(c) # mseen[c]
    /\ mseen' = [mseen EXCEPT ![c] = Seen(c)]
    /\ mpc' = [mpc EXCEPT ![c] = IF conn[c] = "shutdown" THEN "exited" ELSE "lock"]
    /\ UNCHANGED <<pools, wlock, conn, cancelled, callers>>

MonitorCancelled(c) ==
    /\ mpc[c] = "wait" /\ Seen(c) = mseen[c] /\ cancelled[c]
    /\ mpc' = [mpc EXCEPT ![c] = "exited"]
    /\ UNCHANGED <<pools, wlock, conn, cancelled, mseen, callers>>

-----------------------------------------------------------------------------
(* gRPC.  A connection that is lost, or that the Daemon ends for its age   *)
(* or for being idle, leaves the channel idle until the next call.         *)

Starts(c) ==
    /\ conn[c] = "starting"
    /\ SetConn(c, "connecting")
    /\ UNCHANGED <<pools, wlock, cancelled, monitors, callers>>

Connects(c) ==
    /\ conn[c] = "connecting"
    /\ \E state \in {"ready", "failure"} : SetConn(c, state)
    /\ UNCHANGED <<pools, wlock, cancelled, monitors, callers>>

Retries(c) ==
    /\ conn[c] = "failure"
    /\ SetConn(c, "connecting")
    /\ UNCHANGED <<pools, wlock, cancelled, monitors, callers>>

GoesIdle(c) ==
    /\ conn[c] = "ready"
    /\ SetConn(c, "idle")
    /\ UNCHANGED <<pools, wlock, cancelled, monitors, callers>>

-----------------------------------------------------------------------------
CallStep(t) ==
    \/ FoundMeanwhile(t) \/ Create(t)
    \/ ReadState(t) \/ StateChanged(t) \/ LookAgain(t) \/ WaitTimeout(t)
    \/ Want(t) \/ Reconnect(t) \/ DialOk(t) \/ DialFails(t)
    \/ Rpc(t) \/ CloseNothing(t) \/ CloseEntry(t) \/ Close(t)

MonitorStep(c) == FirstLook(c) \/ MonitorLock(c) \/ MonitorWakes(c) \/ MonitorCancelled(c)

ConnectionStep(c) == Starts(c) \/ Connects(c) \/ Retries(c) \/ GoesIdle(c)

Next ==
    \/ \E t \in Threads : LookUp(t) \/ CallStep(t)
    \/ \E c \in Clients : MonitorStep(c) \/ ConnectionStep(c)

Spec == Init /\ [][Next]_vars

(* Goroutines run, timeouts fire and locks are handed over in turn.  A     *)
(* connection attempt ends, gRPC retries after its backoff, and no         *)
(* connection outlives the Daemon's MaxConnectionAge of 30 minutes.        *)
Fairness ==
    /\ \A t \in Threads : SF_vars(CallStep(t))
    /\ \A c \in Clients : SF_vars(MonitorStep(c)) /\ WF_vars(ConnectionStep(c))

FairSpec == Spec /\ Fairness

-----------------------------------------------------------------------------
(* Properties *)

(* However many callers find no client at once, and whatever old clients   *)
(* they still hold, the one client that has not been closed is the entry:  *)
(* none is created twice, and none is dropped without being closed.        *)
OneOpenClient ==
    \A c \in Clients : conn[c] # "none" /\ ~cancelled[c] => entry = c

(* Two goroutines never dial one client anew at the same time, and none    *)
(* does so while the monitor waits on the connection.                      *)
Rebuilding(c) ==
    {t \in Threads : client[t] = c /\ pc[t] = "dial"}

RebuiltAlone ==
    \A c \in Clients :
       Rebuilding(c) # {} => Cardinality(Rebuilding(c)) = 1 /\ mpc[c] # "wait"

(* A monitor that waits for a change no one is going to make. *)
Stuck(c) ==
    /\ mpc[c] = "wait" /\ conn[c] = mseen[c] /\ ~cancelled[c]
    /\ conn[c] \in {"idle", "shutdown"}

(* The bound on Clients is reached: a state the program does not have. *)
OutOfClients(t) == pc[t] = "create" /\ entry = None /\ \A c \in Clients : conn[c] # "none"

(* The steps that callers, monitors and gRPC have, told by what they wait  *)
(* for: p.mu, c.mu, a change of state.                                     *)
MayCall(t) ==
    \/ pc[t] \in {"connecting", "look", "dial", "rpc"}
    \/ pool = None /\ (ClosesNow(t) \/ (pc[t] = "create" /\ ~OutOfClients(t)))
    \/ pc[t] \in {"ensure", "want", "closeWant"} /\ wlock[client[t]] = None
    \/ pc[t] \in {"reconnect", "closing"} /\ HasLock(t, client[t])

MayMonitor(c) ==
    \/ mpc[c] \in {"first", "lock"} /\ wlock[c] = None
    \/ mpc[c] = "wait" /\ (Seen(c) # mseen[c] \/ cancelled[c])

MayChange(c) == conn[c] \in {"starting", "connecting", "failure", "ready"}

InCall(t) == pc[t] \notin {"idle", "done"} /\ ~OutOfClients(t)

Halted ==
    /\ \E t \in Threads : InCall(t)
    /\ \A t \in Threads : ~MayCall(t)
    /\ \A c \in Clients : ~MayMonitor(c) /\ ~MayChange(c)

Deadlocked ==
    /\ \E t \in Threads : InCall(t)
    /\ ~ENABLED \E t \in Threads : CallStep(t)
    /\ ~ENABLED \E c \in Clients : MonitorStep(c) \/ ConnectionStep(c)

(* Callers, closers and monitors wait for each other's locks in one way    *)
(* only that nobody can end: a monitor keeps a client's lock while its     *)
(* connection is idle or closed.                                           *)
OnlyMonitorsBlock == Deadlocked => Halted /\ \E c \in Clients : Stuck(c)

(* What the repository says and the code does not do.                      *)

(* ensureConnection "tries to reconnect if the connection is down": having *)
(* begun to, it goes on to dial or finds itself connected.                 *)
ReconnectReturns == \A t \in Callers : pc[t] = "reconnect" ~> pc[t] # "reconnect"
=============================================================================
