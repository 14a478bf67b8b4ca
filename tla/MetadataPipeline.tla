--------------------------- MODULE MetadataPipeline ---------------------------
(***************************************************************************)
(* Who reads and writes the metadata record of an agent: the asynchronous  *)
(* writer with its bounded channel (async_metadata_writer.go), the workers *)
(* of the HTTP heartbeat receiver, the resource monitor's goroutines, the  *)
(* goroutines of StartAgent and the state-change callback, all through the *)
(* one lock of FileMetadataStore (metadata_store.go), and the order in     *)
(* which the Daemon stops them.                                            *)
(*                                                                         *)
(* A critical section of the store's lock is one step; UpdateMetadata,     *)
(* which calls SaveMetadata, takes several.  Of the record only its        *)
(* existence matters: it decides which path UpdateMetadata takes.          *)
(***************************************************************************)
EXTENDS Naturals, Sequences, FiniteSets

CONSTANTS Workers,       \* workers of the heartbeat receiver
          Monitors,      \* resource monitor goroutines
          Starters,      \* goroutines that StartAgent leaves behind
          Notifiers,     \* goroutines in OnAgentStateChange
          Handlers,      \* HTTP goroutines in HandleHeartbeat
          Writer,        \* the goroutine of writeLoop
          None,          \* free lock
          QueueCap,      \* capacity of updateChan (100)
          BatchCap,      \* requests that force a flush (10)
          PoolCap,       \* capacity of workerPool (1000)
          MaxRequests,   \* bound: requests accepted by the writer
          MaxBeats       \* bound: heartbeats received

Clients == Workers \cup Monitors
Goroutines == Clients \cup Starters \cup Notifiers \cup Handlers

ASSUME MetadataAssumption ==
    /\ Writer \notin Goroutines
    /\ None \notin Goroutines \cup {Writer}
    /\ QueueCap \in Nat \ {0} /\ BatchCap \in Nat \ {0} /\ PoolCap \in Nat \ {0}
    /\ MaxRequests \in Nat /\ MaxBeats \in Nat
    /\ IsFiniteSet(Workers) /\ IsFiniteSet(Handlers)
    /\ Workers \cap Monitors = {}
    /\ Starters \cap Clients = {}
    /\ Notifiers \cap (Clients \cup Starters) = {}
    /\ Handlers \cap (Clients \cup Starters \cup Notifiers) = {}

VARIABLES
    holder,     \* who keeps the store's lock across steps, or None
    exists,     \* there is a metadata file
    queue,      \* updateChan: the requests, as records
    batch,      \* the writer's batch
    accepted,   \* requests that entered the channel so far
    applied,    \* identities of the requests handed to the store, in order
    wpc,        \* the writer: select, flush, create, relock, merge or done
    closing,    \* the writer's loop: no, drain or last flush
    pc,         \* where the other goroutines are
    ssmu,       \* holder of the state syncer's lock across steps, or None
    pool,       \* heartbeats in workerPool
    received, processed, errors, refused,    \* heartbeat statistics
    stop,       \* how far the Daemon's Stop has come
    atStop      \* accepted when stopChan was closed

store == <<holder, exists>>
channel == <<queue, accepted>>
writer == <<batch, applied, wpc, closing>>
beats == <<pool, received, processed, errors, refused>>
shutdown == <<stop, atStop>>
vars == <<store, channel, writer, pc, ssmu, beats, shutdown>>

Request == [id : 1 .. MaxRequests, isUpdate : BOOLEAN]

TypeOK ==
    /\ holder \in {None, Writer}
    /\ exists \in BOOLEAN
    /\ queue \in Seq(Request) /\ Len(queue) <= QueueCap
    /\ batch \in Seq(Request) /\ Len(batch) <= BatchCap
    /\ accepted \in 0 .. MaxRequests
    /\ applied \in Seq(1 .. MaxRequests)
    /\ wpc \in {"select", "flush", "create", "relock", "merge", "done"}
    /\ closing \in {"no", "drain", "last"}
    /\ pc \in [Goroutines -> {"idle", "get", "save", "decode", "offer", "exited"}]
    /\ ssmu \in Notifiers \cup {None}
    /\ pool \in 0 .. PoolCap
    /\ received \in 0 .. MaxBeats
    /\ processed \in 0 .. MaxBeats
    /\ errors \in 0 .. MaxBeats
    /\ refused \in 0 .. MaxBeats
    /\ stop \in {"running", "monitor", "receiver", "writer", "done"}
    /\ atStop \in 0 .. MaxRequests

(* The record may be there from an earlier run of the Daemon. *)
Init ==
    /\ holder = None /\ exists \in BOOLEAN
    /\ queue = <<>> /\ batch = <<>> /\ accepted = 0 /\ applied = <<>>
    /\ wpc = "select" /\ closing = "no"
    /\ pc = [g \in Goroutines |-> "idle"]
    /\ ssmu = None
    /\ pool = 0 /\ received = 0 /\ processed = 0 /\ errors = 0 /\ refused = 0
    /\ stop = "running" /\ atStop = 0

Goto(g, label) == pc' = [pc EXCEPT ![g] = label]

-----------------------------------------------------------------------------
(* AsyncMetadataWriter: the callers' side.  A full channel drops the       *)
(* request.  Nothing looks at stopChan, so requests are accepted for ever. *)

Enqueue(isUpdate) ==
    IF Len(queue) < QueueCap
      THEN /\ accepted < MaxRequests
           /\ accepted' = accepted + 1
           /\ queue' = Append(queue, [id |-> accepted + 1, isUpdate |-> isUpdate])
      ELSE UNCHANGED channel

(* StopAgent, RestartAgent and UpdateAgentStatusWhenProcessExits. *)
UpdateStatus ==
    /\ Enqueue(TRUE)
    /\ UNCHANGED <<store, writer, pc, ssmu, beats, shutdown>>

(* StartAgent's goroutine: GetMetadata, then a save of the whole record,   *)
(* unless the record is there and cannot be read.                          *)
StartGet(g) ==
    /\ pc[g] = "get" /\ holder = None
    /\ Goto(g, "save") \/ (exists /\ Goto(g, "idle"))
    /\ UNCHANGED <<store, channel, writer, ssmu, beats, shutdown>>

StartSave(g) ==
    /\ pc[g] = "save"
    /\ Enqueue(FALSE)
    /\ Goto(g, "idle")
    /\ UNCHANGED <<store, writer, ssmu, beats, shutdown>>

StartAgent(g) ==
    /\ pc[g] = "idle"
    /\ Goto(g, "get")
    /\ UNCHANGED <<store, channel, writer, ssmu, beats, shutdown>>

-----------------------------------------------------------------------------
(* AsyncMetadataWriter: writeLoop.  select picks any case that is ready.   *)

(* Mutant: the batch is flushed one request late. *)
TakeOneTooMany ==
    /\ wpc = "select" /\ closing # "last" /\ queue # <<>>
    /\ batch' = Append(batch, Head(queue))
    /\ queue' = Tail(queue)
    /\ wpc' = IF Len(batch') > BatchCap THEN "flush" ELSE "select"
    /\ UNCHANGED <<store, accepted, applied, closing, pc, ssmu, beats, shutdown>>

Take ==
    /\ wpc = "select" /\ closing # "last" /\ queue # <<>>
    /\ batch' = Append(batch, Head(queue))
    /\ queue' = Tail(queue)
    /\ wpc' = IF Len(batch') >= BatchCap THEN "flush" ELSE "select"
    /\ UNCHANGED <<store, accepted, applied, closing, pc, ssmu, beats, shutdown>>

Tick ==
    /\ wpc = "select" /\ closing = "no" /\ batch # <<>>
    /\ wpc' = "flush"
    /\ UNCHANGED <<store, channel, batch, applied, closing, pc, ssmu, beats, shutdown>>

(* Mutant: the batch at hand is forgotten when stopChan is seen. *)
BeginDrainEmptyHanded ==
    /\ wpc = "select" /\ closing = "no" /\ stop = "writer"
    /\ closing' = "drain"
    /\ batch' = <<>>
    /\ UNCHANGED <<store, channel, wpc, applied, pc, ssmu, beats, shutdown>>

(* Mutant: the batch is flushed, the channel is not drained. *)
BeginDrainBatchOnly ==
    /\ wpc = "select" /\ closing = "no" /\ stop = "writer"
    /\ closing' = "last"
    /\ wpc' = IF batch = <<>> THEN "done" ELSE "flush"
    /\ UNCHANGED <<store, channel, batch, applied, pc, ssmu, beats, shutdown>>

(* stopChan is closed: flush, then drain the channel. *)
BeginDrain ==
    /\ wpc = "select" /\ closing = "no" /\ stop = "writer"
    /\ closing' = "drain"
    /\ wpc' = IF batch = <<>> THEN "select" ELSE "flush"
    /\ UNCHANGED <<store, channel, batch, applied, pc, ssmu, beats, shutdown>>

(* The channel is found empty: flush what is left and return. *)
FoundEmpty ==
    /\ wpc = "select" /\ closing = "drain" /\ queue = <<>>
    /\ closing' = "last"
    /\ wpc' = IF batch = <<>> THEN "done" ELSE "flush"
    /\ UNCHANGED <<store, channel, batch, applied, pc, ssmu, beats, shutdown>>

(* The store is done with the first request of the batch. *)
NextRequest ==
    /\ applied' = Append(applied, Head(batch).id)
    /\ batch' = Tail(batch)
    /\ wpc' = IF batch' # <<>> THEN "flush"
              ELSE IF closing = "last" THEN "done" ELSE "select"

(* SaveMetadata replaces the file; an error leaves the old one in place. *)
ApplySave ==
    /\ wpc = "flush" /\ holder = None
    /\ ~Head(batch).isUpdate
    /\ exists' \in {exists, TRUE}
    /\ NextRequest
    /\ UNCHANGED <<holder, channel, closing, pc, ssmu, beats, shutdown>>

(* UpdateMetadata, no record yet: the lock is given up around the call of  *)
(* SaveMetadata and taken again for the deferred Unlock.                   *)
ApplyMissing ==
    /\ wpc = "flush" /\ holder = None
    /\ Head(batch).isUpdate /\ ~exists
    /\ wpc' = "create"
    /\ UNCHANGED <<store, channel, batch, applied, closing, pc, ssmu, beats, shutdown>>

(* UpdateMetadata of a record calls SaveMetadata with the lock held. *)
ApplyMerge ==
    /\ wpc = "flush" /\ holder = None
    /\ Head(batch).isUpdate /\ exists
    /\ holder' = Writer
    /\ wpc' = "merge"
    /\ UNCHANGED <<exists, channel, batch, applied, closing, pc, ssmu, beats, shutdown>>

(* A record that cannot be read or parsed: UpdateMetadata gives up. *)
ApplyUnreadable ==
    /\ wpc = "flush" /\ holder = None
    /\ Head(batch).isUpdate /\ exists
    /\ NextRequest
    /\ UNCHANGED <<store, channel, closing, pc, ssmu, beats, shutdown>>

(* SaveMetadata as UpdateMetadata calls it: it begins with f.mu.Lock(). *)
InnerSave ==
    /\ wpc \in {"create", "merge"} /\ holder = None
    /\ exists' \in {exists, TRUE}
    /\ wpc' = "relock"
    /\ UNCHANGED <<holder, channel, batch, applied, closing, pc, ssmu, beats, shutdown>>

Relock ==
    /\ wpc = "relock" /\ holder = None
    /\ NextRequest
    /\ UNCHANGED <<store, channel, closing, pc, ssmu, beats, shutdown>>

-----------------------------------------------------------------------------
(* HTTPHeartbeatReceiver and ResourceMonitor: read the record, change the  *)
(* copy, save it, in two critical sections of the store.                   *)

(* HandleHeartbeat: it looks whether the receiver is stopped ... *)
Admit(h) ==
    /\ pc[h] = "idle" /\ stop \in {"running", "monitor"}
    /\ Goto(h, "decode")
    /\ UNCHANGED <<store, channel, writer, ssmu, beats, shutdown>>

(* ... and answers a heartbeat that is not valid without counting it ... *)
Reject(h) ==
    /\ pc[h] = "decode"
    /\ Goto(h, "idle")
    /\ UNCHANGED <<store, channel, writer, ssmu, beats, shutdown>>

(* ... or counts it, stopped meanwhile or not ... *)
Receive(h) ==
    /\ pc[h] = "decode" /\ received < MaxBeats
    /\ received' = received + 1
    /\ Goto(h, "offer")
    /\ UNCHANGED <<store, channel, writer, ssmu, pool, processed, errors, refused, shutdown>>

(* ... and its select: the pool, or stopCh, or else the pool is full. *)
Offer(h) ==
    /\ pc[h] = "offer" /\ pool < PoolCap
    /\ pool' = pool + 1
    /\ Goto(h, "idle")
    /\ UNCHANGED <<store, channel, writer, ssmu, received, processed, errors, refused, shutdown>>

Refuse(h) ==
    /\ pc[h] = "offer"
    /\ pool = PoolCap \/ stop \notin {"running", "monitor"}
    /\ refused' = refused + 1
    /\ Goto(h, "idle")
    /\ UNCHANGED <<store, channel, writer, ssmu, pool, received, processed, errors, shutdown>>

WorkerTake(w) ==
    /\ pc[w] = "idle" /\ pool > 0
    /\ pool' = pool - 1
    /\ Goto(w, "get")
    /\ UNCHANGED <<store, channel, writer, ssmu, received, processed, errors, refused, shutdown>>

(* Mutant: a worker waits for heartbeats only, not for stopCh. *)
WorkerExitTooLate(w) ==
    /\ pc[w] = "idle" /\ stop = "writer"
    /\ Goto(w, "exited")
    /\ UNCHANGED <<store, channel, writer, ssmu, beats, shutdown>>

WorkerExit(w) ==
    /\ pc[w] = "idle" /\ stop \notin {"running", "monitor"}
    /\ Goto(w, "exited")
    /\ UNCHANGED <<store, channel, writer, ssmu, beats, shutdown>>

MonitorTick(m) ==
    /\ pc[m] = "idle" /\ stop = "running"
    /\ Goto(m, "get")
    /\ UNCHANGED <<store, channel, writer, ssmu, beats, shutdown>>

ReadRecord(c) ==
    /\ pc[c] = "get" /\ holder = None
    /\ Goto(c, "save")
    /\ UNCHANGED <<store, channel, writer, ssmu, beats, shutdown>>

(* A worker counts how its heartbeat ended.  *)
Counted(c, counter) == IF c \in Workers THEN counter + 1 ELSE counter

(* Mutant: SaveMetadata without the lock. *)
SaveRecordUnlocked(c) ==
    /\ pc[c] = "save"
    /\ exists' = TRUE
    /\ processed' = Counted(c, processed)
    /\ Goto(c, "idle")
    /\ UNCHANGED <<holder, channel, writer, ssmu, pool, received, errors, refused, shutdown>>

SaveRecord(c) ==
    /\ pc[c] = "save" /\ holder = None
    /\ exists' = TRUE
    /\ processed' = Counted(c, processed)
    /\ Goto(c, "idle")
    /\ UNCHANGED <<holder, channel, writer, ssmu, pool, received, errors, refused, shutdown>>

(* Mutant: a failed heartbeat is not counted. *)
ClientFailsUncounted(c) ==
    /\ pc[c] \in {"get", "save"} /\ holder = None
    /\ Goto(c, "idle")
    /\ UNCHANGED <<store, channel, writer, ssmu, beats, shutdown>>

(* The record is unreadable, the agent is unknown, or the write fails. *)
ClientFails(c) ==
    /\ pc[c] \in {"get", "save"} /\ holder = None
    /\ errors' = Counted(c, errors)
    /\ Goto(c, "idle")
    /\ UNCHANGED <<store, channel, writer, ssmu, pool, received, processed, refused, shutdown>>

-----------------------------------------------------------------------------
(* OnAgentStateChange reads the record while it holds the syncer's lock,   *)
(* which collectAgentStates needs for every sync.                          *)

NotifyLock(n) ==
    /\ pc[n] = "idle" /\ ssmu = None
    /\ ssmu' = n
    /\ Goto(n, "get")
    /\ UNCHANGED <<store, channel, writer, beats, shutdown>>

(* Mutant: the callback returns without its unlock. *)
NotifyReadKeepsLock(n) ==
    /\ pc[n] = "get" /\ holder = None
    /\ Goto(n, "idle")
    /\ UNCHANGED <<store, channel, writer, ssmu, beats, shutdown>>

NotifyRead(n) ==
    /\ pc[n] = "get" /\ holder = None
    /\ ssmu' = None
    /\ Goto(n, "idle")
    /\ UNCHANGED <<store, channel, writer, beats, shutdown>>

-----------------------------------------------------------------------------
(* Daemon.Stop, in its order: resourceMonitor.Stop, whose loop waits for   *)
(* the goroutines of the round under way, httpHeartbeatReceiver.Stop,      *)
(* multiAgentManager.Close.                                                *)

StopMonitor ==
    /\ stop = "running"
    /\ stop' = "monitor"
    /\ UNCHANGED <<store, channel, writer, pc, ssmu, beats, atStop>>

StopReceiver ==
    /\ stop = "monitor" /\ \A m \in Monitors : pc[m] = "idle"
    /\ stop' = "receiver"
    /\ UNCHANGED <<store, channel, writer, pc, ssmu, beats, atStop>>

StopWriter ==
    /\ stop = "receiver" /\ \A w \in Workers : pc[w] = "exited"
    /\ stop' = "writer"
    /\ atStop' = accepted
    /\ UNCHANGED <<store, channel, writer, pc, ssmu, beats>>

Stopped ==
    /\ stop = "writer" /\ wpc = "done"
    /\ stop' = "done"
    /\ UNCHANGED <<store, channel, writer, pc, ssmu, beats, atStop>>

-----------------------------------------------------------------------------
WriterStep ==
    \/ Take \/ Tick \/ BeginDrain \/ FoundEmpty
    \/ ApplySave \/ ApplyMissing \/ ApplyMerge \/ ApplyUnreadable
    \/ InnerSave \/ Relock

WorkerStep(w) == WorkerTake(w) \/ WorkerExit(w) \/ ReadRecord(w) \/ SaveRecord(w) \/ ClientFails(w)

MonitorStep(m) == ReadRecord(m) \/ SaveRecord(m) \/ ClientFails(m)

StopStep == StopReceiver \/ StopWriter \/ Stopped

Next ==
    \/ WriterStep
    \/ UpdateStatus
    \/ \E g \in Starters : StartAgent(g) \/ StartGet(g) \/ StartSave(g)
    \/ \E h \in Handlers : Admit(h) \/ Reject(h) \/ Receive(h) \/ Offer(h) \/ Refuse(h)
    \/ \E w \in Workers : WorkerStep(w)
    \/ \E m \in Monitors : MonitorTick(m) \/ MonitorStep(m)
    \/ \E n \in Notifiers : NotifyLock(n) \/ NotifyRead(n)
    \/ StopMonitor \/ StopStep

Spec == Init /\ [][Next]_vars

(* Goroutines run, the ticker fires, and select does not overlook a ready  *)
(* case for ever.  No one has to call, to send a heartbeat or to stop.     *)
Fairness ==
    /\ WF_vars(WriterStep) /\ SF_vars(BeginDrain)
    /\ \A w \in Workers : WF_vars(WorkerStep(w)) /\ SF_vars(WorkerExit(w))
    /\ \A m \in Monitors : WF_vars(MonitorStep(m))
    /\ \A n \in Notifiers : WF_vars(NotifyRead(n))
    /\ WF_vars(StopStep)

FairSpec == Spec /\ Fairness

-----------------------------------------------------------------------------
(* Properties *)

Busy == {w \in Workers : pc[w] \in {"get", "save"}}
Offering == {h \in Handlers : pc[h] = "offer"}

Ids(s) == [i \in 1 .. Len(s) |-> s[i].id]

(* Requests reach the store in the order of the channel and each exactly   *)
(* once, whichever of the writer's three flushes handles them: nothing is  *)
(* lost, repeated or overtaken between channel, batch and store.           *)
AppliedInOrder ==
    applied \o Ids(batch) \o Ids(queue) = [i \in 1 .. accepted |-> i]

(* When Stop has seen the writer return, every request that was accepted   *)
(* before Stop has been handed to the store.                               *)
DrainedAtStop == stop = "done" => Len(applied) >= atStop

(* The abstract log: what is in the batch or the channel waits, and a stop *)
(* is over when the writer's Stop has returned.                            *)
Log == INSTANCE RequestLog WITH
    waiting <- Ids(batch) \o Ids(queue), handed <- applied,
    phase <- IF stop = "done" THEN "closed" ELSE IF stop = "writer" THEN "stopping" ELSE "open",
    promised <- atStop

(* Channel, batch, three flushes and drain together are a log of requests: *)
(* no step of the writer, of its callers or of Stop loses, repeats or      *)
(* reorders one, and Stop returns neither before what it promised has been *)
(* handed to the store nor while anything still can be.                    *)
RefinesLog == Log!Spec

(* No heartbeat disappears from the books: each one received is processed, *)
(* failed, refused, or still with a handler, in the pool or with a worker. *)
BeatsAccounted ==
    received = processed + errors + refused
               + pool + Cardinality(Busy) + Cardinality(Offering)

(* Whoever keeps the store's lock across steps, nobody writes a record     *)
(* under it: the self-deadlocked update freezes the store, it never tears  *)
(* a record.                                                               *)
FrozenUnderLock == [][holder # None => UNCHANGED <<store, applied, processed>>]_vars

(* Stopping the monitor, the receiver and the writer comes to an end,      *)
(* unless an update of an existing record has locked the store for good.   *)
StopReturns == stop = "monitor" ~> (stop = "done" \/ holder # None)

(* A state-change callback gives the syncer's lock back, and so the next   *)
(* round of syncs can collect, under the same proviso.                     *)
CallbackReturns == ssmu # None ~> (ssmu = None \/ holder # None)

(* What the repository says and the code does not do.                      *)

(* The tests of UpdateMetadata update a record that is there and expect    *)
(* the call to come back.                                                  *)
UpdateReturns == wpc = "merge" ~> wpc # "merge"
=============================================================================
