------------------------ MODULE MetadataPipelineProofs ------------------------
(***************************************************************************)
(* Proofs about MetadataPipeline: types, the order and completeness of     *)
(* what the writer hands to the store, the books of the heartbeat          *)
(* receiver, and the store under its lock, for every number of goroutines  *)
(* and every capacity.                                                     *)
(***************************************************************************)
EXTENDS MetadataPipeline, SequenceTheorems, FiniteSetTheorems, TLAPS

USE MetadataAssumption

(***************************************************************************)
(* The requests: what the channel, the writer and Stop know of them.  This *)
(* part of the inductive invariant stands by itself.                       *)
(***************************************************************************)
RequestTypes ==
    /\ holder \in {None, Writer}
    /\ queue \in Seq(Request) /\ Len(queue) <= QueueCap
    /\ batch \in Seq(Request) /\ Len(batch) <= BatchCap
    /\ accepted \in 0 .. MaxRequests
    /\ applied \in Seq(1 .. MaxRequests)
    /\ wpc \in {"select", "flush", "create", "relock", "merge", "done"}
    /\ closing \in {"no", "drain", "last"}
    /\ stop \in {"running", "monitor", "receiver", "writer", "done"}
    /\ atStop \in 0 .. MaxRequests

(* AppliedInOrder, one request at a time: store, batch and channel hold    *)
(* the requests 1, 2, ... without a gap.                                   *)
InOrder ==
    /\ Len(applied) + Len(batch) + Len(queue) = accepted
    /\ \A i \in 1 .. Len(applied) : applied[i] = i
    /\ \A i \in 1 .. Len(batch) : batch[i].id = Len(applied) + i
    /\ \A i \in 1 .. Len(queue) : queue[i].id = Len(applied) + Len(batch) + i

(* What the writer has in hand where it is; the lock it keeps in "merge".  *)
WriterShape ==
    /\ wpc \in {"flush", "create", "relock", "merge"} => batch # <<>>
    /\ wpc = "select" => Len(batch) < BatchCap /\ closing # "last"
    /\ wpc = "done" => batch = <<>> /\ closing = "last"
    /\ holder = Writer => wpc = "merge"

(* The writer closes after Stop only, and finds the channel empty once:    *)
(* from then on it has, or had, all that was accepted before Stop.         *)
DrainShape ==
    /\ closing # "no" => stop \in {"writer", "done"}
    /\ stop = "done" => wpc = "done"
    /\ atStop <= accepted
    /\ closing = "last" => Len(applied) + Len(batch) >= atStop

RequestInv == RequestTypes /\ InOrder /\ WriterShape /\ DrainShape

(* The steps, as the requests see them. *)
LEMMA RequestSteps ==
    ASSUME [Next]_vars
    PROVE  \/ UNCHANGED <<holder, channel, writer, shutdown>>
           \/ /\ \E isUpdate \in BOOLEAN : Enqueue(isUpdate)
              /\ UNCHANGED <<holder, writer, shutdown>>
           \/ WriterStep
           \/ StopMonitor \/ StopStep
<1>1. CASE UNCHANGED vars
  BY <1>1 DEF vars, store
<1>2. CASE UpdateStatus
  BY <1>2 DEF UpdateStatus, store
<1>3. CASE \E g \in Starters : StartAgent(g) \/ StartGet(g) \/ StartSave(g)
  BY <1>3 DEF StartAgent, StartGet, StartSave, store
<1>4. CASE \E h \in Handlers : Admit(h) \/ Reject(h) \/ Receive(h) \/ Offer(h) \/ Refuse(h)
  BY <1>4 DEF Admit, Reject, Receive, Offer, Refuse, store
<1>5. CASE \E w \in Workers : WorkerStep(w)
  BY <1>5 DEF WorkerStep, WorkerTake, WorkerExit, ReadRecord, SaveRecord, ClientFails,
              store, channel, writer, shutdown
<1>6. CASE \E m \in Monitors : MonitorTick(m) \/ MonitorStep(m)
  BY <1>6 DEF MonitorTick, MonitorStep, ReadRecord, SaveRecord, ClientFails,
         store
<1>7. CASE \E n \in Notifiers : NotifyLock(n) \/ NotifyRead(n)
  BY <1>7 DEF NotifyLock, NotifyRead, store
<1>. QED  BY <1>1, <1>2, <1>3, <1>4, <1>5, <1>6, <1>7 DEF Next

(* A request goes from the channel to the batch ... *)
LEMMA MovesToBatch ==
    ASSUME RequestTypes, InOrder, queue # <<>>,
           batch' = Append(batch, Head(queue)), queue' = Tail(queue),
           UNCHANGED <<applied, accepted>>
    PROVE  /\ InOrder'
           /\ batch' \in Seq(Request) /\ Len(batch') = Len(batch) + 1
           /\ queue' \in Seq(Request) /\ Len(queue') <= Len(queue)
<1>1. /\ Head(queue) \in Request /\ Head(queue) = queue[1]
      /\ Tail(queue) \in Seq(Request) /\ Len(Tail(queue)) = Len(queue) - 1
      /\ \A i \in 1 .. Len(Tail(queue)) : Tail(queue)[i] = queue[i + 1]
  BY HeadTailProperties DEF RequestTypes
<1>2. /\ batch' \in Seq(Request) /\ Len(batch') = Len(batch) + 1
      /\ \A i \in 1 .. Len(batch) : batch'[i] = batch[i]
      /\ batch'[Len(batch) + 1] = Head(queue)
  BY <1>1, AppendProperties DEF RequestTypes
<1>3. /\ Len(applied) \in Nat /\ Len(batch) \in Nat /\ Len(queue) \in Nat \ {0}
  BY LenProperties, EmptySeq DEF RequestTypes
<1>4. ASSUME NEW i \in 1 .. Len(batch')
      PROVE  batch'[i].id = Len(applied) + i
  <2>1. CASE i \in 1 .. Len(batch)
    BY <1>2, <2>1 DEF InOrder
  <2>2. CASE i = Len(batch) + 1
    <3>1. 1 \in 1 .. Len(queue)
      BY <1>3
    <3>2. queue[1].id = Len(applied) + Len(batch) + 1
      BY <3>1 DEF InOrder
    <3>. QED  BY <1>1, <1>2, <1>3, <2>2, <3>2
  <2>. QED  BY <1>2, <1>3, <2>1, <2>2
<1>5. ASSUME NEW i \in 1 .. Len(queue')
      PROVE  queue'[i].id = Len(applied) + Len(batch') + i
  <2>1. i + 1 \in 1 .. Len(queue) /\ queue'[i] = queue[i + 1]
    BY <1>1, <1>3
  <2>2. queue[i + 1].id = Len(applied) + Len(batch) + (i + 1)
    BY <2>1 DEF InOrder
  <2>3. Len(batch') = Len(batch) + 1 /\ i \in Nat
    BY <1>2, <1>3, <1>1
  <2>. QED  BY <1>3, <2>1, <2>2, <2>3
<1>. QED  BY <1>1, <1>2, <1>3, <1>4, <1>5 DEF InOrder

(* ... and from the batch to the store. *)
LEMMA MovesToStore ==
    ASSUME RequestTypes, InOrder, batch # <<>>,
           applied' = Append(applied, Head(batch).id), batch' = Tail(batch),
           UNCHANGED channel
    PROVE  /\ InOrder'
           /\ applied' \in Seq(1 .. MaxRequests) /\ Len(applied') = Len(applied) + 1
           /\ batch' \in Seq(Request) /\ Len(batch') = Len(batch) - 1
<1>1. /\ Head(batch) \in Request /\ Head(batch) = batch[1]
      /\ Tail(batch) \in Seq(Request) /\ Len(Tail(batch)) = Len(batch) - 1
      /\ \A i \in 1 .. Len(Tail(batch)) : Tail(batch)[i] = batch[i + 1]
  BY HeadTailProperties DEF RequestTypes
<1>2. /\ applied' \in Seq(1 .. MaxRequests) /\ Len(applied') = Len(applied) + 1
      /\ \A i \in 1 .. Len(applied) : applied'[i] = applied[i]
      /\ applied'[Len(applied) + 1] = Head(batch).id
  BY <1>1, AppendProperties DEF RequestTypes, Request
<1>3. /\ Len(applied) \in Nat /\ Len(batch) \in Nat \ {0} /\ Len(queue) \in Nat
  BY LenProperties, EmptySeq DEF RequestTypes
<1>4. \A i \in 1 .. Len(applied') : applied'[i] = i
  BY <1>1, <1>2, <1>3 DEF InOrder
<1>5. \A i \in 1 .. Len(batch') : batch'[i].id = Len(applied') + i
  BY <1>1, <1>2, <1>3 DEF InOrder
<1>6. \A i \in 1 .. Len(queue') : queue'[i].id = Len(applied') + Len(batch') + i
  BY <1>1, <1>2, <1>3 DEF InOrder, channel
<1>. QED  BY <1>1, <1>2, <1>3, <1>4, <1>5, <1>6 DEF InOrder, channel

(* A request enters the channel. *)
LEMMA EntersChannel ==
    ASSUME RequestTypes, InOrder, NEW isUpdate \in BOOLEAN, Enqueue(isUpdate),
           UNCHANGED <<batch, applied>>
    PROVE  /\ InOrder'
           /\ queue' \in Seq(Request) /\ Len(queue') <= QueueCap
           /\ accepted' \in 0 .. MaxRequests /\ accepted' >= accepted
<1>1. CASE Len(queue) < QueueCap
  <2> DEFINE new == [id |-> accepted + 1, isUpdate |-> isUpdate]
  <2>1. new \in Request
    BY <1>1 DEF Enqueue, RequestTypes, Request
  <2>2. /\ queue' \in Seq(Request) /\ Len(queue') = Len(queue) + 1
        /\ \A i \in 1 .. Len(queue) : queue'[i] = queue[i]
        /\ queue'[Len(queue) + 1] = new
    <3>1. queue' = Append(queue, new) /\ queue \in Seq(Request)
      BY <1>1 DEF Enqueue, RequestTypes
    <3>. QED  BY ONLY <2>1, <3>1, AppendProperties
  <2>3. /\ Len(applied) \in Nat /\ Len(batch) \in Nat /\ Len(queue) \in Nat
    BY LenProperties DEF RequestTypes
  <2>4. ASSUME NEW i \in 1 .. Len(queue')
        PROVE  queue'[i].id = Len(applied) + Len(batch) + i
    <3>1. CASE i \in 1 .. Len(queue)
      BY <2>2, <3>1 DEF InOrder
    <3>2. CASE i = Len(queue) + 1
      BY <2>2, <2>3, <3>2 DEF InOrder
    <3>. QED  BY <2>2, <2>3, <3>1, <3>2
  <2>5. accepted' = accepted + 1 /\ accepted \in Nat /\ accepted < MaxRequests
    BY <1>1 DEF Enqueue, RequestTypes
  <2>6. Len(applied) + Len(batch) + (Len(queue) + 1) = accepted + 1
    BY <2>3, <2>5 DEF InOrder
  <2>7. InOrder'
    BY <2>2, <2>4, <2>5, <2>6 DEF InOrder
  <2>. QED  BY <1>1, <2>2, <2>3, <2>5, <2>7
<1>2. CASE ~(Len(queue) < QueueCap)
  BY <1>2 DEF Enqueue, InOrder, RequestTypes, channel
<1>. QED  BY <1>1, <1>2

(* The store is done with a request, by whichever way it was handled. *)
LEMMA HandedOver ==
    ASSUME RequestInv, batch # <<>>, NextRequest, holder = None,
           holder' = holder, channel' = channel, closing' = closing, shutdown' = shutdown
    PROVE  RequestInv'
<1> USE DEF RequestInv
<1>1. /\ InOrder'
      /\ applied' \in Seq(1 .. MaxRequests) /\ Len(applied') = Len(applied) + 1
      /\ batch' \in Seq(Request) /\ Len(batch') = Len(batch) - 1
  BY MovesToStore DEF NextRequest
<1>2. /\ Len(applied) \in Nat /\ Len(batch) \in Nat
      /\ batch' = <<>> => Len(batch') = 0
  BY LenProperties, EmptySeq DEF RequestTypes
<1>3. wpc' \in {"flush", "done", "select"}
  BY DEF NextRequest
<1>4. RequestTypes'
  BY <1>1, <1>2, <1>3 DEF RequestTypes, channel, shutdown
<1>5. WriterShape'
  BY <1>2 DEF WriterShape, NextRequest
<1>6. DrainShape'
  BY <1>1, <1>2 DEF DrainShape, RequestTypes, WriterShape, channel, shutdown
<1>. QED  BY <1>1, <1>4, <1>5, <1>6

LEMMA RequestsInit == Init => RequestInv
  BY EmptySeq DEF Init, RequestInv, RequestTypes, InOrder, WriterShape, DrainShape

LEMMA RequestsStep == RequestInv /\ [Next]_vars => RequestInv'
<1> SUFFICES ASSUME RequestInv, [Next]_vars
             PROVE  RequestInv'
  OBVIOUS
<1> USE DEF RequestInv
<1>1. CASE UNCHANGED <<holder, channel, writer, shutdown>>
  BY <1>1 DEF channel, writer, shutdown, RequestTypes, InOrder, WriterShape, DrainShape
<1>2. CASE (\E isUpdate \in BOOLEAN : Enqueue(isUpdate)) /\ UNCHANGED <<holder, writer, shutdown>>
  <2>1. /\ InOrder'
        /\ queue' \in Seq(Request) /\ Len(queue') <= QueueCap
        /\ accepted' \in 0 .. MaxRequests /\ accepted' >= accepted
    BY <1>2, EntersChannel DEF writer
  <2>2. RequestTypes' /\ WriterShape'
    BY <1>2, <2>1 DEF RequestTypes, WriterShape, writer, shutdown
  <2>3. DrainShape'
    BY <1>2, <2>1 DEF RequestTypes, DrainShape, writer, shutdown
  <2>. QED  BY <2>1, <2>2, <2>3
<1>3. CASE Take
  <2>1. /\ InOrder'
        /\ batch' \in Seq(Request) /\ Len(batch') = Len(batch) + 1
        /\ queue' \in Seq(Request) /\ Len(queue') <= Len(queue)
    BY <1>3, MovesToBatch DEF Take
  <2>2. Len(applied) \in Nat /\ Len(batch) \in Nat /\ Len(queue) \in Nat
    BY LenProperties DEF RequestTypes
  <2>3. /\ batch' # <<>>
        /\ Len(batch') >= BatchCap => wpc' = "flush"
        /\ Len(batch') < BatchCap => wpc' = "select"
    BY <1>3, <2>1, <2>2, EmptySeq DEF Take
  <2>4. RequestTypes'
    BY <1>3, <2>1, <2>2, <2>3 DEF Take, RequestTypes, WriterShape, store, shutdown
  <2>5. WriterShape'
    BY <1>3, <2>1, <2>2, <2>3 DEF Take, WriterShape, store
  <2>6. DrainShape'
    BY <1>3, <2>1, <2>2, <2>3 DEF Take, DrainShape, RequestTypes, shutdown
  <2>. QED  BY <2>1, <2>4, <2>5, <2>6
<1>4. CASE Tick
  BY <1>4 DEF Tick, RequestTypes, InOrder, WriterShape, DrainShape, store, channel, shutdown
<1>5. CASE BeginDrain
  BY <1>5 DEF BeginDrain, RequestTypes, InOrder, WriterShape, DrainShape, store, channel, shutdown
<1>6. CASE FoundEmpty
  <2>1. Len(applied) + Len(batch) = accepted
    BY <1>6, EmptySeq, LenProperties DEF FoundEmpty, RequestTypes, InOrder
  <2>2. RequestTypes' /\ InOrder' /\ WriterShape'
    BY <1>6 DEF FoundEmpty, RequestTypes, InOrder, WriterShape, store, channel, shutdown
  <2>3. DrainShape'
    BY <1>6, <2>1 DEF FoundEmpty, RequestTypes, WriterShape, DrainShape, channel, shutdown
  <2>. QED  BY <2>2, <2>3
<1>7. CASE ApplySave
  BY <1>7, HandedOver DEF ApplySave, WriterShape
<1>8. CASE ApplyMissing
  BY <1>8 DEF ApplyMissing, RequestTypes, InOrder, WriterShape, DrainShape, store, channel, shutdown
<1>9. CASE ApplyMerge
  BY <1>9 DEF ApplyMerge, RequestTypes, InOrder, WriterShape, DrainShape, channel, shutdown
<1>10. CASE ApplyUnreadable
  BY <1>10, HandedOver DEF ApplyUnreadable, WriterShape, store
<1>11. CASE InnerSave
  BY <1>11 DEF InnerSave, RequestTypes, InOrder, WriterShape, DrainShape, channel, shutdown
<1>12. CASE Relock
  BY <1>12, HandedOver DEF Relock, WriterShape, store
<1>13. CASE StopMonitor \/ StopReceiver
  BY <1>13 DEF StopMonitor, StopReceiver, RequestTypes, InOrder, WriterShape, DrainShape,
               store, channel, writer
<1>14. CASE StopWriter
  BY <1>14 DEF StopWriter, RequestTypes, InOrder, WriterShape, DrainShape, store, channel, writer
<1>15. CASE Stopped
  BY <1>15 DEF Stopped, RequestTypes, InOrder, WriterShape, DrainShape, store, channel, writer
<1>. QED
  BY <1>1, <1>2, <1>3, <1>4, <1>5, <1>6, <1>7, <1>8, <1>9, <1>10, <1>11, <1>12, <1>13, <1>14,
     <1>15, RequestSteps DEF WriterStep, StopStep

LEMMA RequestsHold == Spec => []RequestInv
  BY RequestsInit, RequestsStep, PTL DEF Spec

(***************************************************************************)
(* Requests reach the store in the order of the channel and each exactly   *)
(* once (writeLoop, flushBatch, the drain after stopChan).                 *)
(***************************************************************************)
THEOREM AppliedInOrderHolds == Spec => []AppliedInOrder
<1>1. RequestInv => AppliedInOrder
  <2> SUFFICES ASSUME RequestInv
               PROVE  AppliedInOrder
    OBVIOUS
  <2> DEFINE b == [i \in 1 .. Len(batch) |-> batch[i].id]
             q == [i \in 1 .. Len(queue) |-> queue[i].id]
             all == [i \in 1 .. accepted |-> i]
  <2>1. /\ Len(applied) \in Nat /\ Len(batch) \in Nat /\ Len(queue) \in Nat
        /\ accepted \in Nat /\ applied \in Seq(Nat)
    BY LenProperties, SeqMonotonic DEF RequestInv, RequestTypes
  <2>2. /\ \A i \in 1 .. Len(batch) : batch[i].id = Len(applied) + i
        /\ \A i \in 1 .. Len(queue) : queue[i].id = Len(applied) + Len(batch) + i
        /\ \A i \in 1 .. Len(applied) : applied[i] = i
        /\ Len(applied) + Len(batch) + Len(queue) = accepted
    BY DEF RequestInv, InOrder
  <2>3. b \in Seq(Nat) /\ Len(b) = Len(batch)
    <3>1. b \in [1 .. Len(batch) -> Nat]
      BY <2>1, <2>2
    <3>. QED  BY <2>1, <3>1, SeqDef
  <2>4. q \in Seq(Nat) /\ Len(q) = Len(queue)
    <3>1. q \in [1 .. Len(queue) -> Nat]
      BY <2>1, <2>2
    <3>. QED  BY <2>1, <3>1, SeqDef
  <2>5. all \in Seq(Nat) /\ Len(all) = accepted
    BY <2>1, SeqDef
  <2>6. /\ applied \o b \in Seq(Nat) /\ Len(applied \o b) = Len(applied) + Len(batch)
        /\ \A i \in 1 .. Len(applied) + Len(batch) : (applied \o b)[i] = i
    <3>1. /\ applied \o b \in Seq(Nat) /\ Len(applied \o b) = Len(applied) + Len(batch)
          /\ \A i \in 1 .. Len(applied) + Len(batch) :
                (applied \o b)[i] = IF i <= Len(applied) THEN applied[i] ELSE b[i - Len(applied)]
      BY <2>1, <2>3, ConcatProperties
    <3>2. ASSUME NEW i \in 1 .. Len(applied) + Len(batch)
          PROVE  (applied \o b)[i] = i
      <4>1. CASE i <= Len(applied)
        BY <2>1, <2>2, <3>1, <4>1
      <4>2. CASE i - Len(applied) \in 1 .. Len(batch)
        BY <2>1, <2>2, <3>1, <4>2
      <4>. QED  BY <2>1, <4>1, <4>2
    <3>. QED  BY <3>1, <3>2
  <2>7. /\ (applied \o b) \o q \in Seq(Nat) /\ Len((applied \o b) \o q) = accepted
        /\ \A i \in 1 .. accepted : ((applied \o b) \o q)[i] = i
    <3> DEFINE ab == applied \o b
    <3>1. /\ ab \o q \in Seq(Nat) /\ Len(ab \o q) = Len(ab) + Len(queue)
          /\ \A i \in 1 .. Len(ab) + Len(queue) :
                (ab \o q)[i] = IF i <= Len(ab) THEN ab[i] ELSE q[i - Len(ab)]
      BY <2>4, <2>6, ConcatProperties
    <3>2. ASSUME NEW i \in 1 .. accepted
          PROVE  (ab \o q)[i] = i
      <4>1. CASE i <= Len(ab)
        BY <2>1, <2>2, <2>6, <3>1, <4>1
      <4>2. CASE i - Len(ab) \in 1 .. Len(queue)
        BY <2>1, <2>2, <2>6, <3>1, <4>2
      <4>. QED  BY <2>1, <2>2, <2>6, <4>1, <4>2
    <3>. QED  BY <2>1, <2>2, <2>6, <3>1, <3>2
  <2>8. (applied \o b) \o q = all
    BY <2>5, <2>7, SeqEqual
  <2>. QED  BY <2>8 DEF AppliedInOrder, Ids
<1>. QED  BY <1>1, RequestsHold, PTL

(***************************************************************************)
(* When Stop has seen the writer return, all that was accepted before Stop *)
(* has been handed to the store (AsyncMetadataWriter.Stop).                *)
(***************************************************************************)
THEOREM DrainedAtStopHolds == Spec => []DrainedAtStop
<1>1. RequestInv => DrainedAtStop
  BY EmptySeq, LenProperties
     DEF RequestInv, RequestTypes, WriterShape, DrainShape, DrainedAtStop
<1>. QED  BY <1>1, RequestsHold, PTL

(***************************************************************************)
(* The refinement of RequestLog.  Batch and channel hold consecutive       *)
(* numbers, so what waits is known from how many requests were accepted    *)
(* and how many handed over.                                               *)
(***************************************************************************)
Waits == Ids(batch) \o Ids(queue)

(* The n numbers after m. *)
Numbers(m, n) == [i \in 1 .. n |-> m + i]

LEMMA NumbersAreSeq ==
    ASSUME NEW m \in Nat, NEW n \in Nat
    PROVE  Numbers(m, n) \in Seq(Nat) /\ Len(Numbers(m, n)) = n
<1>1. Numbers(m, n) \in [1 .. n -> Nat]
  BY DEF Numbers
<1>. QED  BY <1>1, SeqDef

(* One number more at the end. *)
LEMMA NumbersAppend ==
    ASSUME NEW m \in Nat, NEW n \in Nat
    PROVE  Append(Numbers(m, n), m + n + 1) = Numbers(m, n + 1)
<1> DEFINE longer == Append(Numbers(m, n), m + n + 1)
<1>1. Numbers(m, n) \in Seq(Nat) /\ Len(Numbers(m, n)) = n
  BY NumbersAreSeq
<1>2. Numbers(m, n + 1) \in Seq(Nat) /\ Len(Numbers(m, n + 1)) = n + 1
  BY NumbersAreSeq
<1>3. /\ longer \in Seq(Nat) /\ Len(longer) = n + 1
      /\ \A i \in 1 .. n : longer[i] = Numbers(m, n)[i]
      /\ longer[n + 1] = m + n + 1
  BY <1>1, AppendProperties, m + n + 1 \in Nat
<1>4. \A i \in 1 .. n + 1 : longer[i] = Numbers(m, n + 1)[i]
  BY <1>3 DEF Numbers
<1>. QED  BY <1>2, <1>3, <1>4, SeqEqual

(* One number less at the front. *)
LEMMA NumbersTail ==
    ASSUME NEW m \in Nat, NEW n \in Nat \ {0}
    PROVE  /\ Numbers(m, n) # <<>>
           /\ Head(Numbers(m, n)) = m + 1
           /\ Tail(Numbers(m, n)) = Numbers(m + 1, n - 1)
<1> DEFINE rest == Tail(Numbers(m, n))
<1>1. Numbers(m, n) \in Seq(Nat) /\ Len(Numbers(m, n)) = n
  BY NumbersAreSeq
<1>2. Numbers(m, n) # <<>>
  BY <1>1, EmptySeq
<1>3. /\ Head(Numbers(m, n)) = Numbers(m, n)[1]
      /\ rest \in Seq(Nat) /\ Len(rest) = n - 1
      /\ \A i \in 1 .. n - 1 : rest[i] = Numbers(m, n)[i + 1]
  BY <1>1, <1>2, HeadTailProperties
<1>4. Numbers(m + 1, n - 1) \in Seq(Nat) /\ Len(Numbers(m + 1, n - 1)) = n - 1
  BY NumbersAreSeq, m + 1 \in Nat, n - 1 \in Nat
<1>5. \A i \in 1 .. n - 1 : rest[i] = Numbers(m + 1, n - 1)[i]
  BY <1>3 DEF Numbers
<1>6. Head(Numbers(m, n)) = m + 1
  BY <1>3 DEF Numbers
<1>. QED  BY <1>2, <1>3, <1>4, <1>5, <1>6, SeqEqual

LEMMA IdsAreSeq ==
    ASSUME NEW s \in Seq(Request), \A i \in 1 .. Len(s) : s[i].id \in Nat
    PROVE  Ids(s) \in Seq(Nat) /\ Len(Ids(s)) = Len(s)
<1> DEFINE n == Len(s)
           ids == Ids(s)
<1>1. n \in Nat
  BY LenProperties
<1>2. ids \in [1 .. n -> Nat]
  BY DEF Ids
<1> HIDE DEF n, ids
<1>3. ids \in Seq(Nat)
  BY <1>1, <1>2, SeqDef
<1>4. DOMAIN ids = 1 .. n /\ DOMAIN ids = 1 .. Len(ids) /\ Len(ids) \in Nat
  BY <1>2, <1>3, LenProperties
<1>5. Len(ids) = n
  BY <1>1, <1>4
<1>. QED  BY <1>3, <1>5 DEF n, ids

LEMMA ConsecutiveIds ==
    ASSUME NEW m \in Nat, NEW b \in Seq(Request), NEW q \in Seq(Request),
           \A i \in 1 .. Len(b) : b[i].id = m + i,
           \A i \in 1 .. Len(q) : q[i].id = m + Len(b) + i
    PROVE  Ids(b) \o Ids(q) = Numbers(m, Len(b) + Len(q))
<1> DEFINE n == Len(b) + Len(q)
<1>1. Len(b) \in Nat /\ Len(q) \in Nat /\ n \in Nat
  BY LenProperties
<1>2. Ids(b) \in Seq(Nat) /\ Len(Ids(b)) = Len(b)
  BY <1>1, IdsAreSeq
<1>3. Ids(q) \in Seq(Nat) /\ Len(Ids(q)) = Len(q)
  BY <1>1, IdsAreSeq
<1>4. /\ Ids(b) \o Ids(q) \in Seq(Nat) /\ Len(Ids(b) \o Ids(q)) = Len(Ids(b)) + Len(Ids(q))
      /\ \A i \in 1 .. Len(Ids(b)) + Len(Ids(q)) :
            (Ids(b) \o Ids(q))[i] = IF i <= Len(Ids(b)) THEN Ids(b)[i]
                                    ELSE Ids(q)[i - Len(Ids(b))]
  BY ONLY <1>2, <1>3, ConcatProperties
<1>5. ASSUME NEW i \in 1 .. n
      PROVE  (Ids(b) \o Ids(q))[i] = m + i
  <2>1. CASE i <= Len(b)
    <3>1. (Ids(b) \o Ids(q))[i] = Ids(b)[i]
      BY <1>1, <1>2, <1>3, <1>4, <2>1
    <3>2. Ids(b)[i] = m + i
      BY <1>1, <2>1 DEF Ids
    <3>. QED  BY <3>1, <3>2
  <2>2. CASE i - Len(b) \in 1 .. Len(q)
    <3>1. (Ids(b) \o Ids(q))[i] = Ids(q)[i - Len(b)]
      BY <1>1, <1>2, <1>3, <1>4, <2>2
    <3>2. Ids(q)[i - Len(b)] = m + Len(b) + (i - Len(b))
      BY <2>2 DEF Ids
    <3>. QED  BY <1>1, <3>1, <3>2
  <2>3. i <= Len(b) \/ i - Len(b) \in 1 .. Len(q)
    BY <1>1
  <2>. QED  BY <2>1, <2>2, <2>3
<1>6. Numbers(m, n) \in Seq(Nat) /\ Len(Numbers(m, n)) = n
  BY <1>1, NumbersAreSeq
<1>7. \A i \in 1 .. n : (Ids(b) \o Ids(q))[i] = Numbers(m, n)[i]
  BY <1>5 DEF Numbers
<1>. QED  BY <1>2, <1>3, <1>4, <1>6, <1>7, SeqEqual

Consecutive ==
    /\ Len(applied) \in Nat /\ accepted \in Nat /\ Len(applied) <= accepted
    /\ Waits = Numbers(Len(applied), accepted - Len(applied))

LEMMA WaitsAreNumbers == /\ RequestInv => Consecutive
                         /\ RequestInv' => Consecutive'
<1>1. ASSUME RequestInv PROVE Consecutive
  <2>1. /\ Len(applied) \in Nat /\ Len(batch) \in Nat /\ Len(queue) \in Nat
        /\ Len(batch) + Len(queue) = accepted - Len(applied) /\ accepted \in Nat
    BY <1>1, LenProperties DEF RequestInv, RequestTypes, InOrder
  <2>. QED
    <3>1. /\ batch \in Seq(Request) /\ queue \in Seq(Request)
          /\ \A i \in 1 .. Len(batch) : batch[i].id = Len(applied) + i
          /\ \A i \in 1 .. Len(queue) : queue[i].id = Len(applied) + Len(batch) + i
      BY <1>1 DEF RequestInv, RequestTypes, InOrder
    <3>2. Waits = Numbers(Len(applied), Len(batch) + Len(queue))
      BY <2>1, <3>1, ConsecutiveIds DEF Waits
    <3>. QED  BY <2>1, <3>2 DEF Consecutive
<1>2. ASSUME RequestInv' PROVE Consecutive'
  <2>1. /\ Len(applied') \in Nat /\ Len(batch') \in Nat /\ Len(queue') \in Nat
        /\ Len(batch') + Len(queue') = accepted' - Len(applied') /\ accepted' \in Nat
    BY <1>2, LenProperties DEF RequestInv, RequestTypes, InOrder
  <2>. QED
    <3>1. /\ batch' \in Seq(Request) /\ queue' \in Seq(Request)
          /\ \A i \in 1 .. Len(batch') : batch'[i].id = Len(applied') + i
          /\ \A i \in 1 .. Len(queue') : queue'[i].id = Len(applied') + Len(batch') + i
      BY <1>2 DEF RequestInv, RequestTypes, InOrder
    <3>2. Waits' = Numbers(Len(applied'), Len(batch') + Len(queue'))
      BY <2>1, <3>1, ConsecutiveIds DEF Waits
    <3>. QED  BY <2>1, <3>2 DEF Consecutive
<1>. QED  BY <1>1, <1>2

(* Moving requests from the channel to the batch is no step of the log,    *)
(* nor is anything that leaves channel, batch and Stop alone.              *)
LEMMA MoveIsStutter ==
    ASSUME RequestInv, RequestInv', UNCHANGED <<applied, accepted, shutdown>>
    PROVE  UNCHANGED Log!vars
<1>1. Waits' = Waits
  BY WaitsAreNumbers DEF Consecutive
<1>. QED  BY <1>1 DEF Log!vars, Waits, shutdown

LEMMA EnqueueIsAccept ==
    ASSUME RequestInv, RequestInv', accepted' = accepted + 1, UNCHANGED <<applied, shutdown>>
    PROVE  Log!Accept
<1> DEFINE a == Len(applied)
           n == accepted - Len(applied)
<1>1. a \in Nat /\ n \in Nat /\ Waits = Numbers(a, n)
  BY WaitsAreNumbers DEF Consecutive
<1>2. Waits' = Numbers(a, n + 1)
  <2>1. Waits' = Numbers(Len(applied'), accepted' - Len(applied'))
    BY WaitsAreNumbers DEF Consecutive
  <2>2. accepted' - Len(applied') = n + 1 /\ applied' = applied
    BY WaitsAreNumbers DEF Consecutive
  <2>. QED  BY <2>1, <2>2
<1>3. Waits' = Append(Waits, a + n + 1)
  BY <1>1, <1>2, NumbersAppend
<1>4. Len(Waits) = n
  BY <1>1, NumbersAreSeq
<1>. QED  BY <1>3, <1>4 DEF Log!Accept, Waits, shutdown

LEMMA NextIsHandOver ==
    ASSUME RequestInv, RequestInv', batch # <<>>, NextRequest, stop # "done",
           UNCHANGED <<channel, shutdown>>
    PROVE  Log!HandOver
<1> DEFINE a == Len(applied)
           n == accepted - Len(applied)
<1>1. a \in Nat /\ n \in Nat /\ Waits = Numbers(a, n)
  BY WaitsAreNumbers DEF Consecutive
<1>2. Head(batch).id = a + 1 /\ Len(applied') = a + 1
  <2>1. Head(batch) = batch[1] /\ 1 \in 1 .. Len(batch)
    BY EmptySeq, LenProperties, HeadTailProperties DEF RequestInv, RequestTypes
  <2>2. batch[1].id = a + 1
    BY <2>1 DEF RequestInv, InOrder
  <2>3. Len(applied') = a + 1
    BY MovesToStore DEF NextRequest, RequestInv
  <2>. QED  BY <2>1, <2>2, <2>3
<1>3. n \in Nat \ {0} /\ Waits' = Numbers(a + 1, n - 1)
  <2>1. /\ Len(applied') <= accepted' /\ accepted' = accepted
        /\ Waits' = Numbers(Len(applied'), accepted' - Len(applied'))
    BY WaitsAreNumbers DEF Consecutive, channel
  <2>2. accepted \in Nat /\ accepted - (a + 1) = n - 1
    BY WaitsAreNumbers DEF Consecutive
  <2>. QED  BY <1>1, <1>2, <2>1, <2>2
<1>4. Waits # <<>> /\ Head(Waits) = a + 1 /\ Tail(Waits) = Numbers(a + 1, n - 1)
  BY <1>1, <1>3, NumbersTail
<1>5. applied' = Append(applied, Head(Waits)) /\ Waits' = Tail(Waits)
  BY <1>2, <1>3, <1>4 DEF NextRequest
<1>. QED  BY <1>4, <1>5 DEF Log!HandOver, Waits, shutdown

LEMMA StepOfLog ==
    ASSUME RequestInv, RequestInv', [Next]_vars
    PROVE  [Log!Next]_Log!vars
<1>1. CASE UNCHANGED <<holder, channel, writer, shutdown>>
  BY <1>1, MoveIsStutter DEF channel, writer
<1>2. CASE (\E isUpdate \in BOOLEAN : Enqueue(isUpdate)) /\ UNCHANGED <<holder, writer, shutdown>>
  <2>1. CASE accepted' = accepted + 1
    BY <1>2, <2>1, EnqueueIsAccept DEF writer, Log!Next
  <2>2. CASE UNCHANGED channel
    BY <1>2, <2>2, MoveIsStutter DEF writer, channel
  <2>. QED  BY <1>2, <2>1, <2>2 DEF Enqueue
<1>3. CASE Take \/ Tick \/ BeginDrain \/ FoundEmpty \/ ApplyMissing \/ ApplyMerge \/ InnerSave
  BY <1>3, MoveIsStutter
     DEF Take, Tick, BeginDrain, FoundEmpty, ApplyMissing, ApplyMerge, InnerSave, channel
<1>4. CASE ApplySave \/ ApplyUnreadable \/ Relock
  <2>1. batch # <<>> /\ stop # "done"
    BY <1>4 DEF ApplySave, ApplyUnreadable, Relock, RequestInv, WriterShape, DrainShape
  <2>. QED
    BY <1>4, <2>1, NextIsHandOver DEF ApplySave, ApplyUnreadable, Relock, Log!Next
<1>5. CASE StopMonitor \/ StopReceiver
  BY <1>5 DEF StopMonitor, StopReceiver, channel, writer, Log!vars
<1>6. CASE StopWriter
  <2>1. accepted = Len(applied) + Len(Waits)
    <3>1. accepted - Len(applied) \in Nat /\ Len(applied) \in Nat /\ accepted \in Nat
      BY WaitsAreNumbers DEF Consecutive
    <3>2. Len(Numbers(Len(applied), accepted - Len(applied))) = accepted - Len(applied)
      BY ONLY <3>1, NumbersAreSeq
    <3>3. Waits = Numbers(Len(applied), accepted - Len(applied))
      BY WaitsAreNumbers DEF Consecutive
    <3>. QED  BY <3>1, <3>2, <3>3
  <2>. QED  BY <1>6, <2>1 DEF StopWriter, channel, writer, Waits, Log!Next, Log!Stop
<1>7. CASE Stopped
  <2>1. Len(applied) >= atStop
    BY <1>7, EmptySeq, LenProperties
       DEF Stopped, RequestInv, RequestTypes, WriterShape, DrainShape
  <2>. QED  BY <1>7, <2>1 DEF Stopped, channel, writer, Log!Next, Log!Close
<1>. QED
  BY <1>1, <1>2, <1>3, <1>4, <1>5, <1>6, <1>7, RequestSteps DEF WriterStep, StopStep

(***************************************************************************)
(* Channel, batch, flushes, drain and Stop together implement RequestLog   *)
(* (SaveMetadata, UpdateMetadata, writeLoop and Stop of                    *)
(* AsyncMetadataWriter): a request that enters the channel is accepted, a  *)
(* request the store is done with is handed over, Stop stops and closes.   *)
(***************************************************************************)
THEOREM Refinement == Spec => RefinesLog
<1>1. Init => Log!Init
  <2> SUFFICES ASSUME Init
               PROVE  Log!Init
    OBVIOUS
  <2>1. Waits = Numbers(0, 0)
    BY RequestsInit, WaitsAreNumbers, EmptySeq DEF Init, Consecutive
  <2>2. Numbers(0, 0) = <<>>
    BY NumbersAreSeq, EmptySeq
  <2>. QED  BY <2>1, <2>2 DEF Init, Log!Init, Waits
<1>. QED  BY <1>1, StepOfLog, RequestsHold, PTL DEF Spec, RefinesLog, Log!Spec

(***************************************************************************)
(* Whoever keeps the store's lock across steps, nobody writes a record     *)
(* under it (FileMetadataStore's f.mu).                                    *)
(***************************************************************************)
THEOREM FrozenUnderLockHolds == Spec => FrozenUnderLock
<1>1. [Next]_vars => [holder # None => UNCHANGED <<store, applied, processed>>]_vars
  <2> SUFFICES ASSUME Next, holder # None
               PROVE  UNCHANGED <<store, applied, processed>>
    OBVIOUS
  <2> USE DEF store, writer, beats
  <2>1. CASE WriterStep
    BY <2>1 DEF WriterStep, Take, Tick, BeginDrain, FoundEmpty, ApplySave, ApplyMissing,
                ApplyMerge, ApplyUnreadable, InnerSave, Relock
  <2>2. CASE UpdateStatus
    BY <2>2 DEF UpdateStatus
  <2>3. CASE \E g \in Starters : StartAgent(g) \/ StartGet(g) \/ StartSave(g)
    BY <2>3 DEF StartAgent, StartGet, StartSave
  <2>4. CASE \E h \in Handlers : Admit(h) \/ Reject(h) \/ Receive(h) \/ Offer(h) \/ Refuse(h)
    BY <2>4 DEF Admit, Reject, Receive, Offer, Refuse
  <2>5. CASE \E w \in Workers : WorkerStep(w)
    BY <2>5 DEF WorkerStep, WorkerTake, WorkerExit, ReadRecord, SaveRecord, ClientFails
  <2>6. CASE \E m \in Monitors : MonitorTick(m) \/ MonitorStep(m)
    BY <2>6 DEF MonitorTick, MonitorStep, ReadRecord, SaveRecord, ClientFails
  <2>7. CASE \E n \in Notifiers : NotifyLock(n) \/ NotifyRead(n)
    BY <2>7 DEF NotifyLock, NotifyRead
  <2>8. CASE StopMonitor \/ StopStep
    BY <2>8 DEF StopMonitor, StopStep, StopReceiver, StopWriter, Stopped
  <2>. QED  BY <2>1, <2>2, <2>3, <2>4, <2>5, <2>6, <2>7, <2>8 DEF Next
<1>. QED  BY <1>1, PTL DEF Spec, FrozenUnderLock

(***************************************************************************)
(* The goroutines: where they are, and what is theirs.                     *)
(***************************************************************************)
GoroutineTypes ==
    /\ exists \in BOOLEAN
    /\ pc \in [Goroutines -> {"idle", "get", "save", "decode", "offer", "exited"}]
    /\ ssmu \in Notifiers \cup {None}

(* SaveMetadata may create the record, nobody removes it. *)
LEMMA RecordStep ==
    ASSUME exists \in BOOLEAN, [Next]_vars
    PROVE  exists' \in BOOLEAN
<1> USE DEF store
<1>1. CASE UNCHANGED vars
  BY <1>1 DEF vars
<1>2. CASE WriterStep
  BY <1>2, Zenon DEF WriterStep, Take, Tick, BeginDrain, FoundEmpty, ApplySave, ApplyMissing,
                     ApplyMerge, ApplyUnreadable, InnerSave, Relock
<1>3. CASE UpdateStatus
  BY <1>3 DEF UpdateStatus
<1>4. CASE \E g \in Starters : StartAgent(g) \/ StartGet(g) \/ StartSave(g)
  BY <1>4 DEF StartAgent, StartGet, StartSave
<1>5. CASE \E h \in Handlers : Admit(h) \/ Reject(h) \/ Receive(h) \/ Offer(h) \/ Refuse(h)
  BY <1>5 DEF Admit, Reject, Receive, Offer, Refuse
<1>6. CASE \E w \in Workers : WorkerStep(w)
  BY <1>6, Zenon DEF WorkerStep, WorkerTake, WorkerExit, ReadRecord, SaveRecord, ClientFails
<1>7. CASE \E m \in Monitors : MonitorTick(m) \/ MonitorStep(m)
  BY <1>7, Zenon DEF MonitorTick, MonitorStep, ReadRecord, SaveRecord, ClientFails
<1>8. CASE \E n \in Notifiers : NotifyLock(n) \/ NotifyRead(n)
  BY <1>8 DEF NotifyLock, NotifyRead
<1>9. CASE StopMonitor \/ StopStep
  BY <1>9 DEF StopMonitor, StopStep, StopReceiver, StopWriter, Stopped
<1>. QED  BY <1>1, <1>2, <1>3, <1>4, <1>5, <1>6, <1>7, <1>8, <1>9 DEF Next

LEMMA GoroutinesStep == GoroutineTypes /\ [Next]_vars => GoroutineTypes'
<1> SUFFICES ASSUME GoroutineTypes, [Next]_vars
             PROVE  GoroutineTypes'
  OBVIOUS
<1>0. exists' \in BOOLEAN
  BY RecordStep DEF GoroutineTypes
<1> SUFFICES /\ pc' \in [Goroutines -> {"idle", "get", "save", "decode", "offer", "exited"}]
             /\ ssmu' \in Notifiers \cup {None}
  BY <1>0 DEF GoroutineTypes
<1> USE DEF GoroutineTypes, Goroutines, Clients, Goto
<1>1. CASE UNCHANGED vars
  BY <1>1 DEF vars
<1>2. CASE WriterStep
  BY <1>2 DEF WriterStep, Take, Tick, BeginDrain, FoundEmpty, ApplySave, ApplyMissing,
              ApplyMerge, ApplyUnreadable, InnerSave, Relock
<1>3. CASE UpdateStatus
  BY <1>3 DEF UpdateStatus
<1>4. CASE \E g \in Starters : StartAgent(g) \/ StartGet(g) \/ StartSave(g)
  BY <1>4 DEF StartAgent, StartGet, StartSave
<1>5. CASE \E h \in Handlers : Admit(h) \/ Reject(h) \/ Receive(h) \/ Offer(h) \/ Refuse(h)
  BY <1>5 DEF Admit, Reject, Receive, Offer, Refuse
<1>6. CASE \E w \in Workers : WorkerStep(w)
  BY <1>6 DEF WorkerStep, WorkerTake, WorkerExit, ReadRecord, SaveRecord, ClientFails
<1>7. CASE \E m \in Monitors : MonitorTick(m) \/ MonitorStep(m)
  BY <1>7 DEF MonitorTick, MonitorStep, ReadRecord, SaveRecord, ClientFails
<1>8. CASE \E n \in Notifiers : NotifyLock(n) \/ NotifyRead(n)
  BY <1>8 DEF NotifyLock, NotifyRead
<1>9. CASE StopMonitor \/ StopStep
  BY <1>9 DEF StopMonitor, StopStep, StopReceiver, StopWriter, Stopped
<1>. QED  BY <1>1, <1>2, <1>3, <1>4, <1>5, <1>6, <1>7, <1>8, <1>9 DEF Next

LEMMA GoroutinesHold == Spec => []GoroutineTypes
<1>1. Init => GoroutineTypes
  BY DEF Init, GoroutineTypes
<1>. QED  BY <1>1, GoroutinesStep, PTL DEF Spec

(***************************************************************************)
(* The heartbeats.  BeatsAccounted bounds the counters by what has been    *)
(* received.                                                               *)
(***************************************************************************)
BeatInv ==
    /\ pool \in 0 .. PoolCap
    /\ received \in 0 .. MaxBeats
    /\ processed \in Nat /\ errors \in Nat /\ refused \in Nat
    /\ BeatsAccounted

LEMMA CountsAreFinite ==
    /\ IsFiniteSet(Busy) /\ Cardinality(Busy) \in Nat
    /\ IsFiniteSet(Offering) /\ Cardinality(Offering) \in Nat
<1>1. Busy \subseteq Workers /\ Offering \subseteq Handlers
  BY DEF Busy, Offering
<1>. QED  BY <1>1, FS_Subset, FS_CardinalityType

(* Who is neither a worker nor a handler, or is on the same errand before  *)
(* and after, does not count ...                                           *)
LEMMA Uncounted ==
    ASSUME GoroutineTypes, NEW g \in Goroutines, NEW label, Goto(g, label),
           g \in Workers => (pc[g] \in {"get", "save"} <=> label \in {"get", "save"}),
           g \in Handlers => (pc[g] = "offer" <=> label = "offer")
    PROVE  Busy' = Busy /\ Offering' = Offering
  BY DEF GoroutineTypes, Goroutines, Clients, Goto, Busy, Offering

(* ... a worker does from its take of a heartbeat on, until it is done ... *)
LEMMA WorkerBegins ==
    ASSUME GoroutineTypes, NEW w \in Workers, pc[w] = "idle", Goto(w, "get")
    PROVE  Cardinality(Busy') = Cardinality(Busy) + 1 /\ Offering' = Offering
<1>1. Busy' = Busy \cup {w} /\ w \notin Busy /\ Offering' = Offering
  BY DEF GoroutineTypes, Goroutines, Clients, Goto, Busy, Offering
<1>. QED  BY <1>1, CountsAreFinite, FS_AddElement

LEMMA WorkerEnds ==
    ASSUME GoroutineTypes, NEW w \in Workers, pc[w] \in {"get", "save"}, Goto(w, "idle")
    PROVE  Cardinality(Busy') = Cardinality(Busy) - 1 /\ Offering' = Offering
<1>1. Busy' = Busy \ {w} /\ w \in Busy /\ Offering' = Offering
  BY DEF GoroutineTypes, Goroutines, Clients, Goto, Busy, Offering
<1>. QED  BY <1>1, CountsAreFinite, FS_RemoveElement

(* ... and a handler from its count of a heartbeat to its select. *)
LEMMA HandlerBegins ==
    ASSUME GoroutineTypes, NEW h \in Handlers, pc[h] = "decode", Goto(h, "offer")
    PROVE  Cardinality(Offering') = Cardinality(Offering) + 1 /\ Busy' = Busy
<1>1. Offering' = Offering \cup {h} /\ h \notin Offering /\ Busy' = Busy
  BY DEF GoroutineTypes, Goroutines, Goto, Busy, Offering
<1>. QED  BY <1>1, CountsAreFinite, FS_AddElement

LEMMA HandlerEnds ==
    ASSUME GoroutineTypes, NEW h \in Handlers, pc[h] = "offer", Goto(h, "idle")
    PROVE  Cardinality(Offering') = Cardinality(Offering) - 1 /\ Busy' = Busy
<1>1. Offering' = Offering \ {h} /\ h \in Offering /\ Busy' = Busy
  BY DEF GoroutineTypes, Goroutines, Goto, Busy, Offering
<1>. QED  BY <1>1, CountsAreFinite, FS_RemoveElement

LEMMA BeatsStep == GoroutineTypes /\ BeatInv /\ [Next]_vars => BeatInv'
<1> SUFFICES ASSUME GoroutineTypes, BeatInv, [Next]_vars
             PROVE  BeatInv'
  OBVIOUS
<1>0. Cardinality(Busy) \in Nat /\ Cardinality(Offering) \in Nat
  BY CountsAreFinite
<1> USE DEF BeatInv, BeatsAccounted
<1>1. ASSUME UNCHANGED beats, Busy' = Busy, Offering' = Offering
      PROVE  BeatInv'
  BY <1>1 DEF beats
<1>2. ASSUME UNCHANGED <<beats, pc>>
      PROVE  BeatInv'
  BY <1>1, <1>2 DEF Busy, Offering
<1>3. CASE UNCHANGED vars
  BY <1>2, <1>3 DEF vars
<1>4. CASE WriterStep \/ UpdateStatus \/ StopMonitor \/ StopStep
  BY <1>2, <1>4 DEF WriterStep, Take, Tick, BeginDrain, FoundEmpty, ApplySave, ApplyMissing,
                    ApplyMerge, ApplyUnreadable, InnerSave, Relock, UpdateStatus,
                    StopMonitor, StopStep, StopReceiver, StopWriter, Stopped
<1>5. ASSUME NEW g \in Starters \cup Notifiers \cup Monitors, NEW label, Goto(g, label)
      PROVE  Busy' = Busy /\ Offering' = Offering
  <2>1. g \in Goroutines /\ g \notin Workers /\ g \notin Handlers
    BY DEF Goroutines, Clients
  <2>. QED  BY <1>5, <2>1, Uncounted
<1>6. CASE \E g \in Starters : StartAgent(g) \/ StartGet(g) \/ StartSave(g)
  BY <1>1, <1>5, <1>6 DEF StartAgent, StartGet, StartSave
<1>7. CASE \E n \in Notifiers : NotifyLock(n) \/ NotifyRead(n)
  BY <1>1, <1>5, <1>7 DEF NotifyLock, NotifyRead
<1>8. CASE \E m \in Monitors : MonitorTick(m) \/ MonitorStep(m)
  <2> PICK m \in Monitors : MonitorTick(m) \/ MonitorStep(m)
    BY <1>8
  <2>1. m \notin Workers
    OBVIOUS
  <2>. QED
    BY <1>1, <1>5, <2>1 DEF MonitorTick, MonitorStep, ReadRecord, SaveRecord, ClientFails,
                            Counted, beats
<1>9. ASSUME NEW h \in Handlers, Admit(h) \/ Reject(h)
      PROVE  BeatInv'
  <2>1. h \in Goroutines /\ h \notin Workers
    BY DEF Goroutines, Clients
  <2>2. Busy' = Busy /\ Offering' = Offering
    BY <1>9, <2>1, Uncounted DEF Admit, Reject
  <2>. QED  BY <1>1, <1>9, <2>2 DEF Admit, Reject
<1>10. ASSUME NEW h \in Handlers, Receive(h)
       PROVE  BeatInv'
  <2>1. Cardinality(Offering') = Cardinality(Offering) + 1 /\ Busy' = Busy
    BY <1>10, HandlerBegins DEF Receive
  <2>. QED  BY <1>0, <1>10, <2>1 DEF Receive
<1>11. ASSUME NEW h \in Handlers, Offer(h)
       PROVE  BeatInv'
  <2>1. Cardinality(Offering') = Cardinality(Offering) - 1 /\ Busy' = Busy
    BY <1>11, HandlerEnds DEF Offer
  <2>. QED  BY <1>0, <1>11, <2>1 DEF Offer
<1>12. ASSUME NEW h \in Handlers, Refuse(h)
       PROVE  BeatInv'
  <2>1. Cardinality(Offering') = Cardinality(Offering) - 1 /\ Busy' = Busy
    BY <1>12, HandlerEnds DEF Refuse
  <2>. QED  BY <1>0, <1>12, <2>1 DEF Refuse
<1>13. ASSUME NEW w \in Workers, WorkerTake(w)
       PROVE  BeatInv'
  <2>1. Cardinality(Busy') = Cardinality(Busy) + 1 /\ Offering' = Offering
    BY <1>13, WorkerBegins DEF WorkerTake
  <2>. QED  BY <1>0, <1>13, <2>1 DEF WorkerTake
<1>14. ASSUME NEW w \in Workers, WorkerExit(w) \/ ReadRecord(w)
       PROVE  BeatInv'
  <2>1. w \in Goroutines /\ w \notin Handlers
    BY DEF Goroutines, Clients
  <2>2. Busy' = Busy /\ Offering' = Offering
    BY <1>14, <2>1, Uncounted DEF WorkerExit, ReadRecord
  <2>. QED  BY <1>1, <1>14, <2>2 DEF WorkerExit, ReadRecord
<1>15. ASSUME NEW w \in Workers, SaveRecord(w)
       PROVE  BeatInv'
  <2>1. Cardinality(Busy') = Cardinality(Busy) - 1 /\ Offering' = Offering
    BY <1>15, WorkerEnds DEF SaveRecord
  <2>. QED  BY <1>0, <1>15, <2>1 DEF SaveRecord, Counted
<1>16. ASSUME NEW w \in Workers, ClientFails(w)
       PROVE  BeatInv'
  <2>1. Cardinality(Busy') = Cardinality(Busy) - 1 /\ Offering' = Offering
    BY <1>16, WorkerEnds DEF ClientFails
  <2>. QED  BY <1>0, <1>16, <2>1 DEF ClientFails, Counted
<1>. QED
  BY <1>3, <1>4, <1>6, <1>7, <1>8, <1>9, <1>10, <1>11, <1>12, <1>13, <1>14, <1>15,
     <1>16 DEF Next, WorkerStep

LEMMA BeatsHold == Spec => []BeatInv
<1>1. Init => BeatInv
  <2> SUFFICES ASSUME Init
               PROVE  BeatInv
    OBVIOUS
  <2>1. Busy = {} /\ Offering = {}
    BY DEF Init, Busy, Offering, Goroutines, Clients
  <2>. QED  BY <2>1, FS_EmptySet DEF Init, BeatInv, BeatsAccounted
<1>. QED  BY <1>1, BeatsStep, GoroutinesHold, PTL DEF Spec

(***************************************************************************)
(* Each heartbeat received is processed, failed, refused, or still with a  *)
(* handler, in the pool or with a worker (HTTPHeartbeatReceiver's stats).  *)
(***************************************************************************)
THEOREM BeatsAccountedHolds == Spec => []BeatsAccounted
  BY BeatsHold, PTL DEF BeatInv

(***************************************************************************)
(* Channel, batch and pool keep to their capacities, no counter exceeds    *)
(* what was received, and all else keeps its type.                         *)
(***************************************************************************)
THEOREM TypeCorrect == Spec => []TypeOK
<1>1. RequestInv /\ GoroutineTypes /\ BeatInv => TypeOK
  <2> SUFFICES ASSUME RequestInv, GoroutineTypes, BeatInv
               PROVE  TypeOK
    OBVIOUS
  <2>1. processed \in 0 .. MaxBeats /\ errors \in 0 .. MaxBeats /\ refused \in 0 .. MaxBeats
    BY CountsAreFinite DEF BeatInv, BeatsAccounted
  <2>. QED  BY <2>1 DEF TypeOK, RequestInv, RequestTypes, GoroutineTypes, BeatInv
<1>. QED  BY <1>1, RequestsHold, GoroutinesHold, BeatsHold, PTL
=============================================================================
