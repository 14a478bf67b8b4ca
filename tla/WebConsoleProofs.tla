--------------------------- MODULE WebConsoleProofs ---------------------------
(***************************************************************************)
(* Proofs about the pages of WebConsole, for every set of agents and nodes *)
(* and every number of calls.                                              *)
(***************************************************************************)
EXTENDS WebConsole, TLAPS

USE WebConsoleAssumption

(* An entry of the query cache, whatever its data. *)
IsEntry(q) ==
    q \in [data : {q.data}, error : BOOLEAN, invalid : BOOLEAN,
           phase : {"idle", "asked", "read", "paused"}, got : {q.got}]

(***************************************************************************)
(* The agents tab                                                          *)
(***************************************************************************)

(* What each step of its query does to the entry (Query.tla). *)
LEMMA TabBegins ==
    ASSUME NEW q, IsEntry(q)
    PROVE  /\ IsEntry(Tab!Q!Begin(q))
           /\ Tab!Q!Begin(q).phase = "asked" /\ Tab!Q!Begin(q).data = q.data
  BY DEF IsEntry, Tab!Q!Begin

LEMMA TabFetches ==
    ASSUME NEW q, IsEntry(q)
    PROVE  /\ IsEntry(Tab!Q!Fetch(q)) /\ Tab!Q!Fetch(q).data = q.data
           /\ IF q.phase = "idle" THEN Tab!Q!Fetch(q).phase = "asked" ELSE Tab!Q!Fetch(q) = q
  BY TabBegins DEF Tab!Q!Fetch, Tab!Q!Idle

LEMMA TabRefetches ==
    ASSUME NEW q, IsEntry(q)
    PROVE  /\ IsEntry(Tab!Q!Refetch(q)) /\ Tab!Q!Refetch(q).data = q.data
           /\ q.data # None => Tab!Q!Refetch(q).phase = "asked"
           /\ Tab!Q!Refetch(q) = q \/ Tab!Q!Refetch(q).phase = "asked"
  BY TabBegins, TabFetches DEF Tab!Q!Refetch

LEMMA TabInvalidates ==
    ASSUME NEW q, IsEntry(q), NEW watched \in BOOLEAN
    PROVE  LET r == Tab!Q!Invalidate(q, watched)
           IN  /\ IsEntry(r) /\ r.data = q.data
               /\ q.data # None /\ watched => r.phase = "asked"
               /\ \/ r.phase = "asked"
                  \/ r.phase = q.phase /\ r.got = q.got /\ r.error = q.error
  <1> DEFINE out == [q EXCEPT !.invalid = q.data # None]
  <1>1. /\ IsEntry(out) /\ out.data = q.data /\ out.phase = q.phase
        /\ out.got = q.got /\ out.error = q.error
    BY DEF IsEntry
  <1>2. Tab!Q!Invalidate(q, watched) = IF watched THEN Tab!Q!Refetch(out) ELSE out
    BY DEF Tab!Q!Invalidate
  <1> HIDE DEF out
  <1>. QED  BY <1>1, <1>2, TabRefetches

LEMMA TabAnswers ==
    ASSUME NEW q, IsEntry(q), NEW d
    PROVE  /\ IsEntry(Tab!Q!Read(q, d)) /\ Tab!Q!Read(q, d).data = q.data
           /\ Tab!Q!Read(q, d).phase = "read" /\ Tab!Q!Read(q, d).got = d
           /\ IsEntry(Tab!Q!Succeed(q)) /\ Tab!Q!Succeed(q).data = q.got
           /\ Tab!Q!Succeed(q).phase = "idle"
           /\ IsEntry(Tab!Q!Fail(q)) /\ Tab!Q!Fail(q).data = q.data
           /\ Tab!Q!Fail(q).phase = "idle" /\ Tab!Q!Fail(q).error
  BY DEF IsEntry, Tab!Q!Read, Tab!Q!Succeed, Tab!Q!Empty, Tab!Q!Fail

LEMMA TabWaits ==
    ASSUME NEW q, IsEntry(q)
    PROVE  /\ IsEntry(Tab!Q!Pause(q)) /\ Tab!Q!Pause(q).data = q.data
           /\ Tab!Q!Pause(q).phase = "paused"
           /\ \A watched, stale \in BOOLEAN :
                LET r == Tab!Q!Reconnect(q, watched, stale)
                IN  IsEntry(r) /\ r.data = q.data /\ (r = q \/ r.phase = "asked")
  <1>1. /\ IsEntry(Tab!Q!Pause(q)) /\ Tab!Q!Pause(q).data = q.data
        /\ Tab!Q!Pause(q).phase = "paused"
    BY DEF IsEntry, Tab!Q!Pause
  <1>2. \A stale \in BOOLEAN :
          LET r == Tab!Q!Mount(q, stale)
          IN  IsEntry(r) /\ r.data = q.data /\ (r = q \/ r.phase = "asked")
    BY TabFetches DEF Tab!Q!Mount
  <1> DEFINE again == [q EXCEPT !.phase = "asked"]
  <1>3. IsEntry(again) /\ again.data = q.data /\ again.phase = "asked"
    BY DEF IsEntry
  <1>4. \A watched, stale \in BOOLEAN :
          Tab!Q!Reconnect(q, watched, stale) =
            IF q.phase = "paused" THEN again
            ELSE IF watched THEN Tab!Q!Mount(q, stale) ELSE q
    BY DEF Tab!Q!Reconnect
  <1> HIDE DEF again
  <1>. QED  BY <1>1, <1>2, <1>3, <1>4

(* The inductive invariant: nothing in the tab is ahead of the Manager's    *)
(* rows, and the answer under way is behind neither the list it replaces    *)
(* nor the calls answered.                                                  *)
Listed ==
    /\ rows \in Tab!Lists /\ shown \in BOOLEAN /\ calls \subseteq Tab!Calls
    /\ IsEntry(list)
    /\ list.data # None => list.data.at \in Nat /\ list.data.at <= rows.at
    /\ list.phase = "read" =>
        /\ list.got # None /\ list.got.at \in Nat /\ list.got.at <= rows.at
        /\ list.data # None => list.data.at <= list.got.at
        /\ expected <= list.got.at
    /\ list.phase = "idle" => list.data # None \/ list.error
    /\ \A c \in calls : c.at # None => c.at <= rows.at
    /\ expected \in Nat /\ expected <= rows.at

Shows == Listed /\ OperationShown

LEMMA ShowsInit == Init => Shows
  <1> SUFFICES ASSUME Tab!Init PROVE Shows
    BY DEF Init
  <1>1. IsEntry(Tab!Q!Empty) /\ Tab!Q!Empty.phase = "idle" /\ Tab!Q!Empty.data = None
    BY DEF IsEntry, Tab!Q!Empty
  <1>2. IsEntry(list) /\ list.phase = "asked" /\ list.data = None
    BY <1>1, TabFetches DEF Tab!Init
  <1>. QED
    BY <1>2 DEF Tab!Init, Tab!Lists, Tab!Statuses, Shows, Listed, OperationShown,
                Tab!OperationShown

(* Steps that leave the rows and the calls alone. *)
LEMMA ShowsFetch ==
    ASSUME Shows, UNCHANGED <<rows, calls, expected>>, shown' \in BOOLEAN,
           IsEntry(list'), list'.data = list.data,
           list' = list \/ list'.phase \in {"asked", "paused"}
    PROVE  Shows'
  BY DEF Shows, Listed, OperationShown, Tab!OperationShown

LEMMA ShowsKept ==
    ASSUME Shows, [Next]_vars
    PROVE  Shows' /\ (list.data # None => list'.data # None /\ list'.data.at >= list.data.at)
<1> USE DEF Tab!tab
<1>1. CASE UNCHANGED tabVars
  BY <1>1 DEF tabVars, Shows, Listed, OperationShown, Tab!OperationShown
<1>2. CASE \/ Tab!Poll \/ Tab!Refresh \/ Tab!Pause
           \/ \E stale \in BOOLEAN : Tab!Return(stale) \/ Tab!Reconnect(stale)
  <2>1. IsEntry(list)
    BY DEF Shows, Listed
  <2>2. \A stale : LET r == Tab!Q!Mount(list, stale)
                   IN  IsEntry(r) /\ r.data = list.data /\ (r = list \/ r.phase = "asked")
    BY <2>1, TabFetches DEF Tab!Q!Mount
  <2>3. /\ IsEntry(list') /\ list'.data = list.data
        /\ list' = list \/ list'.phase \in {"asked", "paused"}
        /\ UNCHANGED <<rows, calls, expected>> /\ shown' \in BOOLEAN
    <3>1. CASE Tab!Poll
      BY <2>1, <3>1, TabFetches DEF Tab!Poll, Shows, Listed
    <3>2. CASE Tab!Refresh
      BY <2>1, <3>2, TabRefetches DEF Tab!Refresh, Shows, Listed
    <3>3. ASSUME NEW stale \in BOOLEAN, Tab!Return(stale)
          PROVE  /\ IsEntry(list') /\ list'.data = list.data
                 /\ list' = list \/ list'.phase = "asked"
                 /\ UNCHANGED <<rows, calls, expected>> /\ shown' \in BOOLEAN
      BY <2>2, <3>3 DEF Tab!Return
    <3>4. CASE Tab!Pause
      BY <2>1, <3>4, TabWaits DEF Tab!Pause, Shows, Listed
    <3>5. ASSUME NEW stale \in BOOLEAN, Tab!Reconnect(stale)
          PROVE  /\ IsEntry(list') /\ list'.data = list.data
                 /\ list' = list \/ list'.phase = "asked"
                 /\ UNCHANGED <<rows, calls, expected>> /\ shown' \in BOOLEAN
      BY <2>1, <3>5, TabWaits DEF Tab!Reconnect, Shows, Listed
    <3>. QED  BY <1>2, <3>1, <3>2, <3>3, <3>4, <3>5
  <2>. QED  BY <2>3, ShowsFetch DEF Shows, Listed
<1>3. CASE Tab!ReadList
  <2>1. /\ UNCHANGED <<rows, shown, calls, expected>>
        /\ IsEntry(list') /\ list'.data = list.data
        /\ list'.phase = "read" /\ list'.got = rows
    BY <1>3, TabAnswers DEF Tab!ReadList, Shows, Listed
  <2>2. rows.at \in Nat /\ rows # None
    BY DEF Shows, Listed, Tab!Lists
  <2>. QED
    BY <2>1, <2>2 DEF Shows, Listed, OperationShown, Tab!OperationShown
<1>4. CASE Tab!ListOk
  <2>1. /\ UNCHANGED <<rows, shown, calls, expected>>
        /\ IsEntry(list') /\ list'.data = list.got
        /\ list'.phase = "idle" /\ list.phase = "read"
    BY <1>4, TabAnswers DEF Tab!ListOk, Shows, Listed
  <2>. QED
    BY <2>1 DEF Shows, Listed, OperationShown, Tab!OperationShown
<1>5. CASE Tab!ListFails
  BY <1>5, TabAnswers
     DEF Tab!ListFails, Shows, Listed, OperationShown, Tab!OperationShown
<1>6. ASSUME NEW kind \in Tab!Mutations, NEW op \in Tab!Operations,
             Tab!Send(kind, First, op)
      PROVE  Shows' /\ list' = list
  <2>1. calls' \subseteq Tab!Calls /\ \A c \in calls' : c \in calls \/ c.at = None
    <3> DEFINE c == [kind |-> kind, agent |-> First, op |-> op, mine |-> TRUE, at |-> None]
    <3>1. c \in Tab!Calls /\ c.at = None
      BY DEF Tab!Calls
    <3>2. calls' = calls \cup {c}
      BY <1>6 DEF Tab!Send
    <3>. QED  BY <3>1, <3>2 DEF Shows, Listed
  <2>. QED
    BY <1>6, <2>1 DEF Tab!Send, Shows, Listed, OperationShown, Tab!OperationShown
<1>7. CASE Tab!Sync \/ \E a \in {First}, op \in Tab!Operations : Tab!Operate(a, op)
  <2>1. (CHOOSE a \in {First} : TRUE) = First
    OBVIOUS
  <2>. QED
    BY <1>6, <1>7, <2>1
       DEF Tab!Sync, Tab!Operate, Tab!Mutations, Tab!Operations, Shows, Listed
<1>8. ASSUME NEW c \in calls, Tab!Serve(c)
      PROVE  Shows' /\ list' = list
  <2>1. /\ rows.at \in 0 .. MaxCalls /\ rows.at < MaxCalls
        /\ UNCHANGED <<list, shown, expected>>
    BY <1>8 DEF Tab!Serve, Shows, Listed, Tab!Lists
  <2>2. rows' \in Tab!Lists /\ rows'.at = rows.at + 1
    <3>1. PICK s \in Tab!Statuses :
            rows' = [at |-> rows.at + 1, status |-> [rows.status EXCEPT ![c.agent] = s]]
      BY <1>8 DEF Tab!Serve, Tab!Change
    <3>2. [rows.status EXCEPT ![c.agent] = s] \in [{First} -> Tab!Statuses]
      BY DEF Tab!Lists, Shows, Listed
    <3>. QED  BY <2>1, <3>1, <3>2 DEF Tab!Lists
  <2>3. [c EXCEPT !.at = rows.at + 1] \in Tab!Calls
    BY <2>1 DEF Tab!Calls, Shows, Listed
  <2>4. /\ calls' \subseteq Tab!Calls
        /\ \A d \in calls' : d \in calls \/ d.at = rows.at + 1
    BY <1>8, <2>3 DEF Tab!Serve, Tab!Calls, Shows, Listed
  <2>5. \A d \in calls : d.at # None => d.at \in Nat
    BY DEF Tab!Calls, Shows, Listed
  <2>. QED
    BY <2>1, <2>2, <2>4, <2>5 DEF Shows, Listed, OperationShown, Tab!OperationShown
<1>9. ASSUME NEW c \in calls, Tab!CallOk(c)
      PROVE  Shows' /\ list'.data = list.data
  <2>1. /\ IsEntry(list') /\ list'.data = list.data
        /\ shown /\ list.data # None => list'.phase = "asked"
        /\ \/ list'.phase = "asked"
           \/ list'.phase = list.phase /\ list'.got = list.got /\ list'.error = list.error
    BY <1>9, TabInvalidates DEF Tab!CallOk, Tab!AfterSuccess, Shows, Listed
  <2>2. /\ calls' \subseteq calls /\ rows' = rows /\ shown' = shown
        /\ expected' = IF shown /\ list.data # None /\ c.at > expected THEN c.at ELSE expected
        /\ c.at # None
    BY <1>9 DEF Tab!CallOk
  <2>3. c.at \in Nat
    BY <2>2 DEF Tab!Calls, Shows, Listed
  <2>. QED
    BY <2>1, <2>2, <2>3 DEF Shows, Listed, OperationShown, Tab!OperationShown
<1>10. ASSUME NEW c \in calls, Tab!CallFails(c)
       PROVE  Shows' /\ list' = list
  BY <1>10 DEF Tab!CallFails, Shows, Listed, OperationShown, Tab!OperationShown
<1>11. CASE Tab!TimerFires \/ Tab!CloseMessage
  BY <1>11 DEF Tab!TimerFires, Tab!CloseMessage, Shows, Listed, OperationShown,
               Tab!OperationShown
<1>12. CASE Tab!Leave
  <2>1. /\ calls' \subseteq Tab!Calls
        /\ \A d \in calls' : \E c \in calls : d.at = c.at
    BY <1>12 DEF Tab!Leave, Tab!Calls, Shows, Listed
  <2>2. shown' \in BOOLEAN /\ UNCHANGED <<rows, list, expected>>
    BY <1>12 DEF Tab!Leave
  <2>. QED
    BY <2>1, <2>2 DEF Shows, Listed, OperationShown, Tab!OperationShown
<1>13. ASSUME NEW s \in {"failed"}, Tab!Reported(First, s)
       PROVE  Shows' /\ list' = list
  <2>1. /\ rows.at \in 0 .. MaxCalls /\ rows.at < MaxCalls
        /\ UNCHANGED <<list, shown, calls, expected>>
    BY <1>13 DEF Tab!Reported, Shows, Listed, Tab!Lists
  <2>2. rows' \in Tab!Lists /\ rows'.at = rows.at + 1
    BY <1>13, <2>1 DEF Tab!Reported, Tab!Change, Tab!Lists, Tab!Statuses, Shows, Listed
  <2>3. \A d \in calls : d.at # None => d.at \in Nat
    BY DEF Tab!Calls, Shows, Listed
  <2>. QED
    BY <2>1, <2>2, <2>3 DEF Shows, Listed, OperationShown, Tab!OperationShown
<1>14. CASE OnAgents /\ Tab!Next
  <2>1. rows.at \in Nat /\ (list.data # None => list.data.at \in Nat)
    BY DEF Shows, Listed, Tab!Lists
  <2>. QED
    BY <1>14, <1>2, <1>3, <1>4, <1>5, <1>7, <1>8, <1>9, <1>10, <1>11, <1>12, <1>13, <2>1
       DEF Tab!Next
<1>15. CASE ~(OnAgents /\ Tab!Next)
  <2>1. UNCHANGED tabVars
    BY <1>15 DEF Next, vars, OnLogs, OnCharts, OnDashboard, OnNodes, OnMetrics, OnNode
  <2>. QED  BY <1>1, <2>1
<1>. QED  BY <1>14, <1>15

(***************************************************************************)
(* An operation answered to a tab with a list is in it, or will be: the    *)
(* fetch its answer begins (Detail.tsx, onSuccess) is read after it, and   *)
(* no answer read before replaces it.                                      *)
(***************************************************************************)
THEOREM OperationsShown == Spec => []OperationShown
<1>1. Shows /\ [Next]_vars => Shows'
  BY ShowsKept
<1>2. Shows => OperationShown
  BY DEF Shows
<1>. QED  BY <1>1, <1>2, ShowsInit, PTL DEF Spec

(***************************************************************************)
(* No step of the tab puts an older state of the rows into its table.      *)
(***************************************************************************)
THEOREM ListsGrow == Spec => ListNeverOlder
<1>1. Shows /\ [Next]_vars => Shows'
  BY ShowsKept
<1>2. Shows /\ [Next]_vars =>
        [list.data # None => list'.data # None /\ list'.data.at >= list.data.at]_Tab!vars
  BY ShowsKept
<1>. QED  BY <1>1, <1>2, ShowsInit, PTL DEF Spec, ListNeverOlder, Tab!ListNeverOlder

-----------------------------------------------------------------------------
(* What any fetch, mount or failure does to an entry: its data stay, and an *)
(* answer that was read is the one that was there.                          *)
Later(q, r) ==
    /\ IsEntry(r) /\ r.data = q.data
    /\ r.phase = "read" => q.phase = "read" /\ r.got = q.got

(***************************************************************************)
(* The log dialog: each entry holds lines of the agent of its key.         *)
(***************************************************************************)
LEMMA DialogLater ==
    ASSUME NEW q, IsEntry(q), NEW stale \in BOOLEAN
    PROVE  /\ Later(q, Dialog!Q!Fetch(q)) /\ Later(q, Dialog!Q!Refetch(q))
           /\ Later(q, Dialog!Q!Mount(q, stale)) /\ Later(q, Dialog!Q!Fail(q))
           /\ Later(q, Dialog!Q!Pause(q))
           /\ \A watched \in BOOLEAN : Later(q, Dialog!Q!Reconnect(q, watched, stale))
  <1>1. /\ Later(q, q) /\ Later(q, Dialog!Q!Fail(q)) /\ Later(q, Dialog!Q!Begin(q))
        /\ Later(q, Dialog!Q!Pause(q)) /\ Later(q, [q EXCEPT !.phase = "asked"])
    BY DEF Later, IsEntry, Dialog!Q!Fail, Dialog!Q!Begin, Dialog!Q!Pause
  <1>2. Later(q, Dialog!Q!Mount(q, stale))
    BY <1>1 DEF Dialog!Q!Fetch, Dialog!Q!Mount, Dialog!Q!Idle
  <1>3. \A watched \in BOOLEAN : Later(q, Dialog!Q!Reconnect(q, watched, stale))
    BY <1>1, <1>2 DEF Dialog!Q!Reconnect
  <1>. QED
    BY <1>1, <1>2, <1>3 DEF Dialog!Q!Fetch, Dialog!Q!Refetch, Dialog!Q!Idle

LEMMA DialogAnswers ==
    ASSUME NEW q, IsEntry(q), NEW d
    PROVE  /\ IsEntry(Dialog!Q!Read(q, d)) /\ Dialog!Q!Read(q, d).data = q.data
           /\ Dialog!Q!Read(q, d).got = d
           /\ IsEntry(Dialog!Q!Succeed(q)) /\ Dialog!Q!Succeed(q).data = q.got
           /\ Dialog!Q!Succeed(q).phase = "idle"
  BY DEF IsEntry, Dialog!Q!Read, Dialog!Q!Succeed, Dialog!Q!Empty

OwnLines(k, q) ==
    /\ IsEntry(q)
    /\ q.data # None => q.data.agent = k
    /\ q.phase = "read" => q.got.agent = k

Own ==
    /\ viewing \in Agents \cup {None}
    /\ logs = [k \in Agents |-> logs[k]]
    /\ \A k \in Agents : OwnLines(k, logs[k])

LEMMA OwnInit == Init => Own
  BY DEF Init, Dialog!Init, Dialog!Q!Empty, Own, OwnLines, IsEntry

LEMMA OwnUpdate ==
    ASSUME Own, NEW k \in Agents, NEW q, OwnLines(k, q), Dialog!Update(k, q),
           viewing' \in Agents \cup {None}
    PROVE  Own'
  BY DEF Own, Dialog!Update

LEMMA OwnLater ==
    ASSUME NEW k, NEW q, NEW r, OwnLines(k, q), Later(q, r)
    PROVE  OwnLines(k, r)
  BY DEF OwnLines, Later

LEMMA OwnDialogLater ==
    ASSUME Own, NEW k \in Agents, NEW stale \in BOOLEAN
    PROVE  /\ OwnLines(k, Dialog!Q!Fetch(logs[k])) /\ OwnLines(k, Dialog!Q!Refetch(logs[k]))
           /\ OwnLines(k, Dialog!Q!Mount(logs[k], stale)) /\ OwnLines(k, Dialog!Q!Fail(logs[k]))
           /\ OwnLines(k, Dialog!Q!Pause(logs[k]))
           /\ \A watched \in BOOLEAN : OwnLines(k, Dialog!Q!Reconnect(logs[k], watched, stale))
  <1>1. OwnLines(k, logs[k]) /\ IsEntry(logs[k])
    BY DEF Own, OwnLines
  <1>2. /\ Later(logs[k], Dialog!Q!Fetch(logs[k])) /\ Later(logs[k], Dialog!Q!Refetch(logs[k]))
        /\ Later(logs[k], Dialog!Q!Mount(logs[k], stale)) /\ Later(logs[k], Dialog!Q!Fail(logs[k]))
        /\ Later(logs[k], Dialog!Q!Pause(logs[k]))
        /\ \A watched \in BOOLEAN :
             Later(logs[k], Dialog!Q!Reconnect(logs[k], watched, stale))
    BY <1>1, DialogLater
  <1>. QED  BY <1>1, <1>2, OwnLater

LEMMA OwnKept ==
    ASSUME Own, [Next]_vars
    PROVE  Own'
<1> USE DEF Dialog!Key
<1>1. CASE UNCHANGED dialogVars
  BY <1>1 DEF dialogVars, Own, OwnLines, IsEntry
<1>2. CASE Dialog!Close \/ Dialog!ToggleAuto \/ Dialog!Hide \/ \E a \in Agents : Dialog!Log(a)
  BY <1>2 DEF Dialog!Close, Dialog!ToggleAuto, Dialog!Hide, Dialog!Log, Own, OwnLines, IsEntry
<1>3. ASSUME NEW a \in Agents, NEW stale \in BOOLEAN, Dialog!ViewLogs(a, stale)
      PROVE  Own'
  <2>1. OwnLines(a, Dialog!Q!Mount(logs[a], stale))
    BY OwnDialogLater
  <2>. QED  BY <1>3, <2>1, OwnUpdate DEF Dialog!ViewLogs
<1>4. CASE Dialog!Poll \/ Dialog!Refresh
  <2>1. viewing \in Agents /\ Dialog!Entry = logs[viewing] /\ viewing' = viewing
    BY <1>4 DEF Dialog!Poll, Dialog!Refresh, Dialog!Enabled, Dialog!Entry, Own
  <2>2. /\ OwnLines(viewing, Dialog!Q!Fetch(logs[viewing]))
        /\ OwnLines(viewing, Dialog!Q!Refetch(logs[viewing]))
    BY <2>1, OwnDialogLater
  <2>. QED  BY <1>4, <2>1, <2>2, OwnUpdate DEF Dialog!Poll, Dialog!Refresh
<1>5. ASSUME NEW stale \in BOOLEAN, Dialog!Unhide(stale)
      PROVE  Own'
  <2>1. CASE Dialog!Enabled
    <3>1. viewing \in Agents /\ Dialog!Entry = logs[viewing]
      BY <2>1 DEF Dialog!Enabled, Dialog!Entry, Own
    <3>2. OwnLines(viewing, Dialog!Q!Mount(logs[viewing], stale))
      BY <3>1, OwnDialogLater
    <3>. QED  BY <1>5, <2>1, <3>1, <3>2, OwnUpdate DEF Dialog!Unhide
  <2>2. CASE ~Dialog!Enabled
    BY <1>5, <2>2 DEF Dialog!Unhide, Own, OwnLines, IsEntry
  <2>. QED  BY <2>1, <2>2
<1>6. ASSUME NEW k \in Agents, Dialog!ReadLogs(k)
      PROVE  Own'
  <2>1. Dialog!Update(k, Dialog!Q!Read(logs[k], [agent |-> k, upto |-> lines[k]]))
    BY <1>6 DEF Dialog!ReadLogs
  <2>2. OwnLines(k, Dialog!Q!Read(logs[k], [agent |-> k, upto |-> lines[k]]))
    BY DialogAnswers DEF Own, OwnLines
  <2>. QED  BY <1>6, <2>1, <2>2, OwnUpdate DEF Dialog!ReadLogs, Own
<1>7. ASSUME NEW k \in Agents, Dialog!LogsOk(k)
      PROVE  Own'
  <2>1. OwnLines(k, Dialog!Q!Succeed(logs[k]))
    BY <1>7, DialogAnswers DEF Dialog!LogsOk, Own, OwnLines
  <2>. QED  BY <1>7, <2>1, OwnUpdate DEF Dialog!LogsOk, Own
<1>8. ASSUME NEW k \in Agents, Dialog!LogsFail(k)
      PROVE  Own'
  <2>1. OwnLines(k, Dialog!Q!Fail(logs[k]))
    BY OwnDialogLater
  <2>. QED  BY <1>8, <2>1, OwnUpdate DEF Dialog!LogsFail, Own
<1>9. ASSUME NEW k \in Agents, Dialog!Pause(k)
      PROVE  Own'
  <2>1. OwnLines(k, Dialog!Q!Pause(logs[k]))
    BY OwnDialogLater
  <2>. QED  BY <1>9, <2>1, OwnUpdate DEF Dialog!Pause, Own
<1>10. ASSUME NEW stale \in BOOLEAN, Dialog!Reconnect(stale)
       PROVE  Own'
  <2> DEFINE watched(k) == Dialog!Enabled /\ ~hidden /\ k = viewing
  <2>1. /\ logs' = [k \in Agents |-> Dialog!Q!Reconnect(logs[k], watched(k), stale)]
        /\ viewing' = viewing
    BY <1>10 DEF Dialog!Reconnect
  <2>2. \A k \in Agents : watched(k) \in BOOLEAN
    OBVIOUS
  <2> HIDE DEF watched
  <2>3. \A k \in Agents : OwnLines(k, Dialog!Q!Reconnect(logs[k], watched(k), stale))
    BY <2>2, OwnDialogLater
  <2>. QED  BY <2>1, <2>3 DEF Own
<1>11. CASE OnLogs /\ Dialog!Next
  BY <1>11, <1>2, <1>3, <1>4, <1>5, <1>6, <1>7, <1>8, <1>9, <1>10 DEF Dialog!Next
<1>12. CASE ~(OnLogs /\ Dialog!Next)
  <2>1. UNCHANGED dialogVars
    BY <1>12 DEF Next, vars, OnAgents, OnCharts, OnDashboard, OnNodes, OnMetrics, OnNode
  <2>. QED  BY <1>1, <2>1
<1>. QED  BY <1>11, <1>12

(***************************************************************************)
(* The dialog shows and exports the lines of the agent it is open for      *)
(* (Detail.tsx, AgentLogsDialog), whichever fetches overtake each other.   *)
(***************************************************************************)
THEOREM LogsOwn == Spec => []LogsOfViewedAgent
<1>1. Own /\ [Next]_vars => Own'
  BY OwnKept
<1>2. Own => LogsOfViewedAgent
  BY DEF Own, OwnLines, LogsOfViewedAgent, Dialog!LogsOfViewedAgent, Dialog!Entry,
         Dialog!Key, Dialog!Export
<1>. QED  BY <1>1, <1>2, OwnInit, PTL DEF Spec

-----------------------------------------------------------------------------
(***************************************************************************)
(* The charts: each entry holds points of the agent and the metric of its  *)
(* key, for the length of the range chosen, and the selection is the last  *)
(* click or, before any, the first agent.                                  *)
(***************************************************************************)
ChartKeys == {"cpu"} \X Agents

PointsOf(k, q, p) ==
    /\ IsEntry(q)
    /\ q.data # None => q.data = [agent |-> k[2], metric |-> k[1], preset |-> p]
    /\ q.phase = "read" => q.got = [agent |-> k[2], metric |-> k[1], preset |-> p]

Drawn ==
    /\ selected \in Agents \cup {None} /\ picked \in Agents \cup {None}
    /\ IF picked = None THEN selected \in {None, First} ELSE selected = picked
    /\ charts = [k \in ChartKeys |-> charts[k]]
    /\ \A k \in ChartKeys : PointsOf(k, charts[k], agentPreset)

LEMMA ChartLater ==
    ASSUME NEW k, NEW q, NEW p, PointsOf(k, q, p)
    PROVE  /\ PointsOf(k, Charts!Q!Fetch(q), p) /\ PointsOf(k, Charts!Q!Refetch(q), p)
           /\ PointsOf(k, Charts!Q!Mount(q, FALSE), p) /\ PointsOf(k, Charts!Q!Fail(q), p)
           /\ PointsOf(k, Charts!Q!Pause(q), p)
           /\ \A watched, stale \in BOOLEAN :
                PointsOf(k, Charts!Q!Reconnect(q, watched, stale), p)
  <1>1. IsEntry(q)
    BY DEF PointsOf
  <1>2. /\ Later(q, q) /\ Later(q, Charts!Q!Fail(q)) /\ Later(q, Charts!Q!Begin(q))
        /\ Later(q, Charts!Q!Pause(q)) /\ Later(q, [q EXCEPT !.phase = "asked"])
    BY <1>1 DEF Later, IsEntry, Charts!Q!Fail, Charts!Q!Begin, Charts!Q!Pause
  <1>3. /\ Later(q, Charts!Q!Fetch(q)) /\ Later(q, Charts!Q!Refetch(q))
        /\ \A stale \in BOOLEAN : Later(q, Charts!Q!Mount(q, stale))
    BY <1>2 DEF Charts!Q!Fetch, Charts!Q!Refetch, Charts!Q!Mount
  <1>4. \A watched, stale \in BOOLEAN : Later(q, Charts!Q!Reconnect(q, watched, stale))
    BY <1>2, <1>3 DEF Charts!Q!Reconnect
  <1>5. \A r : Later(q, r) => PointsOf(k, r, p)
    BY DEF PointsOf, Later
  <1>. QED  BY <1>2, <1>3, <1>4, <1>5

LEMMA NothingDrawn ==
    /\ Charts!NoCharts = [k \in ChartKeys |-> Charts!NoCharts[k]]
    /\ \A p : \A k \in ChartKeys : PointsOf(k, Charts!NoCharts[k], p)
  BY DEF Charts!NoCharts, Charts!Q!Empty, ChartKeys, PointsOf, IsEntry

LEMMA DrawnInit == Init => Drawn
  BY NothingDrawn DEF Init, Charts!Init, Drawn

(* Mounting the charts of an agent changes what is fetched, and no more. *)
LEMMA MountedCharts ==
    ASSUME NEW a \in Agents, NEW entries, NEW p,
           entries = [k \in ChartKeys |-> entries[k]],
           \A k \in ChartKeys : PointsOf(k, entries[k], p)
    PROVE  /\ Charts!Mounted(a, entries) = [k \in ChartKeys |-> Charts!Mounted(a, entries)[k]]
           /\ \A k \in ChartKeys : PointsOf(k, Charts!Mounted(a, entries)[k], p)
  <1>1. DOMAIN entries = ChartKeys
    OBVIOUS
  <1>2. ASSUME NEW k \in ChartKeys
        PROVE  Charts!Mounted(a, entries)[k] \in {entries[k], Charts!Q!Mount(entries[k], FALSE)}
    BY <1>1 DEF Charts!Mounted
  <1>3. \A k \in ChartKeys : PointsOf(k, Charts!Q!Mount(entries[k], FALSE), p)
    BY ChartLater
  <1>4. Charts!Mounted(a, entries) = [k \in ChartKeys |-> Charts!Mounted(a, entries)[k]]
    BY <1>1 DEF Charts!Mounted
  <1>. QED  BY <1>2, <1>3, <1>4

LEMMA DrawnUpdate ==
    ASSUME Drawn, NEW m \in {"cpu"}, NEW a \in Agents, NEW q,
           PointsOf(<<m, a>>, q, agentPreset),
           charts' = [charts EXCEPT ![Charts!Key(m, a)] = q],
           UNCHANGED <<selected, picked, agentPreset>>
    PROVE  Drawn'
  BY DEF Drawn, Charts!Key, ChartKeys

LEMMA DrawnKept ==
    ASSUME Drawn, [Next]_vars
    PROVE  Drawn'
<1>1. CASE UNCHANGED chartVars
  BY <1>1 DEF chartVars, Drawn, PointsOf, IsEntry
<1>2. CASE Charts!AutoSelect
  <2>1. /\ selected = None /\ selected' = First /\ First # None
        /\ charts' = Charts!Mounted(First, charts)
        /\ UNCHANGED <<picked, agentPreset>>
    BY <1>2 DEF Charts!AutoSelect
  <2>. QED  BY <2>1, MountedCharts DEF Drawn
<1>3. ASSUME NEW a \in Agents, Charts!Select(a)
      PROVE  Drawn'
  <2>1. /\ selected' = a /\ picked' = a /\ a # None /\ agentPreset' = agentPreset
        /\ charts' = IF a = selected THEN charts ELSE Charts!Mounted(a, charts)
    BY <1>3 DEF Charts!Select
  <2>. QED  BY <2>1, MountedCharts DEF Drawn
<1>4. CASE Charts!Retry
  <2>1. /\ UNCHANGED <<selected, picked, agentPreset>>
        /\ charts' = [k \in ChartKeys |->
                        IF \E m \in {"cpu"} : k = Charts!Key(m, selected)
                        THEN Charts!Q!Refetch(charts[k]) ELSE charts[k]]
    BY <1>4 DEF Charts!Retry, Drawn
  <2>2. \A k \in ChartKeys : PointsOf(k, Charts!Q!Refetch(charts[k]), agentPreset)
    BY ChartLater DEF Drawn
  <2>3. charts' = [k \in ChartKeys |-> charts'[k]]
    BY <2>1
  <2>4. \A k \in ChartKeys : PointsOf(k, charts'[k], agentPreset)
    BY <2>1, <2>2 DEF Drawn
  <2>. QED  BY <2>1, <2>3, <2>4 DEF Drawn
<1>5. CASE Charts!ListChanges
  BY <1>5 DEF Charts!ListChanges, Drawn, PointsOf, IsEntry
<1>6. CASE Charts!Remount
  BY <1>6, NothingDrawn DEF Charts!Remount, Drawn
<1>7. ASSUME NEW p \in {"1h", "6h"}, Charts!ChoosePreset(p)
      PROVE  Drawn'
  <2>1. /\ selected \in Agents /\ agentPreset' = p /\ UNCHANGED <<selected, picked>>
        /\ charts' = Charts!Mounted(selected, Charts!NoCharts)
    BY <1>7 DEF Charts!ChoosePreset, Drawn
  <2>2. \A k \in ChartKeys : PointsOf(k, Charts!NoCharts[k], p)
    BY NothingDrawn
  <2>. QED  BY <2>1, <2>2, NothingDrawn, MountedCharts DEF Drawn
<1>8. ASSUME NEW m \in {"cpu"}, NEW a \in Agents,
             \/ Charts!ReadPoints(m, a) \/ Charts!PointsOk(m, a)
             \/ Charts!PointsFail(m, a) \/ Charts!Pause(m, a)
      PROVE  Drawn'
  <2> DEFINE k == <<m, a>>
             q == charts[k]
             points == [agent |-> a, metric |-> m, preset |-> agentPreset]
  <2>1. k \in ChartKeys /\ k[1] = m /\ k[2] = a /\ PointsOf(k, q, agentPreset)
    BY DEF ChartKeys, Drawn
  <2>2. charts = [c \in ChartKeys |-> charts[c]]
    BY DEF Drawn
  <2>3. /\ PointsOf(k, Charts!Q!Read(q, points), agentPreset)
        /\ q.phase = "read" => PointsOf(k, Charts!Q!Succeed(q), agentPreset)
    BY <2>1 DEF PointsOf, IsEntry, Charts!Q!Read, Charts!Q!Succeed, Charts!Q!Empty
  <2>4. PointsOf(k, Charts!Q!Fail(q), agentPreset) /\ PointsOf(k, Charts!Q!Pause(q), agentPreset)
    BY <2>1, ChartLater
  <2>5. CASE Charts!ReadPoints(m, a)
    <3>1. charts' = [charts EXCEPT ![Charts!Key(m, a)] = Charts!Q!Read(q, points)]
      BY <2>1, <2>2, <2>5 DEF Charts!ReadPoints, Charts!Key
    <3>. QED  BY <2>3, <2>5, <3>1, DrawnUpdate DEF Charts!ReadPoints
  <2>6. CASE Charts!PointsOk(m, a)
    <3>1. /\ charts' = [charts EXCEPT ![Charts!Key(m, a)] = Charts!Q!Succeed(q)]
          /\ q.phase = "read"
      BY <2>1, <2>2, <2>6 DEF Charts!PointsOk, Charts!Key
    <3>. QED  BY <2>3, <2>6, <3>1, DrawnUpdate DEF Charts!PointsOk
  <2>7. CASE Charts!PointsFail(m, a)
    <3>1. charts' = [charts EXCEPT ![Charts!Key(m, a)] = Charts!Q!Fail(q)]
      BY <2>1, <2>2, <2>7 DEF Charts!PointsFail, Charts!Key
    <3>. QED  BY <2>4, <2>7, <3>1, DrawnUpdate DEF Charts!PointsFail
  <2>8. CASE Charts!Pause(m, a)
    <3>1. charts' = [charts EXCEPT ![Charts!Key(m, a)] = Charts!Q!Pause(q)]
      BY <2>1, <2>2, <2>8 DEF Charts!Pause, Charts!Key
    <3>. QED  BY <2>4, <2>8, <3>1, DrawnUpdate DEF Charts!Pause
  <2>. QED  BY <1>8, <2>5, <2>6, <2>7, <2>8
<1>9. ASSUME NEW stale \in SUBSET {"cpu"}, Charts!Reconnect(stale)
      PROVE  Drawn'
  <2> DEFINE watched(k) == selected # None /\ \E m \in {"cpu"} : k = Charts!Key(m, selected)
             old(k) == \E m \in stale : k = Charts!Key(m, selected)
  <2>1. /\ UNCHANGED <<selected, picked, agentPreset>>
        /\ charts' = [k \in ChartKeys |-> Charts!Q!Reconnect(charts[k], watched(k), old(k))]
    BY <1>9 DEF Charts!Reconnect, Drawn
  <2>2. \A k \in ChartKeys : watched(k) \in BOOLEAN /\ old(k) \in BOOLEAN
    OBVIOUS
  <2> HIDE DEF watched, old
  <2>3. \A k \in ChartKeys :
          PointsOf(k, Charts!Q!Reconnect(charts[k], watched(k), old(k)), agentPreset)
    BY <2>2, ChartLater DEF Drawn
  <2>. QED  BY <2>1, <2>3 DEF Drawn
<1>10. CASE OnCharts /\ Charts!Next
  BY <1>10, <1>2, <1>3, <1>4, <1>5, <1>6, <1>7, <1>8, <1>9 DEF Charts!Next
<1>11. CASE ~(OnCharts /\ Charts!Next)
  <2>1. UNCHANGED chartVars
    BY <1>11 DEF Next, vars, OnAgents, OnLogs, OnDashboard, OnNodes, OnMetrics, OnNode
  <2>. QED  BY <1>1, <2>1
<1>. QED  BY <1>10, <1>11

(***************************************************************************)
(* A chart of an agent never shows another agent's lines, another metric's *)
(* or another range's (Detail.tsx, AgentsTabContent; useAgentMetrics.ts).  *)
(***************************************************************************)
THEOREM ChartsOwn == Spec => []ChartsOfSelection
<1>1. Drawn /\ [Next]_vars => Drawn'
  BY DrawnKept
<1>2. Drawn => ChartsOfSelection
  <2> SUFFICES ASSUME Drawn, NEW m \in {"cpu"}, Charts!ChartView(m) = "lines"
               PROVE  Charts!Chart(m).data =
                        [agent |-> IF picked = None THEN First ELSE picked,
                         metric |-> m, preset |-> agentPreset]
    BY DEF ChartsOfSelection, Charts!ChartsOfSelection
  <2>1. Charts!Chart(m).data # None
    BY DEF Charts!ChartView
  <2>2. selected # None
    BY <2>1 DEF Charts!Chart, Charts!Q!Empty
  <2>3. <<m, selected>> \in ChartKeys /\ Charts!Chart(m) = charts[<<m, selected>>]
    BY <2>2 DEF Drawn, ChartKeys, Charts!Chart, Charts!Key
  <2>4. selected = IF picked = None THEN First ELSE picked
    BY <2>2 DEF Drawn
  <2>. QED  BY <2>1, <2>3, <2>4 DEF Drawn, PointsOf
<1>. QED  BY <1>1, <1>2, DrawnInit, PTL DEF Spec

-----------------------------------------------------------------------------
(***************************************************************************)
(* The metrics tab: the range of the store is legal or no range at all, an *)
(* answer belongs to it, and only a range of real moments is answered.     *)
(***************************************************************************)
Legal(r) ==
    /\ r = [start |-> r.start, end |-> r.end]
    /\ Metrics!Real(r) => /\ r.start \in Nat /\ r.end \in Nat
                          /\ r.start < r.end /\ r.end - r.start <= 1

Answered(q, r) ==
    /\ IsEntry(q)
    /\ q.data # None => q.data = r /\ Metrics!Real(r)

Plotted == Legal(timeRange) /\ Answered(history, timeRange)

LEMMA HistoryLater ==
    ASSUME NEW q, NEW r, Answered(q, r)
    PROVE  /\ Answered(Metrics!Q!Fetch(q), r) /\ Answered(Metrics!Q!Refetch(q), r)
           /\ Answered(Metrics!Q!Mount(q, FALSE), r) /\ Answered(Metrics!Q!Fail(q), r)
           /\ Answered(Metrics!Q!Refetch(Metrics!Q!Mount(q, FALSE)), r)
           /\ Answered(Metrics!Q!Pause(q), r)
           /\ \A watched : \A stale \in BOOLEAN :
                Answered(Metrics!Q!Reconnect(q, watched, stale), r)
  <1>1. \A f : Answered(f, r) =>
               /\ Answered(Metrics!Q!Begin(f), r) /\ Answered(Metrics!Q!Fail(f), r)
               /\ Answered(Metrics!Q!Pause(f), r) /\ Answered([f EXCEPT !.phase = "asked"], r)
    BY DEF Answered, IsEntry, Metrics!Q!Begin, Metrics!Q!Fail, Metrics!Q!Pause
  <1>2. \A f : Answered(f, r) =>
               /\ Answered(Metrics!Q!Fetch(f), r) /\ Answered(Metrics!Q!Refetch(f), r)
               /\ \A stale \in BOOLEAN : Answered(Metrics!Q!Mount(f, stale), r)
    BY <1>1 DEF Metrics!Q!Fetch, Metrics!Q!Refetch, Metrics!Q!Mount
  <1>3. \A watched : \A stale \in BOOLEAN :
          Answered(Metrics!Q!Reconnect(q, watched, stale), r)
    BY <1>1, <1>2 DEF Metrics!Q!Reconnect
  <1>. QED  BY <1>1, <1>2, <1>3

LEMMA PlottedInit == Init => Plotted
  <1> SUFFICES ASSUME Init PROVE Plotted
    OBVIOUS
  <1>1. timeRange = [start |-> 0, end |-> 1] /\ history = Metrics!Q!Fetch(Metrics!Q!Empty)
    BY DEF Init, Metrics!Init, Metrics!Last
  <1>2. Answered(Metrics!Q!Empty, timeRange)
    BY DEF Answered, IsEntry, Metrics!Q!Empty
  <1>3. Legal(timeRange)
    BY <1>1 DEF Legal, Metrics!Real
  <1>. QED  BY <1>1, <1>2, <1>3, HistoryLater DEF Plotted

(* Another range is another entry, which holds that range's answer if any. *)
LEMMA RangeChanges ==
    ASSUME Plotted, NEW r, Legal(r), Metrics!RangeTo(r)
    PROVE  Plotted'
  <1>1. /\ timeRange' = r
        /\ \E q \in Metrics!Cached(r) :
             history' = IF r = timeRange THEN history
                        ELSE Metrics!Q!Refetch(Metrics!Q!Mount(q, FALSE))
    BY DEF Metrics!RangeTo
  <1>2. \A q \in Metrics!Cached(r) : Answered(q, r)
    <2>1. Answered(Metrics!Q!Empty, r)
      BY DEF Metrics!Q!Empty, Answered, IsEntry
    <2>2. Metrics!Real(r) => Answered([Metrics!Q!Empty EXCEPT !.data = r], r)
      BY DEF Metrics!Q!Empty, Answered, IsEntry
    <2>. QED  BY <2>1, <2>2 DEF Metrics!Cached
  <1>3. Answered(history', r)
    BY <1>1, <1>2, HistoryLater DEF Plotted
  <1>. QED  BY <1>1, <1>3 DEF Plotted

LEMMA HistoryChanges ==
    ASSUME Plotted, timeRange' = timeRange,
           \/ history' \in {history, Metrics!Q!Refetch(history), Metrics!Q!Fail(history),
                            Metrics!Q!Pause(history)}
           \/ \E watched : \E stale \in BOOLEAN :
                history' = Metrics!Q!Reconnect(history, watched, stale)
           \/ history' = Metrics!Q!Refetch(Metrics!Q!Mount(history, FALSE))
    PROVE  Plotted'
  <1>1. \A h : Answered(h, timeRange) /\ history' = h => Plotted'
    BY DEF Plotted
  <1>2. /\ Answered(history, timeRange) /\ Answered(Metrics!Q!Refetch(history), timeRange)
        /\ Answered(Metrics!Q!Fail(history), timeRange)
        /\ Answered(Metrics!Q!Pause(history), timeRange)
        /\ Answered(Metrics!Q!Refetch(Metrics!Q!Mount(history, FALSE)), timeRange)
    BY HistoryLater DEF Plotted
  <1>3. \A watched : \A stale \in BOOLEAN :
          Answered(Metrics!Q!Reconnect(history, watched, stale), timeRange)
    BY HistoryLater DEF Plotted
  <1>. QED  BY <1>1, <1>2, <1>3

LEMMA PlottedKept ==
    ASSUME Plotted, [Next]_vars
    PROVE  Plotted'
<1> USE DEF Metrics!store
<1>1. CASE UNCHANGED metricsVars
  BY <1>1, HistoryChanges DEF metricsVars
<1>2. CASE \/ Metrics!PollLatest \/ Metrics!Retry \/ Metrics!OpenDialog \/ Metrics!CloseDialog
           \/ Metrics!ReadLatest \/ Metrics!LatestOk \/ Metrics!LatestFails
           \/ Metrics!PauseLatest \/ Metrics!Report \/ Metrics!Leave
           \/ \E press \in Metrics!R!Settings : Metrics!ChooseInterval(press)
  <2>1. UNCHANGED <<timeRange, history>>
    BY <1>2 DEF Metrics!PollLatest, Metrics!Retry, Metrics!OpenDialog, Metrics!CloseDialog,
       Metrics!ReadLatest, Metrics!LatestOk, Metrics!LatestFails, Metrics!PauseLatest,
       Metrics!Report, Metrics!Leave, Metrics!ChooseInterval
  <2>. QED  BY <2>1, HistoryChanges
<1>3. CASE Metrics!Timer \/ Metrics!Second \/ Metrics!HistoryFails \/ Metrics!PauseHistory
  BY <1>3, HistoryChanges
     DEF Metrics!Timer, Metrics!Second, Metrics!HistoryFails, Metrics!PauseHistory
<1>4. CASE \E stale \in BOOLEAN, set \in Metrics!R!Settings : Metrics!Return(stale, set)
  BY <1>4, HistoryChanges DEF Metrics!Return
<1>5. CASE Metrics!HistoryOk
  <2>1. /\ Metrics!Real(timeRange) /\ timeRange' = timeRange
        /\ history' = Metrics!Q!Succeed(Metrics!Q!Read(history, timeRange))
    BY <1>5 DEF Metrics!HistoryOk
  <2>2. Answered(Metrics!Q!Succeed(Metrics!Q!Read(history, timeRange)), timeRange)
    BY <2>1 DEF Plotted, Answered, IsEntry, Metrics!Q!Read, Metrics!Q!Succeed, Metrics!Q!Empty
  <2>. QED  BY <2>1, <2>2 DEF Plotted
<1>6. ASSUME NEW length \in {1}, NEW now \in 0 .. 2, Metrics!ChoosePreset(length, now)
      PROVE  Plotted'
  <2>1. Metrics!RangeTo([start |-> now - length, end |-> now]) /\ now >= length
    BY <1>6 DEF Metrics!ChoosePreset, Metrics!Last
  <2>2. Legal([start |-> now - length, end |-> now])
    BY <2>1 DEF Legal
  <2>. QED  BY <2>1, <2>2, RangeChanges
<1>7. ASSUME NEW start \in Metrics!Moments \cup {None}, NEW end \in Metrics!Moments \cup {None},
             Metrics!Confirm(start, end)
      PROVE  Plotted'
  <2>1. Metrics!RangeTo([start |-> start, end |-> end]) /\ Metrics!Accepted(start, end)
    BY <1>7 DEF Metrics!Confirm
  <2>2. Legal([start |-> start, end |-> end])
    BY <2>1 DEF Legal, Metrics!Accepted, Metrics!Real, Metrics!Moments
  <2>. QED  BY <2>1, <2>2, RangeChanges
<1>8. ASSUME NEW staleLatest \in BOOLEAN, NEW staleHistory \in BOOLEAN,
             Metrics!Reconnect(staleLatest, staleHistory)
      PROVE  Plotted'
  <2>1. /\ timeRange' = timeRange
        /\ history' = Metrics!Q!Reconnect(history, onMetrics, staleHistory)
    BY <1>8 DEF Metrics!Reconnect
  <2>. QED  BY <2>1, HistoryChanges
<1>9. CASE OnMetrics /\ Metrics!Next
  BY <1>9, <1>2, <1>3, <1>4, <1>5, <1>6, <1>7, <1>8 DEF Metrics!Next
<1>10. CASE ~(OnMetrics /\ Metrics!Next)
  <2>1. UNCHANGED metricsVars
    BY <1>10 DEF Next, vars, OnAgents, OnLogs, OnCharts, OnDashboard, OnNodes, OnNode
  <2>. QED  BY <1>1, <2>1
<1>. QED  BY <1>9, <1>10

(***************************************************************************)
(* The lines of the charts are those of the range in the store, a range    *)
(* the selector may set (TimeRangeSelector.tsx, MetricsTabContent): dates  *)
(* that are none pass its checks and never get to a line.                  *)
(***************************************************************************)
THEOREM HistoryOwn == Spec => []HistoryOfRange
<1>1. Plotted /\ [Next]_vars => Plotted'
  BY PlottedKept
<1>2. Plotted => HistoryOfRange
  BY DEF Plotted, Legal, Answered, HistoryOfRange, Metrics!HistoryOfRange, Metrics!Chart
<1>. QED  BY <1>1, <1>2, PlottedInit, PTL DEF Spec

-----------------------------------------------------------------------------
(***************************************************************************)
(* The list of the nodes: what was deleted is not on the Manager, nor in   *)
(* an answer read since, and the page shown waits for such an answer.      *)
(* Only nodes that have registered are in an answer, so that what is       *)
(* deleted by a row that is shown cannot register later.                   *)
(***************************************************************************)
PageKeys == (0 .. 1) \X {1, 2}

Shown == pages[<<page, size>>]

Awaits(q) ==
    \A n \in gone :
        /\ q.phase = "read" => n \notin q.got.rows
        /\ q.data # None => n \notin q.data.rows \/ ~(q.phase = "idle") \/ q.error

Registered(q) ==
    /\ IsEntry(q)
    /\ q.data # None => q.data.rows \subseteq 1 .. newest
    /\ q.phase = "read" => q.got.rows \subseteq 1 .. newest

Tidy ==
    /\ newest \in Nat /\ nodes \subseteq 1 .. newest
    /\ gone \subseteq (1 .. newest) \ nodes
    /\ deletes \subseteq [id : Nat, served : BOOLEAN]
    /\ \A d \in deletes : d.id \in 1 .. newest /\ (d.served => d.id \notin nodes)
    /\ page \in 0 .. 1 /\ size \in {1, 2} /\ onList \in BOOLEAN
    /\ pages = [k \in PageKeys |-> pages[k]]
    /\ \A k \in PageKeys : Registered(pages[k])
    /\ Awaits(Shown)

LEMMA TidyInit == Init => Tidy
  <1> SUFFICES ASSUME Init PROVE Tidy
    OBVIOUS
  <1>1. /\ newest = 1 /\ nodes = {1} /\ gone = {} /\ deletes = {} /\ page = 0 /\ size = 1
        /\ onList = TRUE
        /\ pages = [[k \in PageKeys |-> List!Q!Empty]
                      EXCEPT ![<<0, 1>>] = List!Q!Fetch(List!Q!Empty)]
    BY DEF Init, List!Init, List!Keys, List!PageNumbers, List!Key, PageKeys
  <1>2. Registered(List!Q!Empty) /\ Registered(List!Q!Fetch(List!Q!Empty))
    BY DEF Registered, IsEntry, List!Q!Empty, List!Q!Fetch, List!Q!Idle, List!Q!Begin
  <1>3. pages = [k \in PageKeys |-> pages[k]] /\ \A k \in PageKeys : Registered(pages[k])
    BY <1>1, <1>2 DEF PageKeys
  <1>4. Awaits(Shown)
    BY <1>1 DEF Awaits
  <1>. QED  BY <1>1, <1>3, <1>4 DEF Tidy

LEMMA PageLater ==
    ASSUME NEW q, Registered(q), NEW stale \in BOOLEAN
    PROVE  /\ Registered(List!Q!Mount(q, stale)) /\ Registered(List!Q!Refetch(q))
           /\ Registered(List!Q!Invalidate(q, stale)) /\ Registered(List!Q!Fail(q))
           /\ Registered(List!Q!Pause(q))
           /\ \A watched \in BOOLEAN : Registered(List!Q!Reconnect(q, watched, stale))
           /\ Awaits(q) =>
                /\ Awaits(List!Q!Mount(q, stale)) /\ Awaits(List!Q!Refetch(q))
                /\ Awaits(List!Q!Invalidate(q, stale)) /\ Awaits(List!Q!Fail(q))
                /\ Awaits(List!Q!Pause(q))
                /\ \A watched \in BOOLEAN : Awaits(List!Q!Reconnect(q, watched, stale))
           /\ q.data # None => List!Q!Invalidate(q, TRUE).phase = "asked"
  <1> DEFINE out == [q EXCEPT !.invalid = q.data # None]
             again == [q EXCEPT !.phase = "asked"]
             Keeps(r, t) == Registered(t) /\ (Awaits(r) => Awaits(t))
  <1>1. /\ Registered(out) /\ out.data = q.data /\ out.phase = q.phase
        /\ out.got = q.got /\ out.error = q.error
    BY DEF Registered, IsEntry
  <1>2. \A r : Registered(r) =>
          /\ Registered(List!Q!Begin(r)) /\ List!Q!Begin(r).phase = "asked"
          /\ List!Q!Begin(r).data = r.data
    BY DEF Registered, IsEntry, List!Q!Begin
  <1>3. /\ Registered(List!Q!Fail(q)) /\ List!Q!Fail(q).phase = "idle" /\ List!Q!Fail(q).error
    BY DEF Registered, IsEntry, List!Q!Fail
  <1>4. List!Q!Invalidate(q, stale) = IF stale THEN List!Q!Refetch(out) ELSE out
    BY DEF List!Q!Invalidate
  <1>5. List!Q!Invalidate(q, TRUE) = List!Q!Refetch(out)
    BY DEF List!Q!Invalidate
  <1>6. /\ Registered(List!Q!Pause(q)) /\ List!Q!Pause(q).data = q.data
        /\ List!Q!Pause(q).phase = "paused"
        /\ Registered(again) /\ again.data = q.data /\ again.phase = "asked"
    BY DEF Registered, IsEntry, List!Q!Pause
  <1>7. \A watched \in BOOLEAN :
          List!Q!Reconnect(q, watched, stale) =
            IF q.phase = "paused" THEN again
            ELSE IF watched THEN List!Q!Mount(q, stale) ELSE q
    BY DEF List!Q!Reconnect
  <1> HIDE DEF out, again
  <1>8. \A r : Registered(r) => Keeps(r, List!Q!Refetch(r)) /\ Keeps(r, List!Q!Fetch(r))
    BY <1>2 DEF List!Q!Refetch, List!Q!Fetch, Awaits
  <1>9. q.data # None => List!Q!Refetch(out).phase = "asked"
    BY <1>1, <1>2 DEF List!Q!Refetch
  <1>10. Keeps(q, out) /\ Keeps(q, List!Q!Fail(q)) /\ Keeps(q, List!Q!Pause(q)) /\ Keeps(q, again)
    BY <1>1, <1>3, <1>6 DEF Awaits
  <1>11. Keeps(q, List!Q!Mount(q, stale))
    BY <1>8 DEF List!Q!Mount
  <1>12. Keeps(q, List!Q!Invalidate(q, stale))
    BY <1>1, <1>4, <1>8, <1>10
  <1>13. \A watched \in BOOLEAN : Keeps(q, List!Q!Reconnect(q, watched, stale))
    BY <1>7, <1>10, <1>11
  <1>. QED  BY <1>5, <1>8, <1>9, <1>10, <1>11, <1>12, <1>13

LEMMA TidyUpdate ==
    ASSUME Tidy, NEW p \in 0 .. 1, NEW s \in {1, 2}, NEW q, Registered(q),
           pages' = [pages EXCEPT ![<<p, s>>] = q],
           <<p, s>> = <<page, size>> => Awaits(q),
           UNCHANGED <<nodes, newest, page, size, onList, gone>>,
           deletes' = deletes
    PROVE  Tidy'
  <1>1. IF <<p, s>> = <<page, size>> THEN Shown' = q ELSE Shown' = Shown
    BY DEF Tidy, Shown, PageKeys
  <1>2. Awaits(Shown)'
    BY <1>1 DEF Tidy, Awaits
  <1>. QED  BY <1>2 DEF Tidy, Registered, PageKeys

LEMMA TidyMoves ==
    ASSUME Tidy, NEW p \in 0 .. 1, NEW s \in {1, 2}, NEW stale \in BOOLEAN,
           page' = p, size' = s, gone' = {}, onList' \in BOOLEAN,
           pages' = [pages EXCEPT ![<<p, s>>] = List!Q!Mount(pages[<<p, s>>], stale)],
           UNCHANGED <<nodes, newest, deletes>>
    PROVE  Tidy'
  <1>1. Registered(List!Q!Mount(pages[<<p, s>>], stale))
    BY PageLater DEF Tidy, PageKeys
  <1>2. Awaits(Shown)'
    BY DEF Awaits
  <1>. QED  BY <1>1, <1>2 DEF Tidy, Registered, PageKeys

LEMMA TidyKept ==
    ASSUME Tidy, [Next]_vars
    PROVE  Tidy'
<1> USE DEF List!Key, List!Update, List!Entry, List!server
<1>1. CASE UNCHANGED listVars
  BY <1>1 DEF listVars, Tidy, Shown, Awaits, Registered, IsEntry
<1>2. CASE List!Refresh
  <2>1. Registered(List!Q!Refetch(Shown)) /\ Awaits(List!Q!Refetch(Shown))
    BY PageLater DEF Tidy, Shown, PageKeys
  <2>. QED  BY <1>2, <2>1, TidyUpdate DEF List!Refresh, Tidy, Shown
<1>3. CASE List!Leave
  BY <1>3 DEF List!Leave, Tidy, Shown, Awaits, Registered, IsEntry
<1>4. CASE List!Register
  <2>1. /\ newest' = newest + 1 /\ nodes' = nodes \cup {newest + 1}
        /\ UNCHANGED <<pages, page, size, onList, deletes, gone>>
    BY <1>4 DEF List!Register
  <2>2. Awaits(Shown)'
    BY <2>1 DEF Tidy, Awaits, Shown
  <2>3. /\ newest' \in Nat /\ nodes' \subseteq 1 .. newest'
        /\ \A n \in (1 .. newest) \ nodes : n \in (1 .. newest') \ nodes'
        /\ 1 .. newest \subseteq 1 .. newest'
    BY <2>1 DEF Tidy
  <2>4. \A k \in PageKeys : Registered(pages[k])'
    BY <2>1, <2>3 DEF Tidy, Registered
  <2>5. \A d \in deletes' : d.id \in 1 .. newest' /\ (d.served => d.id \notin nodes')
    BY <2>1, <2>3 DEF Tidy
  <2>. QED  BY <2>1, <2>2, <2>3, <2>4, <2>5 DEF Tidy
<1>5. ASSUME NEW stale \in BOOLEAN, List!Return(stale)
      PROVE  Tidy'
  <2>1. /\ onList' = TRUE /\ page' = 0 /\ size' = 1 /\ gone' = {}
        /\ pages' = [pages EXCEPT ![<<0, 1>>] = List!Q!Mount(pages[<<0, 1>>], stale)]
        /\ UNCHANGED <<nodes, newest, deletes>>
    BY <1>5 DEF List!Return
  <2>2. 0 \in 0 .. 1 /\ 1 \in {1, 2} /\ onList' \in BOOLEAN
    BY <2>1
  <2>. QED  BY ONLY Tidy, <2>1, <2>2, TidyMoves
<1>6. ASSUME NEW stale \in BOOLEAN, NEW p \in 0 .. 1, List!ChangePage(p, stale)
      PROVE  Tidy'
  BY <1>6, TidyMoves DEF List!ChangePage, List!GoTo, Tidy
<1>7. ASSUME NEW stale \in BOOLEAN, NEW s \in {1, 2}, List!ChangeSize(s, stale)
      PROVE  Tidy'
  <2>1. /\ page' = 0 /\ size' = s /\ gone' = {}
        /\ pages' = [pages EXCEPT ![<<0, s>>] = List!Q!Mount(pages[<<0, s>>], stale)]
        /\ UNCHANGED <<nodes, newest, deletes, onList>>
    BY <1>7 DEF List!ChangeSize, List!GoTo
  <2>2. 0 \in 0 .. 1 /\ onList' \in BOOLEAN
    BY <2>1 DEF Tidy
  <2>. QED  BY ONLY Tidy, s \in {1, 2}, <2>1, <2>2, TidyMoves
<1>8. ASSUME NEW n \in 1 .. 2, List!Delete(n)
      PROVE  Tidy'
  <2>1. /\ deletes' = deletes \cup {[id |-> n, served |-> FALSE]}
        /\ UNCHANGED <<nodes, newest, pages, page, size, onList, gone>>
    BY <1>8 DEF List!Delete
  <2>2. Awaits(Shown)'
    BY <2>1 DEF Tidy, Awaits, Shown
  <2>3. [id |-> n, served |-> FALSE] \in [id : Nat, served : BOOLEAN]
    OBVIOUS
  <2>4. n \in 1 .. newest
    <3>1. n \in Shown.data.rows /\ Shown.data # None
      BY <1>8 DEF List!Delete, List!Rows, Shown
    <3>2. Registered(Shown)
      BY DEF Tidy, Shown, PageKeys
    <3>. QED  BY <3>1, <3>2 DEF Registered
  <2>5. /\ deletes' \subseteq [id : Nat, served : BOOLEAN]
        /\ \A d \in deletes' : d.id \in 1 .. newest /\ (d.served => d.id \notin nodes)
    <3>1. \A d \in deletes' : d \in deletes \/ (d.id = n /\ d.served = FALSE)
      BY <2>1
    <3>. QED  BY <2>1, <2>3, <2>4, <3>1 DEF Tidy
  <2>. QED  BY <2>1, <2>2, <2>5 DEF Tidy, Registered
<1>9. ASSUME NEW d \in deletes, List!Served(d)
      PROVE  Tidy'
  <2>1. /\ nodes' = nodes \ {d.id}
        /\ deletes' = (deletes \ {d}) \cup {[d EXCEPT !.served = TRUE]}
        /\ UNCHANGED <<newest, pages, page, size, onList, gone>>
    BY <1>9 DEF List!Served
  <2>2. Awaits(Shown)'
    BY <2>1 DEF Tidy, Awaits, Shown
  <2>3. /\ [d EXCEPT !.served = TRUE] \in [id : Nat, served : BOOLEAN]
        /\ [d EXCEPT !.served = TRUE].id = d.id
    BY DEF Tidy
  <2>4. /\ nodes' \subseteq 1 .. newest /\ gone' \subseteq (1 .. newest) \ nodes'
        /\ \A e \in deletes' : e.id \in 1 .. newest /\ (e.served => e.id \notin nodes')
    BY <2>1, <2>3 DEF Tidy
  <2>. QED  BY <2>1, <2>2, <2>3, <2>4 DEF Tidy, Registered
<1>10. ASSUME NEW d \in deletes, List!DeleteOk(d)
       PROVE  Tidy'
  <2> DEFINE watched(k) == onList /\ k = <<page, size>>
  <2>1. /\ d.served /\ deletes' = deletes \ {d}
        /\ pages' = [k \in PageKeys |-> List!Q!Invalidate(pages[k], watched(k))]
        /\ gone' = IF onList /\ Shown.data # None THEN gone \cup {d.id} ELSE gone
        /\ UNCHANGED <<nodes, newest, page, size, onList>>
    BY <1>10 DEF List!DeleteOk, List!AfterDelete, List!Keys, List!PageNumbers, PageKeys, Shown
  <2>2. \A k \in PageKeys : watched(k) \in BOOLEAN /\ Registered(pages[k])
    BY DEF Tidy
  <2>3. \A k \in PageKeys : Registered(List!Q!Invalidate(pages[k], watched(k)))
    BY <2>2, PageLater
  <2>4. <<page, size>> \in PageKeys /\ Shown = pages[<<page, size>>] /\ Awaits(Shown)
    BY DEF Tidy, PageKeys, Shown
  <2>5. Shown' = List!Q!Invalidate(Shown, onList)
    BY <2>1, <2>4 DEF Shown, Tidy
  <2>6. Awaits(List!Q!Invalidate(Shown, onList))
    BY <2>2, <2>4, PageLater DEF Tidy
  <2>7. onList /\ Shown.data # None => Shown'.phase = "asked"
    BY <2>2, <2>4, <2>5, PageLater
  <2>8. Awaits(Shown)'
    BY <2>1, <2>5, <2>6, <2>7 DEF Awaits
  <2>9. gone' \subseteq (1 .. newest) \ nodes
    BY <2>1 DEF Tidy
  <2>. QED  BY <2>1, <2>3, <2>8, <2>9 DEF Tidy, Registered
<1>11. ASSUME NEW d \in deletes, List!DeleteFails(d)
       PROVE  Tidy'
  <2>1. deletes' \subseteq deletes /\ UNCHANGED <<nodes, newest, pages, page, size, onList, gone>>
    BY <1>11 DEF List!DeleteFails
  <2>2. Awaits(Shown)'
    BY <2>1 DEF Tidy, Awaits, Shown
  <2>. QED  BY <2>1, <2>2 DEF Tidy, Registered
<1>12. ASSUME NEW p \in 0 .. 1, NEW s \in {1, 2},
              \/ List!CountNodes(p, s) \/ List!FindPage(p, s) \/ List!PageOk(p, s)
              \/ List!PageFails(p, s) \/ List!Pause(p, s)
       PROVE  Tidy'
  <2> DEFINE q == pages[<<p, s>>]
  <2>1. Registered(q) /\ IsEntry(q) /\ (<<p, s>> = <<page, size>> => q = Shown /\ Awaits(q))
    BY DEF Tidy, Registered, PageKeys, Shown
  <2>2. CASE List!CountNodes(p, s)
    <3> DEFINE counted == [page |-> p, size |-> s, rows |-> {},
                           more |-> (p + 1) * s < List!Cardinality(nodes)]
    <3>1. /\ pages' = [pages EXCEPT ![<<p, s>>] = [q EXCEPT !.got = counted]]
          /\ UNCHANGED <<nodes, newest, page, size, onList, deletes, gone>>
          /\ q.phase = "asked"
      BY <2>2 DEF List!CountNodes
    <3> HIDE DEF counted
    <3>2. /\ Registered([q EXCEPT !.got = counted])
          /\ [q EXCEPT !.got = counted].data = q.data
          /\ [q EXCEPT !.got = counted].phase = q.phase
      BY <2>1, <3>1 DEF Registered, IsEntry
    <3>3. <<p, s>> = <<page, size>> => Awaits([q EXCEPT !.got = counted])
      BY <2>1, <3>1, <3>2 DEF Awaits
    <3>. QED  BY <3>1, <3>2, <3>3, TidyUpdate
  <2>3. CASE List!FindPage(p, s)
    <3> DEFINE answer == [page |-> p, size |-> s, rows |-> List!PageOf(p, s),
                          more |-> q.got.more]
    <3>1. /\ pages' = [pages EXCEPT ![<<p, s>>] = List!Q!Read(q, answer)]
          /\ UNCHANGED <<nodes, newest, page, size, onList, deletes, gone>>
      BY <2>3 DEF List!FindPage
    <3>2. answer.rows \subseteq nodes
      BY DEF List!PageOf
    <3> HIDE DEF answer
    <3>3. /\ IsEntry(List!Q!Read(q, answer)) /\ List!Q!Read(q, answer).data = q.data
          /\ List!Q!Read(q, answer).phase = "read" /\ List!Q!Read(q, answer).got = answer
      BY <2>1 DEF IsEntry, List!Q!Read
    <3>4. Awaits(List!Q!Read(q, answer)) /\ Registered(List!Q!Read(q, answer))
      BY <2>1, <3>2, <3>3 DEF Awaits, Registered, Tidy
    <3>. QED  BY <3>1, <3>4, TidyUpdate
  <2>4. CASE List!PageOk(p, s)
    <3>1. /\ IsEntry(List!Q!Succeed(q)) /\ List!Q!Succeed(q).data = q.got
          /\ List!Q!Succeed(q).phase = "idle"
      BY <2>1 DEF IsEntry, List!Q!Succeed, List!Q!Empty
    <3>2. <<p, s>> = <<page, size>> => Awaits(List!Q!Succeed(q))
      BY <2>1, <2>4, <3>1 DEF Awaits, List!PageOk
    <3>3. Registered(List!Q!Succeed(q))
      BY <2>1, <2>4, <3>1 DEF Registered, List!PageOk
    <3>. QED  BY <2>4, <3>2, <3>3, TidyUpdate DEF List!PageOk
  <2>5. CASE List!PageFails(p, s)
    <3>1. /\ Registered(List!Q!Fail(q))
          /\ <<p, s>> = <<page, size>> => Awaits(List!Q!Fail(q))
      BY <2>1, PageLater
    <3>. QED  BY <2>5, <3>1, TidyUpdate DEF List!PageFails
  <2>6. CASE List!Pause(p, s)
    <3>1. /\ Registered(List!Q!Pause(q))
          /\ <<p, s>> = <<page, size>> => Awaits(List!Q!Pause(q))
      BY <2>1, PageLater
    <3>. QED  BY <2>6, <3>1, TidyUpdate DEF List!Pause
  <2>. QED  BY <1>12, <2>2, <2>3, <2>4, <2>5, <2>6
<1>13. ASSUME NEW stale \in BOOLEAN, List!Reconnect(stale)
       PROVE  Tidy'
  <2> DEFINE watched(k) == onList /\ k = <<page, size>>
  <2>1. /\ pages' = [k \in PageKeys |-> List!Q!Reconnect(pages[k], watched(k), stale)]
        /\ UNCHANGED <<nodes, newest, page, size, onList, deletes, gone>>
    BY <1>13 DEF List!Reconnect, List!Keys, List!PageNumbers, PageKeys
  <2>2. \A k \in PageKeys : watched(k) \in BOOLEAN /\ Registered(pages[k])
    BY DEF Tidy
  <2>3. <<page, size>> \in PageKeys /\ Shown = pages[<<page, size>>] /\ Awaits(Shown)
    BY DEF Tidy, PageKeys, Shown
  <2> HIDE DEF watched
  <2>4. \A k \in PageKeys : Registered(List!Q!Reconnect(pages[k], watched(k), stale))
    BY <2>2, PageLater
  <2>5. Shown' = List!Q!Reconnect(Shown, watched(<<page, size>>), stale)
    BY <2>1, <2>3 DEF Shown, Tidy
  <2>6. Awaits(Shown') /\ gone' = gone
    BY <2>1, <2>2, <2>3, <2>5, PageLater
  <2>7. Awaits(Shown)'
    BY <2>6 DEF Awaits
  <2>8. \A k \in PageKeys : Registered(pages[k])'
    BY <2>1, <2>4 DEF Registered
  <2>9. pages' = [k \in PageKeys |-> pages'[k]]
    BY <2>1
  <2>. QED  BY <2>1, <2>7, <2>8, <2>9 DEF Tidy
<1>14. CASE OnNodes /\ List!Next
  <2>1. List!PageNumbers = 0 .. 1 /\ List!Ids = 1 .. 2
    BY DEF List!PageNumbers, List!Ids
  <2>. QED
    BY <2>1, <1>14, <1>2, <1>3, <1>4, <1>5, <1>6, <1>7, <1>8, <1>9, <1>10, <1>11, <1>12,
       <1>13
       DEF List!Next
<1>15. CASE ~(OnNodes /\ List!Next)
  <2>1. UNCHANGED listVars
    BY <1>15 DEF Next, vars, OnAgents, OnLogs, OnCharts, OnDashboard, OnMetrics, OnNode
  <2>. QED  BY <1>1, <2>1
<1>. QED  BY <1>14, <1>15

(***************************************************************************)
(* A row whose deletion was answered to the page that shows it goes, or    *)
(* the fetch that was to take it away has failed (List.tsx, useDeleteNode).*)
(***************************************************************************)
THEOREM DeletedGone == Spec => []DeletedRowGoes
<1>1. Tidy /\ [Next]_vars => Tidy'
  BY TidyKept
<1>2. Tidy => DeletedRowGoes
  <2> SUFFICES ASSUME Tidy, NEW n \in gone
               PROVE  \/ n \notin List!Rows
                      \/ Shown.phase \in {"asked", "paused"}
                      \/ Shown.phase = "read" /\ n \notin Shown.got.rows
                      \/ Shown.error
    BY DEF DeletedRowGoes, List!DeletedRowGoes, List!Entry, List!Key, Shown
  <2>1. IsEntry(Shown) /\ Awaits(Shown)
    BY DEF Tidy, Registered, PageKeys, Shown
  <2>. QED  BY <2>1 DEF Awaits, IsEntry, List!Rows, List!Entry, List!Key, Shown
<1>. QED  BY <1>1, <1>2, TidyInit, PTL DEF Spec
=============================================================================
