------------------------------ MODULE AgentsTab ------------------------------
(***************************************************************************)
(* The agents tab of a node's page (AgentsTabContent in Detail.tsx): the   *)
(* list it polls, the operations and the manual sync it sends, the         *)
(* messages it shows of them, and the Manager's rows behind it.            *)
(*                                                                         *)
(* The tab may be left and come back to at any time: its component state   *)
(* is lost, the query cache and the calls in flight are not.  A callback   *)
(* of a mutation runs even when the tab that sent it is gone.              *)
(***************************************************************************)
EXTENDS Naturals

CONSTANTS Agents,      \* agents of the node
          None,        \* no data, no message
          MaxChanges,  \* bound: changes of the Manager's rows
          MaxCalls     \* bound: operations and syncs sent

VARIABLES
    rows,      \* Manager: the agents' statuses, and how many changes made them
    list,      \* the query ['agents', nodeId]
    shown,     \* the tab is mounted
    calls,     \* mutations in flight
    sent,      \* how many were sent
    failed,    \* mutations whose error the tab shows
    message,   \* the success message shown, or None
    timers,    \* pending timers that clear it
    expected   \* the last change known from a call answered to a tab with a list

tab == <<shown, failed, message, timers>>
vars == <<rows, list, tab, calls, sent, expected>>

Q == INSTANCE Query

Statuses == {"running", "stopped", "failed"}
Operations == {"start", "stop", "restart"}
Mutations == {"operate", "sync"}
Lists == [at : 0 .. MaxChanges, status : [Agents -> Statuses]]

(* A call: mine, sent by the tab as it is mounted now; at, the change the   *)
(* Manager made for it, or None before it is served.                        *)
Calls == [kind : Mutations, agent : Agents, op : Operations, mine : BOOLEAN,
          at : 0 .. MaxChanges \cup {None}]

TypeOK ==
    /\ rows \in Lists
    /\ list \in Q!Entries(Lists)
    /\ shown \in BOOLEAN
    /\ calls \subseteq Calls
    /\ sent \in 0 .. MaxCalls
    /\ failed \subseteq Mutations
    /\ message \in Mutations \cup {None}
    /\ timers \in 0 .. MaxCalls
    /\ expected \in 0 .. MaxChanges

Init ==
    /\ rows = [at |-> 0, status |-> [a \in Agents |-> "running"]]
    /\ list = Q!Fetch(Q!Empty)
    /\ shown = TRUE
    /\ calls = {} /\ sent = 0 /\ failed = {}
    /\ message = None /\ timers = 0 /\ expected = 0

-----------------------------------------------------------------------------
(* What is on the screen *)

(* Without data, error or a fetch that runs the table says there are no agents. *)
View ==
    CASE Q!Loading(list) -> "loading"
      [] ~Q!Loading(list) /\ list.error -> "error"
      [] OTHER -> "table"

Pending(kind) == \E c \in calls : c.kind = kind /\ c.mine

(* The operations whose buttons are enabled in an agent's row. *)
Buttons(a) ==
    IF Pending("operate") THEN {}
    ELSE CASE list.data.status[a] = "running" -> {"stop", "restart"}
           [] list.data.status[a] = "stopped" -> {"start"}
           [] OTHER -> Operations

-----------------------------------------------------------------------------
(* The list *)

(* Mutant of Poll: an error ends the polling. *)
PollUntilError ==
    /\ shown /\ ~list.error
    /\ list' = Q!Fetch(list)
    /\ UNCHANGED <<rows, tab, calls, sent, expected>>

(* refetchInterval: every 30 seconds while the tab is mounted. *)
Poll ==
    /\ shown
    /\ list' = Q!Fetch(list)
    /\ UNCHANGED <<rows, tab, calls, sent, expected>>

(* The refresh button, and the retry of the error view. *)
Refresh ==
    /\ shown
    /\ \/ View = "error"
       \/ View = "table" /\ ~Q!Refetching(list)
    /\ list' = Q!Refetch(list)
    /\ UNCHANGED <<rows, tab, calls, sent, expected>>

(* listAgents reaches the Manager. *)
ReadList ==
    /\ list.phase = "asked"
    /\ list' = Q!Read(list, rows)
    /\ UNCHANGED <<rows, tab, calls, sent, expected>>

ListOk ==
    /\ list.phase = "read"
    /\ list' = Q!Succeed(list)
    /\ UNCHANGED <<rows, tab, calls, sent, expected>>

ListFails ==
    /\ Q!Fetching(list)
    /\ list' = Q!Fail(list)
    /\ UNCHANGED <<rows, tab, calls, sent, expected>>

(* The browser is offline when the list is asked for, or asked for again. *)
Pause ==
    /\ Q!Fetching(list)
    /\ list' = Q!Pause(list)
    /\ UNCHANGED <<rows, tab, calls, sent, expected>>

Reconnect(stale) ==
    /\ list' = Q!Reconnect(list, shown, stale)
    /\ UNCHANGED <<rows, tab, calls, sent, expected>>

-----------------------------------------------------------------------------
(* Operations and syncs *)

(* A mutation forgets the error of the one before. *)
Send(kind, a, op) ==
    /\ sent < MaxCalls
    /\ sent' = sent + 1
    /\ calls' = calls \cup
         {[kind |-> kind, agent |-> a, op |-> op, mine |-> TRUE, at |-> None]}
    /\ failed' = failed \ {kind}
    /\ UNCHANGED <<rows, list, shown, message, timers, expected>>

(* handleOperate *)
Operate(a, op) ==
    /\ shown /\ View = "table" /\ list.data # None /\ op \in Buttons(a)
    /\ Send("operate", a, op)

(* The sync button; the agent and the operation of its call mean nothing. *)
Sync ==
    /\ shown /\ View = "table" /\ ~Pending("sync")
    /\ Send("sync", CHOOSE a \in Agents : TRUE, "start")

Change(status) == rows' = [at |-> rows.at + 1, status |-> status]

(* The Manager carries a call out: the Daemon has done the operation, or    *)
(* has reported what runs.                                                  *)
Serve(c) ==
    /\ c \in calls /\ c.at = None /\ rows.at < MaxChanges
    /\ \E s \in Statuses :
        /\ c.kind = "operate" => s = IF c.op = "stop" THEN "stopped" ELSE "running"
        /\ Change([rows.status EXCEPT ![c.agent] = s])
    /\ calls' = (calls \ {c}) \cup {[c EXCEPT !.at = rows.at + 1]}
    /\ UNCHANGED <<list, tab, sent, expected>>

(* Mutant of AfterSuccess: the rows it answers are put into the cache, and  *)
(* a fetch under way goes on.                                               *)
AfterSuccessSetsList(c) ==
    /\ list' = [list EXCEPT !.data = rows]
    /\ IF c.mine THEN message' = c.kind /\ timers' = timers + 1
                 ELSE UNCHANGED <<message, timers>>

(* Mutant of AfterSuccess: a poll under way counts as the refresh. *)
AfterSuccessSharesPoll(c) ==
    /\ list' = IF shown THEN Q!Fetch(list) ELSE [list EXCEPT !.invalid = TRUE]
    /\ IF c.mine THEN message' = c.kind /\ timers' = timers + 1
                 ELSE UNCHANGED <<message, timers>>

(* onSuccess of both mutations: the list is invalidated and the success     *)
(* shown for three seconds.  A tab that is gone shows nothing.              *)
AfterSuccess(c) ==
    /\ list' = Q!Invalidate(list, shown)
    /\ IF c.mine THEN message' = c.kind /\ timers' = timers + 1
                 ELSE UNCHANGED <<message, timers>>

CallOk(c) ==
    /\ c \in calls /\ c.at # None
    /\ calls' = calls \ {c}
    /\ AfterSuccess(c)
    /\ expected' = IF shown /\ list.data # None /\ c.at > expected THEN c.at ELSE expected
    /\ UNCHANGED <<rows, shown, sent, failed>>

(* Refused, failed, or served with its answer lost: onError only logs, the  *)
(* tab shows the mutation's error, and the list is not asked for again.     *)
CallFails(c) ==
    /\ c \in calls
    /\ calls' = calls \ {c}
    /\ failed' = IF c.mine THEN failed \cup {c.kind} ELSE failed
    /\ UNCHANGED <<rows, list, shown, sent, message, timers, expected>>

(* A timer clears the message there is, its own or a later one. *)
TimerFires ==
    /\ timers > 0
    /\ timers' = timers - 1
    /\ message' = None
    /\ UNCHANGED <<rows, list, shown, calls, sent, failed, expected>>

(* The close buttons of the messages. *)
CloseMessage ==
    /\ shown /\ View = "table"
    /\ \/ message # None /\ message' = None /\ UNCHANGED failed
       \/ \E kind \in failed : failed' = failed \ {kind} /\ UNCHANGED message
    /\ UNCHANGED <<rows, list, shown, calls, sent, timers, expected>>

-----------------------------------------------------------------------------
(* Around the tab *)

(* The component goes; the calls it sent and the list's fetch go on. *)
Leave ==
    /\ shown
    /\ shown' = FALSE /\ failed' = {} /\ message' = None /\ timers' = 0
    /\ calls' = {[c EXCEPT !.mine = FALSE] : c \in calls}
    /\ UNCHANGED <<rows, list, sent, expected>>

(* A new component: nothing is pending for it, and the list is fetched when *)
(* it is missing, invalid or more than five seconds old.                    *)
Return(stale) ==
    /\ ~shown
    /\ shown' = TRUE
    /\ list' = Q!Mount(list, stale)
    /\ UNCHANGED <<rows, calls, sent, failed, message, timers, expected>>

(* A Daemon reports an agent whose status has changed. *)
Reported(a, s) ==
    /\ rows.at < MaxChanges /\ rows.status[a] # s
    /\ Change([rows.status EXCEPT ![a] = s])
    /\ UNCHANGED <<list, tab, calls, sent, expected>>

Next ==
    \/ Poll \/ Refresh \/ ReadList \/ ListOk \/ ListFails \/ Pause
    \/ \E a \in Agents, op \in Operations : Operate(a, op)
    \/ Sync
    \/ \E c \in calls : Serve(c) \/ CallOk(c) \/ CallFails(c)
    \/ TimerFires \/ CloseMessage \/ Leave
    \/ \E stale \in BOOLEAN : Return(stale) \/ Reconnect(stale)
    \/ \E a \in Agents, s \in {"failed"} : Reported(a, s)

(* The network comes back to a list that waits for it. *)
Resume == list.phase = "paused" /\ \E stale \in BOOLEAN : Reconnect(stale)

(* Timers fire, and of the lists asked for again and again some arrive. *)
Fairness ==
    /\ WF_vars(Poll) /\ WF_vars(TimerFires) /\ WF_vars(Resume)
    /\ SF_vars(ReadList) /\ SF_vars(ListOk)

Spec == Init /\ [][Next]_vars /\ Fairness

-----------------------------------------------------------------------------
(* Properties *)

(* A success answered to a mounted tab that has a list is shown: the list   *)
(* is as new as what the Manager did for the call, or a fetch that will see *)
(* it is under way or waits for the network, or that fetch failed and says  *)
(* so.  A poll the Manager answered before the operation must not pass for  *)
(* it.  (A tab that is away only marks the list, and a fetch begun before   *)
(* the operation takes the mark off again; a first fetch, which the network *)
(* has held up, is not given up either.)                                    *)
OperationShown ==
    \/ list.data # None /\ list.data.at >= expected
    \/ list.phase \in {"asked", "paused"}
    \/ list.phase = "read" /\ list.got.at >= expected
    \/ list.error

(* What the table shows never goes back to an older state of the rows, *)
(* however polls, refreshes, retries and invalidations overlap.        *)
ListNeverOlder ==
    [][list.data # None => list'.data # None /\ list'.data.at >= list.data.at]_vars

(* Nothing passing stays on the screen: the message of a success goes, and  *)
(* a tab that shows an error instead of the list shows the list again,      *)
(* though nobody presses retry: the error stops neither the poll nor what   *)
(* it brings.                                                               *)
NothingSticks ==
    /\ message # None ~> message = None
    /\ shown /\ View = "error" ~> ~shown \/ View # "error"
=============================================================================
