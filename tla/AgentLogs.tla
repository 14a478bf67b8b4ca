------------------------------ MODULE AgentLogs ------------------------------
(***************************************************************************)
(* The log dialog of the agents tab (AgentLogsDialog in Detail.tsx and the *)
(* handlers of the tab that open and close it).  Each agent's lines are a  *)
(* query of their own; the tab hides the dialog while it shows no table,   *)
(* and keeps which agent it was for.                                       *)
(***************************************************************************)
EXTENDS Naturals

CONSTANTS Agents,   \* agents of the node
          None,     \* no agent, no data
          MaxLines  \* bound: lines an agent logs

VARIABLES
    lines,     \* Daemon: how many lines each agent has logged
    logs,      \* the queries ['agent-logs', nodeId, agentId]
    open,      \* logDialogOpen
    viewing,   \* viewingAgentId
    auto,      \* autoRefresh
    hidden     \* the tab shows a spinner or an error in place of its table

vars == <<lines, logs, open, viewing, auto, hidden>>

Q == INSTANCE Query

(* The last lines of an agent. *)
Logs == [agent : Agents, upto : 0 .. MaxLines]

TypeOK ==
    /\ lines \in [Agents -> 0 .. MaxLines]
    /\ logs \in [Agents -> Q!Entries(Logs)]
    /\ open \in BOOLEAN /\ auto \in BOOLEAN /\ hidden \in BOOLEAN
    /\ viewing \in Agents \cup {None}

Init ==
    /\ lines = [a \in Agents |-> 0]
    /\ logs = [a \in Agents |-> Q!Empty]
    /\ open = FALSE /\ viewing = None /\ auto = TRUE /\ hidden = FALSE

-----------------------------------------------------------------------------
(* Mutant of Key: the query's key leaves the agent out. *)
KeyOfNode(a) == CHOOSE any \in Agents : TRUE

(* The cache entry the dialog of an agent reads. *)
Key(a) == a

(* The dialog's query is active only for an agent whose dialog is open. *)
Enabled == open /\ viewing # None

Entry == IF viewing = None THEN Q!Empty ELSE logs[Key(viewing)]

Update(k, q) == logs' = [logs EXCEPT ![k] = q]

(* What the dialog shows. *)
View ==
    CASE Q!Loading(Entry) -> "loading"
      [] ~Q!Loading(Entry) /\ Entry.error -> "error"
      [] ~Q!Loading(Entry) /\ ~Entry.error /\ Entry.data = None -> "empty"
      [] OTHER -> "lines"

(* handleExportLogs: the name of the file and the lines it gets. *)
Export == [name |-> viewing, lines |-> Entry.data]

(* handleViewLogs: a press in the row of an agent. *)
ViewLogs(a, stale) ==
    /\ ~open /\ ~hidden
    /\ open' = TRUE /\ viewing' = a
    /\ Update(Key(a), Q!Mount(logs[Key(a)], stale))
    /\ UNCHANGED <<lines, auto, hidden>>

(* handleCloseLogDialog *)
Close ==
    /\ open /\ ~hidden
    /\ open' = FALSE /\ viewing' = None
    /\ UNCHANGED <<lines, logs, auto, hidden>>

ToggleAuto ==
    /\ open /\ ~hidden
    /\ auto' = ~auto
    /\ UNCHANGED <<lines, logs, open, viewing, hidden>>

(* Mutant of Poll: the lines are refreshed until there are some. *)
PollUntilLoaded ==
    /\ Enabled /\ ~hidden /\ auto /\ Entry.data = None
    /\ Update(Key(viewing), Q!Fetch(Entry))
    /\ UNCHANGED <<lines, open, viewing, auto, hidden>>

(* refetchInterval: every five seconds while auto refresh is on. *)
Poll ==
    /\ Enabled /\ ~hidden /\ auto
    /\ Update(Key(viewing), Q!Fetch(Entry))
    /\ UNCHANGED <<lines, open, viewing, auto, hidden>>

(* The refresh button, and the retry of the error view. *)
Refresh ==
    /\ Enabled /\ ~hidden
    /\ View = "error" \/ ~Q!Fetching(Entry)
    /\ Update(Key(viewing), Q!Refetch(Entry))
    /\ UNCHANGED <<lines, open, viewing, auto, hidden>>

(* getAgentLogs: the agent is the one the dialog was opened for when the    *)
(* fetch began, which is the one of its key.                                *)
ReadLogs(k) ==
    /\ logs[k].phase = "asked"
    /\ \E a \in Agents :
        /\ Key(a) = k
        /\ Update(k, Q!Read(logs[k], [agent |-> a, upto |-> lines[a]]))
    /\ UNCHANGED <<lines, open, viewing, auto, hidden>>

(* What the dialog does with lines, should any come: the Manager answers    *)
(* every valid request with an error that says logs are not implemented.    *)
LogsOk(k) ==
    /\ logs[k].phase = "read"
    /\ Update(k, Q!Succeed(logs[k]))
    /\ UNCHANGED <<lines, open, viewing, auto, hidden>>

LogsFail(k) ==
    /\ Q!Fetching(logs[k])
    /\ Update(k, Q!Fail(logs[k]))
    /\ UNCHANGED <<lines, open, viewing, auto, hidden>>

(* The browser is offline when lines are asked for, or asked for again. *)
Pause(k) ==
    /\ Q!Fetching(logs[k])
    /\ Update(k, Q!Pause(logs[k]))
    /\ UNCHANGED <<lines, open, viewing, auto, hidden>>

Reconnect(stale) ==
    /\ logs' = [k \in Agents |->
                 Q!Reconnect(logs[k], Enabled /\ ~hidden /\ k = Key(viewing), stale)]
    /\ UNCHANGED <<lines, open, viewing, auto, hidden>>

(* The tab's list fails or loads: the dialog is gone and comes back as it   *)
(* was, with its query mounted anew.                                        *)
Hide ==
    /\ ~hidden
    /\ hidden' = TRUE
    /\ UNCHANGED <<lines, logs, open, viewing, auto>>

Unhide(stale) ==
    /\ hidden
    /\ hidden' = FALSE
    /\ IF Enabled THEN Update(Key(viewing), Q!Mount(Entry, stale)) ELSE UNCHANGED logs
    /\ UNCHANGED <<lines, open, viewing, auto>>

Log(a) ==
    /\ lines[a] < MaxLines
    /\ lines' = [lines EXCEPT ![a] = @ + 1]
    /\ UNCHANGED <<logs, open, viewing, auto, hidden>>

Next ==
    \/ \E a \in Agents :
        \/ Log(a) \/ \E stale \in BOOLEAN : ViewLogs(a, stale)
        \/ ReadLogs(a) \/ LogsOk(a) \/ LogsFail(a) \/ Pause(a)
    \/ Close \/ ToggleAuto \/ Poll \/ Refresh
    \/ Hide
    \/ \E stale \in BOOLEAN : Unhide(stale) \/ Reconnect(stale)

(* A fetch for the dialog that is open is answered one way or the other, if *)
(* only by its timeout, and the network comes back to one that waits for it.*)
Answered == Enabled /\ (LogsOk(Key(viewing)) \/ LogsFail(Key(viewing)))
Resume == Entry.phase = "paused" /\ \E stale \in BOOLEAN : Reconnect(stale)

Fairness == WF_vars(Poll) /\ WF_vars(Resume) /\ SF_vars(Answered)

Spec == Init /\ [][Next]_vars /\ Fairness

-----------------------------------------------------------------------------
(* Properties *)

(* The lines exported under an agent's name, which are those on the screen, *)
(* are that agent's, whichever dialogs were opened and closed while their   *)
(* fetches were under way.                                                  *)
LogsOfViewedAgent ==
    viewing # None /\ Entry.data # None => Export.lines.agent = Export.name

(* While a dialog stays open with auto refresh on, it comes to show every   *)
(* line its agent has logged, or an error: a spinner, old lines, or the     *)
(* "no logs" it shows while its first fetch waits for the network, are not  *)
(* its last word.                                                           *)
LogsAnswered ==
    \A n \in 0 .. MaxLines :
        Enabled /\ ~hidden /\ auto /\ lines[viewing] >= n ~>
            \/ ~Enabled \/ hidden \/ ~auto
            \/ View = "error"
            \/ View = "lines" /\ Entry.data.upto >= n
=============================================================================
