------------------------------ MODULE WebConsole ------------------------------
(***************************************************************************)
(* The pages of the web front end side by side.  Each page has its own     *)
(* entries of the query cache and its own component state, and what one    *)
(* page can do to another (mounting it, leaving it, hiding it, changing    *)
(* the refresh interval) the page's module has as a step that may always   *)
(* happen.  No step of a page reads or writes another's variables, so a    *)
(* behaviour is looked at one page at a time: focus is that page.          *)
(***************************************************************************)
EXTENDS Naturals, Sequences

CONSTANTS Agents, First,  \* agents of the node, the first of its list
          Nodes,          \* nodes a route may name
          None, Invalid,  \* no value, and a date that is none
          MaxCalls,       \* bound of the changes and calls of the agents tab
          Usages,         \* what the nodes of an overview may use
          MaxReported,    \* nodes an overview reports at most
          ShownAlerts,    \* alerts the dashboard has room for
          TopNodes        \* nodes its ranking has room for

VARIABLES focus   \* the page looked at

VARIABLES rows, list, shown, calls, sent, failed, message, timers, expected
Tab == INSTANCE AgentsTab WITH Agents <- {First}, MaxChanges <- MaxCalls
tabVars == <<rows, list, shown, calls, sent, failed, message, timers, expected>>

VARIABLES lines, logs, open, viewing, auto, hidden
Dialog == INSTANCE AgentLogs WITH MaxLines <- 1
dialogVars == <<lines, logs, open, viewing, auto, hidden>>

VARIABLES listed, selected, picked, agentPreset, agentRange, charts
Charts == INSTANCE AgentCharts WITH
    Presets <- {"1h", "6h"}, Default <- "1h", Metrics <- {"cpu"}, MaxRanges <- 3,
    preset <- agentPreset, range <- agentRange
chartVars == <<listed, selected, picked, agentPreset, agentRange, charts>>

(* What the Manager may say of the nodes. *)
Overviews == UNION {[1 .. n -> Usages] : n \in 0 .. MaxReported}

VARIABLES overview, pace, countdown, sortBy, visible
Board == INSTANCE Dashboard WITH
    Intervals <- {1, 2}, Default <- 1, interval <- pace
boardVars == <<overview, pace, countdown, sortBy, visible>>

VARIABLES nodes, newest, pages, page, size, onList, deletes, gone
List == INSTANCE NodeList WITH
    MaxNodes <- 2, MaxDeletes <- 1, MaxPages <- 2, MaxVisited <- 2,
    Sizes <- {1, 2}, StartSize <- 1, mounted <- onList
listVars == <<nodes, newest, pages, page, size, onList, deletes, gone>>

VARIABLES samples, latest, history, timeRange, interval, left, preset, choosing, onMetrics
Metrics == INSTANCE MetricsTab WITH
    Times <- 0 .. 2, Presets <- {1}, Hour <- 1, Loaded <- 1, MaxSpan <- 1,
    Intervals <- {2}, Default <- 2, MaxSamples <- 1,
    range <- timeRange, countdown <- left, dialog <- choosing, mounted <- onMetrics
metricsVars ==
    <<samples, latest, history, timeRange, interval, left, preset, choosing, onMetrics>>

VARIABLES routed, details, tab
Page == INSTANCE NodePage
pageVars == <<routed, details, tab>>

ASSUME WebConsoleAssumption ==
    /\ First \in Agents /\ MaxCalls \in Nat
    /\ None \notin Agents \cup Nodes \cup Nat \cup Tab!Lists \cup Overviews
    /\ Invalid \notin Nat \cup {None}
    /\ Usages \subseteq [cpu : Nat, memory : Nat, disk : Nat]
    /\ MaxReported \in Nat /\ ShownAlerts \in Nat \ {0} /\ TopNodes \in Nat \ {0}

vars == <<focus, tabVars, dialogVars, chartVars, boardVars, listVars, metricsVars, pageVars>>

-----------------------------------------------------------------------------
Init ==
    /\ focus \in {"agents", "logs", "charts", "dashboard", "nodes", "metrics", "node"}
    /\ Tab!Init /\ Dialog!Init /\ Charts!Init /\ Board!Init
    /\ List!Init /\ Metrics!Init /\ Page!Init

OnAgents ==
    /\ focus = "agents"
    /\ UNCHANGED <<focus, dialogVars, chartVars, boardVars, listVars, metricsVars, pageVars>>

OnLogs ==
    /\ focus = "logs"
    /\ UNCHANGED <<focus, tabVars, chartVars, boardVars, listVars, metricsVars, pageVars>>

OnCharts ==
    /\ focus = "charts"
    /\ UNCHANGED <<focus, tabVars, dialogVars, boardVars, listVars, metricsVars, pageVars>>

OnDashboard ==
    /\ focus = "dashboard"
    /\ UNCHANGED <<focus, tabVars, dialogVars, chartVars, listVars, metricsVars, pageVars>>

OnNodes ==
    /\ focus = "nodes"
    /\ UNCHANGED <<focus, tabVars, dialogVars, chartVars, boardVars, metricsVars, pageVars>>

OnMetrics ==
    /\ focus = "metrics"
    /\ UNCHANGED <<focus, tabVars, dialogVars, chartVars, boardVars, listVars, pageVars>>

OnNode ==
    /\ focus = "node"
    /\ UNCHANGED <<focus, tabVars, dialogVars, chartVars, boardVars, listVars, metricsVars>>

Next ==
    \/ OnAgents /\ Tab!Next
    \/ OnLogs /\ Dialog!Next
    \/ OnCharts /\ Charts!Next
    \/ OnDashboard /\ Board!Next
    \/ OnNodes /\ List!Next
    \/ OnMetrics /\ Metrics!Next
    \/ OnNode /\ Page!Next

(* Each page's fairness, for the page that is looked at: its timers fire,   *)
(* the network comes back to a fetch that waits for it, and of what the     *)
(* page asks for again and again some is answered.                          *)
TimerStep ==
    \/ OnAgents /\ Tab!Poll
    \/ OnLogs /\ Dialog!Poll
    \/ OnMetrics /\ Metrics!PollLatest

ResumeStep ==
    \/ OnAgents /\ Tab!Resume
    \/ OnLogs /\ Dialog!Resume
    \/ OnMetrics /\ Metrics!Resume

ReadStep ==
    \/ OnAgents /\ Tab!ReadList
    \/ OnMetrics /\ Metrics!ReadLatest

AnswerStep ==
    \/ OnAgents /\ Tab!ListOk
    \/ OnLogs /\ Dialog!Answered
    \/ OnMetrics /\ Metrics!LatestOk

Fairness ==
    /\ WF_vars(TimerStep) /\ WF_vars(OnAgents /\ Tab!TimerFires)
    /\ WF_vars(ResumeStep)
    /\ SF_vars(ReadStep) /\ SF_vars(AnswerStep)

Spec == Init /\ [][Next]_vars /\ Fairness

-----------------------------------------------------------------------------
(* Properties: those the pages' modules state *)

(* Every variable of every page keeps its type. *)
TypeOK ==
    /\ Tab!TypeOK /\ Dialog!TypeOK /\ Charts!TypeOK /\ Board!TypeOK
    /\ List!TypeOK /\ Metrics!TypeOK /\ Page!TypeOK

(* AgentsTab: what an answered operation did is shown, or asked for. *)
OperationShown == Tab!OperationShown

(* AgentsTab: the table of the agents never shows an older state again. *)
ListNeverOlder == Tab!ListNeverOlder

(* AgentsTab: messages go, and an error view gives way to the list. *)
NothingSticks == Tab!NothingSticks

(* AgentLogs: the lines under an agent's name are that agent's. *)
LogsOfViewedAgent == Dialog!LogsOfViewedAgent

(* AgentLogs: under auto refresh what is logged gets to the screen, or the *)
(* error there is instead.                                                 *)
LogsAnswered == Dialog!LogsAnswered

(* AgentCharts: a chart shows the agent and the range selected last. *)
ChartsOfSelection == Charts!ChartsOfSelection

(* Dashboard: what is worst comes first in the alerts and in the ranking. *)
WorstFirst == Board!WorstFirst

(* Dashboard: "all nodes run normally" is not said of nodes that do not,   *)
(* and of no nodes at all only beside an error or while offline.           *)
NormalIsTrue == Board!NormalIsTrue

(* NodeList: a deleted node leaves the table that showed it. *)
DeletedRowGoes == List!DeletedRowGoes

(* NodeList and NodePage: rows and tabs are those of the page, the size and *)
(* the route that are asked for, whatever arrives late.                     *)
ShownAsAsked == List!RowsOfPage /\ Page!TabOfRoute

(* MetricsTab: the charts show the range of the store, which is legal. *)
HistoryOfRange == Metrics!HistoryOfRange

(* MetricsTab: a new sample gets to the cards. *)
CardsFollow == Metrics!CardsFollow
=============================================================================
