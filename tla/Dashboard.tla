------------------------------ MODULE Dashboard ------------------------------
(***************************************************************************)
(* The dashboard (pages/Dashboard/index.tsx): the overview of the cluster  *)
(* it polls, the cards, the ranking of the nodes (TopNodesCard.tsx), the   *)
(* alerts (AlertsPanel.tsx, alertRules.ts) and their colours               *)
(* (metricsUtils.ts).  Usage is in whole percent.                          *)
(***************************************************************************)
EXTENDS Naturals, Sequences, FiniteSets

CONSTANTS Overviews,    \* what the Manager may answer: the nodes' usage, by rank
          ShownAlerts,  \* alerts the panel shows (10)
          TopNodes,     \* nodes of the ranking (5)
          Intervals,    \* seconds between refreshes (30 and 60)
          Default,      \* and what the store starts with (30)
          None          \* no data, no interval

VARIABLES
    overview,   \* the query ['metrics', 'cluster', 'overview']
    interval,   \* refreshInterval of the metrics store
    countdown,  \* of the refresh control
    sortBy,     \* of the ranking
    visible     \* the page is mounted

vars == <<overview, interval, countdown, sortBy, visible>>

Q == INSTANCE Query
R == INSTANCE RefreshControl WITH Paused <- None

TypeOK ==
    /\ overview \in Q!Entries(Overviews)
    /\ interval \in R!Settings
    /\ countdown \in Nat \cup {None}
    /\ (countdown = None) = (interval = None)
    /\ sortBy \in {"cpu", "memory"}
    /\ visible \in BOOLEAN

Init ==
    /\ overview = Q!Fetch(Q!Empty)
    /\ interval = Default /\ countdown = R!Started(interval)
    /\ sortBy = "cpu" /\ visible = TRUE

NodeUsage == IF overview.data = None THEN <<>> ELSE overview.data

-----------------------------------------------------------------------------
(* Levels, colours and ranks *)

(* checkAlert *)
Level(metric, usage) ==
    LET critical == IF metric = "disk" THEN 95 ELSE 90
        warning == IF metric = "disk" THEN 85 ELSE 80
    IN  IF usage > critical THEN "critical" ELSE IF usage > warning THEN "warning" ELSE "normal"

(* getUsageColor and getDiskUsageColor *)
UsageColor(usage) ==
    IF usage < 60 THEN "success" ELSE IF usage < 80 THEN "warning" ELSE "error"
DiskUsageColor(usage) ==
    IF usage < 85 THEN "success" ELSE IF usage < 95 THEN "warning" ELSE "error"

Metrics == {"cpu", "memory", "disk"}

Alert(i, metric) ==
    [node |-> i, metric |-> metric, level |-> Level(metric, NodeUsage[i][metric])]

(* Mutant of NodeAlerts: the memory is not looked at. *)
NodeAlertsNoMemory(i) ==
    {a \in {Alert(i, m) : m \in Metrics \ {"memory"}} : a.level # "normal"}

(* checkNodeAlerts: the alerts of the node in a place of the overview. *)
NodeAlerts(i) == {a \in {Alert(i, m) : m \in Metrics} : a.level # "normal"}

AllAlerts == UNION {NodeAlerts(i) : i \in DOMAIN NodeUsage}

(* The code finds them node by node, and of a node in this order. *)
Turn(metric) == CASE metric = "cpu" -> 1 [] metric = "memory" -> 2 [] metric = "disk" -> 3

FoundBefore(a, b) ==
    a.node < b.node \/ (a.node = b.node /\ Turn(a.metric) < Turn(b.metric))

(* S as a sequence, if before[x] are those of S that come before x. *)
Sorted(S, before) ==
    [k \in 1 .. Cardinality(S) |-> CHOOSE x \in S : Cardinality(before[x]) = k - 1]

(* Mutant of Alerts: nobody sorts them. *)
AlertsAsFound == Sorted(AllAlerts, [a \in AllAlerts |-> {b \in AllAlerts : FoundBefore(b, a)}])

(* The panel's list: a stable sort, the critical ones first. *)
Alerts ==
    Sorted(AllAlerts, [a \in AllAlerts |-> {b \in AllAlerts :
        IF a.level = b.level THEN FoundBefore(b, a) ELSE b.level = "critical"}])

Least(m, n) == IF m < n THEN m ELSE n

DisplayedAlerts == SubSeq(Alerts, 1, Least(ShownAlerts, Len(Alerts)))
HasMore == Len(Alerts) > ShownAlerts

(* The ranking: the places of the nodes, most used first, ties as found. *)
Ranked ==
    LET usage(i) == NodeUsage[i][sortBy]
    IN  Sorted(DOMAIN NodeUsage, [i \in DOMAIN NodeUsage |-> {j \in DOMAIN NodeUsage :
            usage(j) > usage(i) \/ (usage(j) = usage(i) /\ j < i)}])

Ranking == SubSeq(Ranked, 1, Least(TopNodes, Len(NodeUsage)))

-----------------------------------------------------------------------------
(* What is on the screen *)

(* A card of the row above: a failed poll takes its value away. *)
CardView ==
    IF Q!Loading(overview) THEN "skeleton" ELSE IF overview.error THEN "error" ELSE "value"

(* The panel is not told of the error: without data nothing is wrong. *)
AlertsView ==
    IF Q!Loading(overview) THEN "skeleton"
    ELSE IF Alerts = <<>> THEN "all normal" ELSE "alerts"

RankingView ==
    IF Q!Loading(overview) THEN "skeleton"
    ELSE IF Ranking = <<>> THEN "empty" ELSE "nodes"

-----------------------------------------------------------------------------
(* useClusterOverview polls at the interval of the store, errors or not. *)
Poll ==
    /\ visible /\ interval # None
    /\ overview' = Q!Fetch(overview)
    /\ UNCHANGED <<interval, countdown, sortBy, visible>>

(* The refresh control counts, and refreshes on its own account. *)
Second ==
    /\ visible /\ interval # None
    /\ overview' = IF R!RunsOut(countdown) THEN Q!Refetch(overview) ELSE overview
    /\ countdown' = R!Left(countdown, interval)
    /\ UNCHANGED <<interval, sortBy, visible>>

(* The retry of the error. *)
Retry ==
    /\ visible /\ overview.error
    /\ overview' = Q!Refetch(overview)
    /\ UNCHANGED <<interval, countdown, sortBy, visible>>

Choose(press) ==
    /\ visible
    /\ interval' = R!Chosen(interval, press)
    /\ countdown' = R!Started(interval')
    /\ UNCHANGED <<overview, sortBy, visible>>

Sort ==
    /\ visible
    /\ sortBy' = IF sortBy = "cpu" THEN "memory" ELSE "cpu"
    /\ UNCHANGED <<overview, interval, countdown, visible>>

(* The overview arrives as the Manager had it at some time since it was     *)
(* asked for.                                                               *)
OverviewOk(o) ==
    /\ Q!Fetching(overview)
    /\ overview' = Q!Succeed(Q!Read(overview, o))
    /\ UNCHANGED <<interval, countdown, sortBy, visible>>

OverviewFails ==
    /\ Q!Fetching(overview)
    /\ overview' = Q!Fail(overview)
    /\ UNCHANGED <<interval, countdown, sortBy, visible>>

(* The browser is offline when the overview is asked for, or asked for again. *)
Pause ==
    /\ Q!Fetching(overview)
    /\ overview' = Q!Pause(overview)
    /\ UNCHANGED <<interval, countdown, sortBy, visible>>

Reconnect(stale) ==
    /\ overview' = Q!Reconnect(overview, visible, stale)
    /\ UNCHANGED <<interval, countdown, sortBy, visible>>

Leave ==
    /\ visible
    /\ visible' = FALSE
    /\ UNCHANGED <<overview, interval, countdown, sortBy>>

(* A new page; the interval may have been changed on the metrics tab. *)
Return(stale, set) ==
    /\ ~visible
    /\ visible' = TRUE
    /\ overview' = Q!Mount(overview, stale)
    /\ interval' = set /\ countdown' = R!Started(set)
    /\ sortBy' = "cpu"

Next ==
    \/ Poll \/ Second \/ Retry \/ Sort \/ OverviewFails \/ Pause \/ Leave
    \/ \E stale \in BOOLEAN : Reconnect(stale)
    \/ \E press \in R!Settings : Choose(press)
    \/ \E o \in Overviews : OverviewOk(o)
    \/ \E stale \in BOOLEAN, set \in R!Settings : Return(stale, set)

Spec == Init /\ [][Next]_vars

-----------------------------------------------------------------------------
(* Properties *)

(* The panel shows as many alerts as it has room for and hides no critical  *)
(* alert behind a warning; a processor, a memory or a disk it warns of is   *)
(* not drawn in green, nor a critical one in anything but red (the levels   *)
(* and the colours come from two sets of thresholds); and a node with a     *)
(* critical alert leads the ranking by the same metric, if one has it.      *)
WorstFirst ==
    /\ HasMore => Len(DisplayedAlerts) = ShownAlerts
    /\ \A i \in DOMAIN DisplayedAlerts :
        LET a == DisplayedAlerts[i]
            usage == NodeUsage[a.node][a.metric]
            color == IF a.metric = "disk" THEN DiskUsageColor(usage) ELSE UsageColor(usage)
        IN  /\ color # "success" /\ (a.level = "critical" => color = "error")
            /\ a.level = "warning" =>
                \A n \in DOMAIN NodeUsage, m \in Metrics :
                    Level(m, NodeUsage[n][m]) = "critical" =>
                        \E d \in DOMAIN DisplayedAlerts :
                            DisplayedAlerts[d].node = n /\ DisplayedAlerts[d].metric = m
    /\ \A n \in DOMAIN NodeUsage :
        Level(sortBy, NodeUsage[n][sortBy]) = "critical" =>
            Level(sortBy, NodeUsage[Ranking[1]][sortBy]) = "critical"

(* "All nodes run normally" is said of data that have arrived and bear it  *)
(* out, and otherwise only under the error that says that the overview     *)
(* could not be loaded, or in one case under nothing at all: before the    *)
(* first overview, while its fetch waits for the network.                  *)
NormalIsTrue ==
    AlertsView = "all normal" =>
        \/ CardView = "error"
        \/ overview.data = None /\ overview.phase = "paused"
        \/ /\ overview.data # None
           /\ \A n \in DOMAIN NodeUsage :
                /\ NodeUsage[n].cpu <= 80 /\ NodeUsage[n].memory <= 80
                /\ NodeUsage[n].disk <= 85
=============================================================================
