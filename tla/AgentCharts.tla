----------------------------- MODULE AgentCharts -----------------------------
(***************************************************************************)
(* The charts of the agents tab (AgentsTabContent in Detail.tsx and        *)
(* useAgentMetrics.ts): the selected agent, the range of time and the      *)
(* history of each metric.  A range is computed when the tab is mounted    *)
(* and when its preset changes, and is never moved on after that; it is a  *)
(* part of the queries' keys, so every range has fresh keys.               *)
(***************************************************************************)
EXTENDS Naturals

CONSTANTS Agents,    \* agents of the node
          First,     \* the one at the head of the list
          Presets,   \* lengths of a range
          Default,   \* and the one a tab starts with (an hour)
          Metrics,   \* cpu, memory, open_files, disk_io
          None,      \* no agent, no data
          MaxRanges  \* bound: ranges computed

VARIABLES
    listed,    \* the tab has a list of agents to show
    selected,  \* selectedAgentId
    picked,    \* the agent the user clicked last in this tab, or None
    preset,    \* timeRangePreset
    range,     \* agentTimeRange: the number of the range computed last
    charts     \* the queries: of a metric and an agent, and their range

vars == <<listed, selected, picked, preset, range, charts>>

Q == INSTANCE Query

Ranges == 1 .. MaxRanges

(* The points of a chart: what the Manager answered for an agent and the    *)
(* length of a range, projected to one metric.                              *)
Points == [agent : Agents, metric : Metrics, preset : Presets]

TypeOK ==
    /\ listed \in BOOLEAN
    /\ selected \in Agents \cup {None}
    /\ picked \in Agents \cup {None}
    /\ preset \in Presets
    /\ range \in Ranges
    /\ charts \in [Metrics \X Agents -> Q!Entries(Points)]

NoCharts == [k \in Metrics \X Agents |-> Q!Empty]

Init ==
    /\ listed = FALSE /\ selected = None /\ picked = None
    /\ preset = Default /\ range = 1
    /\ charts = NoCharts

-----------------------------------------------------------------------------
(* Mutant of Key: the key leaves the agent out. *)
KeyOfMetric(m, a) == <<m, First>>

(* The key of a chart within the range of now. *)
Key(m, a) == <<m, a>>

Chart(m) == IF selected = None THEN Q!Empty ELSE charts[Key(m, selected)]

(* A chart's own views, and the alert below them all. *)
ChartView(m) ==
    IF Q!Loading(Chart(m)) THEN "spinner"
    ELSE IF Chart(m).data = None THEN "empty" ELSE "lines"

Alert == \E m \in Metrics : Chart(m).error

(* The charts a change of the selection or of the range mounts. *)
Mounted(a, entries) ==
    [k \in DOMAIN entries |->
        IF \E m \in Metrics : k = Key(m, a) THEN Q!Mount(entries[k], FALSE)
                                            ELSE entries[k]]

(* Mutant of AutoSelect: the first agent again whenever a list arrives. *)
AutoSelectAlways ==
    /\ listed /\ selected # First
    /\ selected' = First
    /\ charts' = Mounted(First, charts)
    /\ UNCHANGED <<listed, picked, preset, range>>

(* The effect on the list: the first agent, unless one is selected. *)
AutoSelect ==
    /\ listed /\ selected = None
    /\ selected' = First
    /\ charts' = Mounted(First, charts)
    /\ UNCHANGED <<listed, picked, preset, range>>

(* A click on an agent's row. *)
Select(a) ==
    /\ listed
    /\ selected' = a /\ picked' = a
    /\ charts' = IF a = selected THEN charts ELSE Mounted(a, charts)
    /\ UNCHANGED <<listed, preset, range>>

(* Mutant of ChoosePreset: the range is no part of the keys. *)
ChoosePresetKeepsKeys(p) ==
    /\ listed /\ selected # None
    /\ p # preset /\ range < MaxRanges
    /\ preset' = p /\ range' = range + 1
    /\ charts' = [k \in DOMAIN charts |->
                    IF \E m \in Metrics : k = Key(m, selected)
                    THEN Q!Refetch(charts[k]) ELSE charts[k]]
    /\ UNCHANGED <<listed, selected, picked>>

(* Another preset: a new range, with keys that hold nothing yet.  What is   *)
(* in flight for the range before is answered into keys nobody reads; the   *)
(* effect's refetch joins the fetches the mount has begun.                  *)
ChoosePreset(p) ==
    /\ listed /\ selected # None
    /\ p # preset /\ range < MaxRanges
    /\ preset' = p /\ range' = range + 1
    /\ charts' = Mounted(selected, NoCharts)
    /\ UNCHANGED <<listed, selected, picked>>

(* The retry of the alert asks for every chart again. *)
Retry ==
    /\ listed /\ Alert
    /\ charts' = [k \in DOMAIN charts |->
                    IF \E m \in Metrics : k = Key(m, selected)
                    THEN Q!Refetch(charts[k]) ELSE charts[k]]
    /\ UNCHANGED <<listed, selected, picked, preset, range>>

(* useAgentMetricsHistory: the answer for the agent and the length of the   *)
(* range of the key.                                                        *)
ReadPoints(m, a) ==
    /\ charts[Key(m, a)].phase = "asked"
    /\ charts' = [charts EXCEPT ![Key(m, a)] =
                    Q!Read(@, [agent |-> a, metric |-> m, preset |-> preset])]
    /\ UNCHANGED <<listed, selected, picked, preset, range>>

PointsOk(m, a) ==
    /\ charts[Key(m, a)].phase = "read"
    /\ charts' = [charts EXCEPT ![Key(m, a)] = Q!Succeed(@)]
    /\ UNCHANGED <<listed, selected, picked, preset, range>>

PointsFail(m, a) ==
    /\ Q!Fetching(charts[Key(m, a)])
    /\ charts' = [charts EXCEPT ![Key(m, a)] = Q!Fail(@)]
    /\ UNCHANGED <<listed, selected, picked, preset, range>>

(* The browser is offline when points are asked for, or asked for again. *)
Pause(m, a) ==
    /\ Q!Fetching(charts[Key(m, a)])
    /\ charts' = [charts EXCEPT ![Key(m, a)] = Q!Pause(@)]
    /\ UNCHANGED <<listed, selected, picked, preset, range>>

(* Stale are the metrics whose points are more than five minutes old. *)
Reconnect(stale) ==
    /\ charts' = [k \in DOMAIN charts |->
                    Q!Reconnect(charts[k],
                                selected # None /\ \E m \in Metrics : k = Key(m, selected),
                                \E m \in stale : k = Key(m, selected))]
    /\ UNCHANGED <<listed, selected, picked, preset, range>>

(* The list arrives, fails or arrives again: the charts are shown beneath   *)
(* a list only, though their queries belong to the tab and stay.            *)
ListChanges ==
    /\ listed' = ~listed
    /\ UNCHANGED <<selected, picked, preset, range, charts>>

(* The tab is left and mounted anew: no selection, and a range of its own. *)
Remount ==
    /\ range < MaxRanges
    /\ listed' \in BOOLEAN /\ selected' = None /\ picked' = None
    /\ preset' = Default /\ range' = range + 1
    /\ charts' = NoCharts

Next ==
    \/ AutoSelect \/ Retry \/ ListChanges \/ Remount
    \/ \E a \in Agents : Select(a)
    \/ \E p \in Presets : ChoosePreset(p)
    \/ \E m \in Metrics, a \in Agents :
        ReadPoints(m, a) \/ PointsOk(m, a) \/ PointsFail(m, a) \/ Pause(m, a)
    \/ \E stale \in SUBSET Metrics : Reconnect(stale)

Spec == Init /\ [][Next]_vars

-----------------------------------------------------------------------------
(* Properties *)

(* The lines under a chart's title are of the agent the user picked last    *)
(* (or, before that, the first of the list), of the chart's metric and of   *)
(* the range chosen, whichever selections and ranges their requests were    *)
(* overtaken by and however often the list has been loaded since.           *)
ChartsOfSelection ==
    \A m \in Metrics :
        ChartView(m) = "lines" =>
            Chart(m).data = [agent |-> IF picked = None THEN First ELSE picked,
                             metric |-> m, preset |-> preset]
=============================================================================
