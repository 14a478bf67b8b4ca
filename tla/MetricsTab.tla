------------------------------ MODULE MetricsTab ------------------------------
(***************************************************************************)
(* The metrics tab of a node's page (MetricsTabContent in Detail.tsx): the *)
(* latest metrics behind its cards, the history behind its charts, the     *)
(* range of time chosen for them (TimeRangeSelector.tsx, metricsStore.ts)  *)
(* and the timers that refresh both (useMetrics.ts, RefreshControl.tsx).   *)
(*                                                                         *)
(* The four histories of a range are queried alike; one stands for each.   *)
(* A range does not move with the time, and is a part of its query's key.  *)
(***************************************************************************)
EXTENDS Naturals

CONSTANTS Times,       \* moments the clock and the pickers may show
          Invalid,     \* what a picker holds while its text is no date
          Presets,     \* lengths of the preset ranges
          Hour,        \* and the one the store starts with
          Loaded,      \* the moment the store is created
          MaxSpan,     \* the longest range (30 days)
          Intervals,   \* seconds between refreshes (30 and 60)
          Default,     \* and what the store starts with (30)
          MaxSamples,  \* bound: samples the node reports
          None         \* no data, no moment, no interval

VARIABLES
    samples,    \* Manager: how many samples of the node it has
    latest,     \* the query ['metrics', 'latest', nodeId]
    history,    \* the query of the node's history in the range
    range,      \* timeRange of the metrics store
    interval,   \* refreshInterval of the metrics store
    countdown,  \* of the refresh control
    preset,     \* the preset the selector highlights, or None
    dialog,     \* the selector's dialog is open
    mounted     \* the tab is mounted

store == <<range, interval>>
control == <<countdown, preset, dialog>>
vars == <<samples, latest, history, store, control, mounted>>

Q == INSTANCE Query
R == INSTANCE RefreshControl WITH Paused <- None

Moments == Times \cup {Invalid}
Ranges == [start : Moments, end : Moments]

TypeOK ==
    /\ samples \in 0 .. MaxSamples
    /\ latest \in Q!Entries(0 .. MaxSamples)
    /\ history \in Q!Entries(Ranges)
    /\ range \in Ranges
    /\ interval \in R!Settings
    /\ countdown \in Nat \cup {None}
    /\ (countdown = None) = (interval = None)
    /\ preset \in Presets \cup {None}
    /\ dialog \in BOOLEAN /\ mounted \in BOOLEAN

-----------------------------------------------------------------------------
(* Ranges *)

Real(r) == r.start # Invalid /\ r.end # Invalid

(* The length of time up to now; the moments before the first do not matter. *)
Last(length, now) == [start |-> now - length, end |-> now]

(* calculatePreset: by the length only. *)
Calculated(r) ==
    IF Real(r) /\ r.end > r.start /\ r.end - r.start \in Presets
    THEN r.end - r.start ELSE None

(* Mutant of Accepted: the longest range is forgotten. *)
AcceptedAnyLength(start, end) ==
    /\ start # None /\ end # None
    /\ ~(start # Invalid /\ end # Invalid /\ end <= start)

(* handleConfirmCustom: its comparisons are all false of an invalid date,   *)
(* which passes.                                                            *)
Accepted(start, end) ==
    /\ start # None /\ end # None
    /\ start # Invalid /\ end # Invalid => end > start /\ end - start <= MaxSpan

(* The store starts with a range and an interval of its own. *)
Init ==
    /\ samples = 0
    /\ range = Last(Hour, Loaded) /\ preset = Hour
    /\ interval = Default /\ countdown = R!Started(interval)
    /\ latest = Q!Fetch(Q!Empty) /\ history = Q!Fetch(Q!Empty)
    /\ dialog = FALSE /\ mounted = TRUE

-----------------------------------------------------------------------------
(* The screen is that of the latest metrics: their error hides the charts,  *)
(* the selector with its dialog and the refresh control.                    *)
ViewOf(q) ==
    IF Q!Loading(q) THEN "loading" ELSE IF q.error THEN "error" ELSE "table"

View == ViewOf(latest)

(* A card: the sample it shows, or a dash. *)
Card == IF latest.data = None THEN "dash" ELSE "value"

(* A chart: an error without points looks like no points. *)
Chart ==
    IF Q!Loading(history) THEN "skeleton"
    ELSE IF history.data = None THEN "no data" ELSE "lines"

(* The latest metrics change; controls that are hidden start over. *)
LatestTo(q) ==
    /\ latest' = q
    /\ IF ViewOf(q) = "table" THEN UNCHANGED control
       ELSE /\ dialog' = FALSE /\ preset' = Calculated(range)
            /\ countdown' = R!Started(interval)

(* Mutant of PollLatest: a pause stops the cards as well. *)
PollLatestUnlessPaused ==
    /\ mounted /\ interval # None
    /\ LatestTo(Q!Fetch(latest))
    /\ UNCHANGED <<samples, history, store, mounted>>

(* useLatestMetrics: every 30 seconds, paused or not. *)
PollLatest ==
    /\ mounted
    /\ LatestTo(Q!Fetch(latest))
    /\ UNCHANGED <<samples, history, store, mounted>>

(* The tab's own timer refreshes everything. *)
Timer ==
    /\ mounted /\ interval # None
    /\ LatestTo(Q!Refetch(latest))
    /\ history' = Q!Refetch(history)
    /\ UNCHANGED <<samples, store, mounted>>

(* And so does the countdown, at about the same time. *)
Second ==
    /\ mounted /\ View = "table" /\ interval # None
    /\ countdown' = R!Left(countdown, interval)
    /\ IF R!RunsOut(countdown)
       THEN latest' = Q!Refetch(latest) /\ history' = Q!Refetch(history)
       ELSE UNCHANGED <<latest, history>>
    /\ UNCHANGED <<samples, store, preset, dialog, mounted>>

Retry ==
    /\ mounted /\ View = "error"
    /\ LatestTo(Q!Refetch(latest))
    /\ UNCHANGED <<samples, history, store, mounted>>

ChooseInterval(press) ==
    /\ mounted /\ View = "table" /\ ~dialog
    /\ interval' = R!Chosen(interval, press)
    /\ countdown' = R!Started(interval')
    /\ UNCHANGED <<samples, latest, history, range, preset, dialog, mounted>>

(* What the cache may hold for a range: nothing, or an earlier answer. *)
Cached(r) == {Q!Empty} \cup IF Real(r) THEN {[Q!Empty EXCEPT !.data = r]} ELSE {}

(* Another range is another query; the effect on the range refetches it. *)
RangeTo(r) ==
    /\ range' = r
    /\ \E q \in Cached(r) :
        history' = IF r = range THEN history ELSE Q!Refetch(Q!Mount(q, FALSE))
    /\ UNCHANGED <<samples, latest, interval, countdown, mounted>>

(* handlePresetChange; the preset that is on already gives null. *)
ChoosePreset(length, now) ==
    /\ mounted /\ View = "table" /\ ~dialog
    /\ length # preset /\ now >= length
    /\ RangeTo(Last(length, now))
    /\ preset' = length
    /\ UNCHANGED dialog

(* handleOpenCustom *)
OpenDialog ==
    /\ mounted /\ View = "table" /\ ~dialog
    /\ dialog' = TRUE
    /\ UNCHANGED <<samples, latest, history, store, countdown, preset, mounted>>

CloseDialog ==
    /\ dialog
    /\ dialog' = FALSE
    /\ UNCHANGED <<samples, latest, history, store, countdown, preset, mounted>>

(* The dialog is confirmed with what its pickers hold then; refused, it     *)
(* stays.  The highlight follows the length only when that has changed.     *)
Confirm(start, end) ==
    /\ dialog /\ Accepted(start, end)
    /\ LET r == [start |-> start, end |-> end]
       IN  /\ RangeTo(r)
           /\ preset' = IF Calculated(r) = Calculated(range) THEN None ELSE Calculated(r)
    /\ dialog' = FALSE

-----------------------------------------------------------------------------
ReadLatest ==
    /\ latest.phase = "asked"
    /\ LatestTo(Q!Read(latest, samples))
    /\ UNCHANGED <<samples, history, store, mounted>>

LatestOk ==
    /\ latest.phase = "read"
    /\ LatestTo(Q!Succeed(latest))
    /\ UNCHANGED <<samples, history, store, mounted>>

LatestFails ==
    /\ Q!Fetching(latest)
    /\ LatestTo(Q!Fail(latest))
    /\ UNCHANGED <<samples, history, store, mounted>>

(* The browser is offline when either is asked for, or asked for again. *)
PauseLatest ==
    /\ Q!Fetching(latest)
    /\ LatestTo(Q!Pause(latest))
    /\ UNCHANGED <<samples, history, store, mounted>>

PauseHistory ==
    /\ Q!Fetching(history)
    /\ history' = Q!Pause(history)
    /\ UNCHANGED <<samples, latest, store, control, mounted>>

(* Stale: the latest metrics by 25 seconds, the history by five minutes. *)
Reconnect(staleLatest, staleHistory) ==
    /\ LatestTo(Q!Reconnect(latest, mounted, staleLatest))
    /\ history' = Q!Reconnect(history, mounted, staleHistory)
    /\ UNCHANGED <<samples, store, mounted>>

(* useMetricsHistory: an invalid date cannot be written into the request. *)
HistoryOk ==
    /\ Q!Fetching(history) /\ Real(range)
    /\ history' = Q!Succeed(Q!Read(history, range))
    /\ UNCHANGED <<samples, latest, store, control, mounted>>

HistoryFails ==
    /\ Q!Fetching(history)
    /\ history' = Q!Fail(history)
    /\ UNCHANGED <<samples, latest, store, control, mounted>>

Report ==
    /\ samples < MaxSamples
    /\ samples' = samples + 1
    /\ UNCHANGED <<latest, history, store, control, mounted>>

Leave ==
    /\ mounted
    /\ mounted' = FALSE /\ dialog' = FALSE
    /\ UNCHANGED <<samples, latest, history, store, countdown, preset>>

(* A new tab: the store is as it was left, or as the dashboard has set it,  *)
(* and the effect on the range runs once more.                              *)
Return(stale, set) ==
    /\ ~mounted
    /\ mounted' = TRUE
    /\ latest' = Q!Mount(latest, stale)
    /\ history' = Q!Refetch(Q!Mount(history, FALSE))
    /\ interval' = set /\ countdown' = R!Started(set)
    /\ preset' = Calculated(range)
    /\ UNCHANGED <<samples, range, dialog>>

Next ==
    \/ PollLatest \/ Timer \/ Second \/ Retry \/ OpenDialog \/ CloseDialog
    \/ ReadLatest \/ LatestOk \/ LatestFails \/ HistoryOk \/ HistoryFails
    \/ PauseLatest \/ PauseHistory
    \/ \E staleLatest, staleHistory \in BOOLEAN : Reconnect(staleLatest, staleHistory)
    \/ Report \/ Leave
    \/ \E press \in R!Settings : ChooseInterval(press)
    \/ \E length \in Presets, now \in Times : ChoosePreset(length, now)
    \/ \E start, end \in Moments \cup {None} : Confirm(start, end)
    \/ \E stale \in BOOLEAN, set \in R!Settings : Return(stale, set)

(* The network comes back to latest metrics that wait for it. *)
Resume ==
    /\ latest.phase = "paused"
    /\ \E staleLatest, staleHistory \in BOOLEAN : Reconnect(staleLatest, staleHistory)

Fairness ==
    /\ WF_vars(PollLatest) /\ WF_vars(Resume)
    /\ SF_vars(ReadLatest) /\ SF_vars(LatestOk)

Spec == Init /\ [][Next]_vars /\ Fairness

-----------------------------------------------------------------------------
(* Properties *)

(* The lines of a chart are those of the range in the store, and that range *)
(* runs forward and is no longer than the longest.  The dates that are none *)
(* and get past the dialog's checks never show a line.                      *)
HistoryOfRange ==
    Chart = "lines" =>
        /\ history.data = range
        /\ Real(range) /\ range.start < range.end /\ range.end - range.start <= MaxSpan

(* While the tab stays mounted a sample gets to its cards, whatever the     *)
(* refresh control is set to and whatever fails in between.                 *)
CardsFollow ==
    \A n \in 1 .. MaxSamples :
        mounted /\ samples = n ~>
            ~mounted \/ (View = "table" /\ Card = "value" /\ latest.data >= n)
=============================================================================
