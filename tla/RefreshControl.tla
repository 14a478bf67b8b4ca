---------------------------- MODULE RefreshControl ----------------------------
(***************************************************************************)
(* The refresh control of the dashboard and of the metrics tab             *)
(* (RefreshControl.tsx): a choice of intervals and a countdown in seconds  *)
(* that refreshes when it runs out, beside the timers the pages have of    *)
(* their own.  The interval lives in the metrics store, the countdown in   *)
(* the mounted control.                                                    *)
(***************************************************************************)
EXTENDS Naturals

CONSTANTS Intervals,  \* seconds between refreshes (30 and 60)
          Paused      \* no interval

Settings == Intervals \cup {Paused}

(* A press on a button: pausing, or the interval that is already on, which  *)
(* the group of buttons gives up, leaves none.                              *)
Chosen(interval, press) == IF press = interval THEN Paused ELSE press

(* The countdown of a control mounted or changed. *)
Started(interval) == interval

(* Mutant of RunsOut: the countdown does not end in time. *)
RunsOutLate(countdown) == countdown < 0

(* A second passes: whether it refreshes, and what is left. *)
RunsOut(countdown) == countdown <= 1

Left(countdown, interval) == IF RunsOut(countdown) THEN interval ELSE countdown - 1
=============================================================================
