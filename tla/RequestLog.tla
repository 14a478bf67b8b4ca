------------------------------ MODULE RequestLog ------------------------------
(***************************************************************************)
(* What the asynchronous metadata writer promises its callers: it is a log *)
(* of requests.  Each request accepted is handed to the store once, in the *)
(* order of acceptance; a stop ends when all that was accepted before it   *)
(* has been handed over, and nothing is handed over after that.            *)
(***************************************************************************)
EXTENDS Naturals, Sequences

VARIABLES waiting,   \* requests accepted and not handed over, oldest first
          handed,    \* requests handed to the store, in order
          phase,     \* of the stop: open, stopping or closed
          promised   \* how many had been accepted when the stop began

vars == <<waiting, handed, phase, promised>>

Init ==
    /\ waiting = <<>> /\ handed = <<>>
    /\ phase = "open" /\ promised = 0

(* Requests are numbered as they come; a stop does not turn them away. *)
Accept ==
    /\ waiting' = Append(waiting, Len(handed) + Len(waiting) + 1)
    /\ UNCHANGED <<handed, phase, promised>>

HandOver ==
    /\ phase # "closed" /\ waiting # <<>>
    /\ handed' = Append(handed, Head(waiting))
    /\ waiting' = Tail(waiting)
    /\ UNCHANGED <<phase, promised>>

Stop ==
    /\ phase = "open"
    /\ phase' = "stopping"
    /\ promised' = Len(handed) + Len(waiting)
    /\ UNCHANGED <<waiting, handed>>

Close ==
    /\ phase = "stopping" /\ Len(handed) >= promised
    /\ phase' = "closed"
    /\ UNCHANGED <<waiting, handed, promised>>

Next == Accept \/ HandOver \/ Stop \/ Close

Spec == Init /\ [][Next]_vars
=============================================================================
