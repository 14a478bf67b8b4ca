----------------------------- MODULE Supervision -----------------------------
(***************************************************************************)
(* What the instance of an agent promises of the agent's processes, with   *)
(* no goroutines, no locks and no health checker: AgentInstance implements *)
(* it.  It starts a process only while it holds no live one and a stop     *)
(* that knows the process leaves none; but the end of any process, once it *)
(* is noted, makes it let go of whatever it holds, and a stop that does    *)
(* not know the process leaves it alone.                                   *)
(***************************************************************************)
CONSTANTS Procs, None

VARIABLES
    held,    \* the process the instance holds, or None
    life,    \* what has become of each process
    known,   \* the PID of the process is on record
    manual   \* the agent was stopped by hand

vars == <<held, life, known, manual>>

Init ==
    /\ held = None /\ known = FALSE /\ manual = FALSE
    /\ life = [p \in Procs |-> "free"]

HoldsLive == held # None /\ life[held] = "alive"

Launch(p) ==
    /\ life[p] = "free" /\ ~HoldsLive
    /\ held' = p /\ known' = TRUE
    /\ life' = [life EXCEPT ![p] = "alive"]
    /\ manual' \in {manual, FALSE}

(* It exits, crashes or is killed. *)
End(p) ==
    /\ life[p] = "alive"
    /\ life' = [life EXCEPT ![p] = "ended"]
    /\ UNCHANGED <<held, known, manual>>

(* Its end is noted, after which the kernel may use the PID again. *)
Note(p) ==
    /\ life[p] = "ended"
    /\ life' = [life EXCEPT ![p] = "free"]
    /\ held' = None /\ known' = FALSE
    /\ UNCHANGED manual

Stop ==
    /\ \/ ~HoldsLive /\ held' = None
       \/ ~known /\ held' = held
    /\ known' = FALSE /\ manual' = TRUE
    /\ UNCHANGED life

(* A start or a restart: the agent may run again. *)
Allow ==
    /\ manual /\ manual' = FALSE
    /\ UNCHANGED <<held, life, known>>

(* The health checker, late, takes the PID of another process off. *)
LoseTrack ==
    /\ known /\ known' = FALSE
    /\ UNCHANGED <<held, life, manual>>

Next ==
    \/ \E p \in Procs : Launch(p) \/ End(p) \/ Note(p)
    \/ Stop \/ Allow \/ LoseTrack

Spec == Init /\ [][Next]_vars
=============================================================================
