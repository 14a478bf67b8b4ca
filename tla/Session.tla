------------------------------- MODULE Session -------------------------------
(***************************************************************************)
(* What the web front end promises of its sessions, whatever its tabs do:  *)
(* the browser remembers at most one session, a tab takes its session from *)
(* a sign-in of its own or from what the browser remembers when it loads,  *)
(* and a session the browser has forgotten never comes back.               *)
(***************************************************************************)

CONSTANTS Tabs,      \* tabs of one browser
          Sessions,  \* what a sign-in gives
          Nobody     \* no session

VARIABLES remembered,  \* what the browser remembers
          holds,       \* the session each tab acts under
          given        \* the sessions given so far

vars == <<remembered, holds, given>>

Init ==
    /\ remembered = Nobody
    /\ holds = [t \in Tabs |-> Nobody]
    /\ given = {}

(* A sign-in gives a session that was never given before. *)
SignIn(t, s) ==
    /\ s \notin given
    /\ given' = given \cup {s}
    /\ remembered' = s
    /\ holds' = [holds EXCEPT ![t] = s]

(* The end of a tab's session is the end of the one remembered. *)
SignOut(t) ==
    /\ remembered' = Nobody
    /\ holds' = [holds EXCEPT ![t] = Nobody]
    /\ UNCHANGED given

Open(t) ==
    /\ holds' = [holds EXCEPT ![t] = remembered]
    /\ UNCHANGED <<remembered, given>>

Next ==
    \E t \in Tabs :
        \/ \E s \in Sessions : SignIn(t, s)
        \/ SignOut(t)
        \/ Open(t)

Spec == Init /\ [][Next]_vars
=============================================================================
