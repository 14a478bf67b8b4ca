---------------------------- MODULE MCWebConsole ----------------------------
(* WebConsole on a small instance. *)
EXTENDS WebConsole

(* Nodes on both sides of each threshold, on both panels' scales. *)
Boundaries ==
    {[cpu |-> 80, memory |-> 50, disk |-> 85], [cpu |-> 81, memory |-> 91, disk |-> 50],
     [cpu |-> 50, memory |-> 81, disk |-> 85], [cpu |-> 90, memory |-> 50, disk |-> 96],
     [cpu |-> 91, memory |-> 80, disk |-> 95], [cpu |-> 50, memory |-> 50, disk |-> 86]}
=============================================================================
