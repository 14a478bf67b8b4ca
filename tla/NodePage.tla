------------------------------- MODULE NodePage -------------------------------
(***************************************************************************)
(* The page of one node (NodeDetailPage in Detail.tsx): the node of the    *)
(* route, its query, and the tabs that are mounted beneath it.  The page   *)
(* polls nothing: an error stays until the page is opened anew or the      *)
(* network comes back.                                                     *)
(***************************************************************************)

CONSTANTS Nodes,  \* nodes a route may name
          None    \* no node, no data

VARIABLES
    routed,   \* the node the route names, None elsewhere
    details,  \* the queries ['node', id]
    tab       \* the tab that is selected

vars == <<routed, details, tab>>

Q == INSTANCE Query

Tabs == {"overview", "metrics", "logs", "agents"}

TypeOK ==
    /\ routed \in Nodes \cup {None}
    /\ details \in [Nodes -> Q!Entries(Nodes)]
    /\ tab \in Tabs

Init ==
    /\ routed = None /\ tab = "metrics"
    /\ details = [n \in Nodes |-> Q!Empty]

(* Mutant of Key: the key leaves the node out. *)
KeyOfAny(n) == CHOOSE any \in Nodes : TRUE

Key(n) == n

Entry == IF routed = None THEN Q!Empty ELSE details[Key(routed)]
Update(k, q) == details' = [details EXCEPT ![k] = q]

(* A node whose first fetch waits for the network looks like one there is not. *)
View ==
    IF Entry.error THEN "error"
    ELSE IF Q!Loading(Entry) THEN "loading"
    ELSE IF Entry.data = None THEN "missing" ELSE "tabs"

(* TabPanel mounts the tab that is selected only, for the node shown. *)
MountedTab == IF View = "tabs" THEN [tab |-> tab, node |-> Entry.data] ELSE None

(* A link from another page opens the page on its metrics tab; a jump in    *)
(* the history changes the node under it.                                   *)
Open(n, stale) ==
    /\ routed # n
    /\ routed' = n
    /\ tab' = IF routed = None THEN "metrics" ELSE tab
    /\ Update(Key(n), Q!Mount(details[Key(n)], stale))

Away ==
    /\ routed # None
    /\ routed' = None
    /\ UNCHANGED <<details, tab>>

SelectTab(t) ==
    /\ View = "tabs" /\ t # tab
    /\ tab' = t
    /\ UNCHANGED <<routed, details>>

(* getNode; a node that is not there is an error too. *)
NodeOk(n) ==
    /\ Q!Fetching(details[Key(n)])
    /\ Update(Key(n), Q!Succeed(Q!Read(details[Key(n)], n)))
    /\ UNCHANGED <<routed, tab>>

NodeFails(n) ==
    /\ Q!Fetching(details[Key(n)])
    /\ Update(Key(n), Q!Fail(details[Key(n)]))
    /\ UNCHANGED <<routed, tab>>

(* The browser is offline when a node is asked for, or asked for again. *)
Pause(n) ==
    /\ Q!Fetching(details[Key(n)])
    /\ Update(Key(n), Q!Pause(details[Key(n)]))
    /\ UNCHANGED <<routed, tab>>

Reconnect(stale) ==
    /\ details' = [k \in Nodes |->
                    Q!Reconnect(details[k], routed # None /\ k = Key(routed), stale)]
    /\ UNCHANGED <<routed, tab>>

Next ==
    \/ Away
    \/ \E stale \in BOOLEAN : Reconnect(stale)
    \/ \E t \in Tabs : SelectTab(t)
    \/ \E n \in Nodes :
        \/ \E stale \in BOOLEAN : Open(n, stale)
        \/ NodeOk(n) \/ NodeFails(n) \/ Pause(n)

Spec == Init /\ [][Next]_vars

(* The tab mounted, and the node shown above it, are those of the route,    *)
(* whichever node was fetched last.                                         *)
TabOfRoute == MountedTab # None => MountedTab.node = routed
=============================================================================
