------------------------------- MODULE NodeList -------------------------------
(***************************************************************************)
(* The page of the nodes (pages/Nodes/List.tsx, useNodes.ts): the pages of *)
(* the Manager's list, each a query of its own, and the deletion of a      *)
(* node.  Nodes are numbered in the order they register, and the Manager   *)
(* lists the newest first.  Nothing here polls.                            *)
(***************************************************************************)
EXTENDS Naturals, FiniteSets

CONSTANTS MaxNodes,   \* bound: nodes that ever register
          MaxDeletes, \* bound: deletions done and under way
          MaxPages,   \* bound: pages the list may have
          MaxVisited, \* bound: pages, of whatever size, that are looked at
          Sizes,      \* rows per page (10, 20, 50, 100)
          StartSize,  \* and how many the table starts with (20)
          None        \* no data

VARIABLES
    nodes,      \* Manager: the rows there are
    newest,     \* Manager: the last number given
    pages,      \* the queries ['nodes', {page, page_size}]
    page, size, \* the page the table is on, from 0
    mounted,    \* the page of the nodes is shown
    deletes,    \* deletions in flight, served or not
    gone        \* nodes whose deletion was answered to the page shown and loaded

server == <<nodes, newest>>
vars == <<server, pages, page, size, mounted, deletes, gone>>

Q == INSTANCE Query

Ids == 1 .. MaxNodes
PageNumbers == 0 .. MaxPages - 1
Keys == PageNumbers \X Sizes

(* A page of the Manager's answer.  Of the total only what the arrows make  *)
(* of it is kept: whether there are nodes beyond the page.                  *)
Answers == [page : PageNumbers, size : Sizes, rows : SUBSET Ids, more : BOOLEAN]

TypeOK ==
    /\ nodes \subseteq 1 .. newest /\ newest \in 0 .. MaxNodes
    /\ pages \in [Keys -> Q!Entries(Answers)]
    /\ page \in PageNumbers /\ size \in Sizes
    /\ mounted \in BOOLEAN
    /\ deletes \subseteq [id : Ids, served : BOOLEAN]
    /\ gone \subseteq Ids

(* Mutant of Key: the size of a page is no part of the key. *)
KeyOfPage(p, s) == <<p, CHOOSE any \in Sizes : TRUE>>

Key(p, s) == <<p, s>>

Entry == pages[Key(page, size)]
Update(p, s, q) == pages' = [pages EXCEPT ![Key(p, s)] = q]

Rows == IF Entry.data = None THEN {} ELSE Entry.data.rows
More == Entry.data # None /\ Entry.data.more

(* Without data an error or a paused fetch looks like an empty list. *)
View ==
    IF Q!Loading(Entry) THEN "loading" ELSE IF Rows = {} THEN "empty" ELSE "rows"

(* The newest size nodes come first, then the next. *)
PageOf(p, s) ==
    LET rank(n) == Cardinality({m \in nodes : m > n})
    IN  {n \in nodes : p * s <= rank(n) /\ rank(n) < (p + 1) * s}

Init ==
    /\ newest = MaxNodes - 1 /\ nodes = 1 .. newest
    /\ page = 0 /\ size = StartSize
    /\ pages = [[k \in Keys |-> Q!Empty] EXCEPT ![Key(page, size)] = Q!Fetch(Q!Empty)]
    /\ mounted = TRUE /\ deletes = {} /\ gone = {}

-----------------------------------------------------------------------------
(* The table moves to another page of the list, which is mounted. *)
GoTo(p, s, stale) ==
    /\ Cardinality({k \in Keys : pages[k] # Q!Empty} \cup {Key(p, s)}) <= MaxVisited
    /\ page' = p /\ size' = s /\ gone' = {}
    /\ Update(p, s, Q!Mount(pages[Key(p, s)], stale))
    /\ UNCHANGED <<server, mounted, deletes>>

(* handleChangePage: the arrows, by the total of the page shown. *)
ChangePage(p, stale) ==
    /\ mounted
    /\ p + 1 = page \/ (p = page + 1 /\ More)
    /\ GoTo(p, size, stale)

(* handleChangeRowsPerPage *)
ChangeSize(s, stale) ==
    /\ mounted /\ s # size
    /\ GoTo(0, s, stale)

Refresh ==
    /\ mounted
    /\ Update(page, size, Q!Refetch(Entry))
    /\ UNCHANGED <<server, page, size, mounted, deletes, gone>>

(* handleDelete, confirmed: nothing keeps the row from being asked again. *)
Delete(n) ==
    /\ mounted /\ View = "rows" /\ n \in Rows
    /\ newest - Cardinality(nodes) + Cardinality({d \in deletes : ~d.served}) < MaxDeletes
    /\ deletes' = deletes \cup {[id |-> n, served |-> FALSE]}
    /\ UNCHANGED <<server, pages, page, size, mounted, gone>>

(* A row that is gone already is deleted with success too. *)
Served(d) ==
    /\ d \in deletes /\ ~d.served
    /\ nodes' = nodes \ {d.id}
    /\ deletes' = (deletes \ {d}) \cup {[d EXCEPT !.served = TRUE]}
    /\ UNCHANGED <<newest, pages, page, size, mounted, gone>>

(* Mutant of AfterDelete: only the first page is asked for again. *)
AfterDeleteFirstPage ==
    pages' = [k \in Keys |->
                IF k[1] = 0 THEN Q!Invalidate(pages[k], mounted /\ k = Key(page, size))
                            ELSE pages[k]]

(* onSuccess of useDeleteNode: all the pages of the list are out of date.   *)
(* (The node's own query and the statistics, which no page shows, aside.)   *)
AfterDelete ==
    pages' = [k \in Keys |-> Q!Invalidate(pages[k], mounted /\ k = Key(page, size))]

DeleteOk(d) ==
    /\ d \in deletes /\ d.served
    /\ deletes' = deletes \ {d}
    /\ AfterDelete
    /\ gone' = IF mounted /\ Entry.data # None THEN gone \cup {d.id} ELSE gone
    /\ UNCHANGED <<server, page, size, mounted>>

(* Refused, or the answer lost: the page says nothing of it. *)
DeleteFails(d) ==
    /\ d \in deletes
    /\ deletes' = deletes \ {d}
    /\ UNCHANGED <<server, pages, page, size, mounted, gone>>

(* The Manager counts the rows, and finds those of the page in a statement  *)
(* of its own, without a transaction around the two.                        *)
CountNodes(p, s) ==
    /\ pages[Key(p, s)].phase = "asked" /\ pages[Key(p, s)].got = None
    /\ Update(p, s, [pages[Key(p, s)] EXCEPT
           !.got = [page |-> p, size |-> s, rows |-> {},
                    more |-> (p + 1) * s < Cardinality(nodes)]])
    /\ UNCHANGED <<server, page, size, mounted, deletes, gone>>

FindPage(p, s) ==
    /\ pages[Key(p, s)].phase = "asked" /\ pages[Key(p, s)].got # None
    /\ Update(p, s, Q!Read(pages[Key(p, s)],
           [page |-> p, size |-> s, rows |-> PageOf(p, s),
            more |-> pages[Key(p, s)].got.more]))
    /\ UNCHANGED <<server, page, size, mounted, deletes, gone>>

PageOk(p, s) ==
    /\ pages[Key(p, s)].phase = "read"
    /\ Update(p, s, Q!Succeed(pages[Key(p, s)]))
    /\ UNCHANGED <<server, page, size, mounted, deletes, gone>>

PageFails(p, s) ==
    /\ Q!Fetching(pages[Key(p, s)])
    /\ Update(p, s, Q!Fail(pages[Key(p, s)]))
    /\ UNCHANGED <<server, page, size, mounted, deletes, gone>>

(* The browser is offline when a page is asked for, or asked for again. *)
Pause(p, s) ==
    /\ Q!Fetching(pages[Key(p, s)])
    /\ Update(p, s, Q!Pause(pages[Key(p, s)]))
    /\ UNCHANGED <<server, page, size, mounted, deletes, gone>>

Reconnect(stale) ==
    /\ pages' = [k \in Keys |->
                  Q!Reconnect(pages[k], mounted /\ k = Key(page, size), stale)]
    /\ UNCHANGED <<server, page, size, mounted, deletes, gone>>

Leave ==
    /\ mounted
    /\ mounted' = FALSE
    /\ UNCHANGED <<server, pages, page, size, deletes, gone>>

(* The table starts over. *)
Return(stale) ==
    /\ ~mounted
    /\ mounted' = TRUE
    /\ page' = 0 /\ size' = StartSize /\ gone' = {}
    /\ Update(0, StartSize, Q!Mount(pages[Key(0, StartSize)], stale))
    /\ UNCHANGED <<server, deletes>>

Register ==
    /\ newest < MaxNodes
    /\ newest' = newest + 1 /\ nodes' = nodes \cup {newest + 1}
    /\ UNCHANGED <<pages, page, size, mounted, deletes, gone>>

Next ==
    \/ Refresh \/ Leave \/ Register
    \/ \E stale \in BOOLEAN :
        \/ Return(stale) \/ Reconnect(stale)
        \/ \E p \in PageNumbers : ChangePage(p, stale)
        \/ \E s \in Sizes : ChangeSize(s, stale)
    \/ \E n \in Ids : Delete(n)
    \/ \E d \in deletes : Served(d) \/ DeleteOk(d) \/ DeleteFails(d)
    \/ \E p \in PageNumbers, s \in Sizes :
        \/ CountNodes(p, s) \/ FindPage(p, s)
        \/ PageOk(p, s) \/ PageFails(p, s) \/ Pause(p, s)

Spec == Init /\ [][Next]_vars

-----------------------------------------------------------------------------
(* Properties *)

(* A node whose deletion was answered while the table showed this page is   *)
(* gone from it, or the page is being fetched anew by a request that does   *)
(* not see the node any more (or waits for the network), or that fetch has  *)
(* failed.  (A page that is still loading, or was left, may show the node   *)
(* once more: invalidation does not give up a first fetch, nor one nobody   *)
(* watches.)                                                                *)
DeletedRowGoes ==
    \A n \in gone :
        \/ n \notin Rows
        \/ Entry.phase \in {"asked", "paused"}
        \/ Entry.phase = "read" /\ n \notin Entry.got.rows
        \/ Entry.error

(* The rows are those of the page and the size the table says, and never    *)
(* more of them than fit.  (The total beneath them is another statement's:  *)
(* with a node registered between the two there are rows beyond it.)        *)
RowsOfPage ==
    Entry.data # None =>
        /\ Entry.data.page = page /\ Entry.data.size = size
        /\ Cardinality(Rows) <= size
=============================================================================
