---------------------------- MODULE WebPagesProofs ----------------------------
(***************************************************************************)
(* Proofs about the rows, the tabs and the types of the pages of           *)
(* WebConsole, for every set of agents and nodes and every number of       *)
(* calls.                                                                  *)
(***************************************************************************)
EXTENDS WebConsoleProofs, FiniteSetTheorems

USE WebConsoleAssumption

(* The entries of all the pages are those of one module. *)
Q == INSTANCE Query

(* No step leads out of the entries for a set of data. *)
LEMMA EntrySteps ==
    ASSUME NEW D, NEW q \in Q!Entries(D)
    PROVE  /\ Q!Fetch(q) \in Q!Entries(D) /\ Q!Refetch(q) \in Q!Entries(D)
           /\ Q!Succeed(q) \in Q!Entries(D) /\ Q!Fail(q) \in Q!Entries(D)
           /\ \A b \in BOOLEAN : Q!Mount(q, b) \in Q!Entries(D)
           /\ \A b \in BOOLEAN : Q!Invalidate(q, b) \in Q!Entries(D)
           /\ \A d \in D : Q!Read(q, d) \in Q!Entries(D)
           /\ Q!Pause(q) \in Q!Entries(D)
           /\ \A watched, b \in BOOLEAN : Q!Reconnect(q, watched, b) \in Q!Entries(D)
  <1> USE DEF Q!Entries, Q!Phases
  <1>1. \A r \in Q!Entries(D) : Q!Begin(r) \in Q!Entries(D)
    BY DEF Q!Begin
  <1>2. \A r \in Q!Entries(D) : Q!Fetch(r) \in Q!Entries(D) /\ Q!Refetch(r) \in Q!Entries(D)
    BY <1>1 DEF Q!Fetch, Q!Refetch
  <1>3. [q EXCEPT !.invalid = q.data # None] \in Q!Entries(D)
    OBVIOUS
  <1>4. Q!Succeed(q) \in Q!Entries(D)
    BY DEF Q!Empty, Q!Succeed
  <1>5. Q!Fail(q) \in Q!Entries(D) /\ \A d \in D : Q!Read(q, d) \in Q!Entries(D)
    BY DEF Q!Fail, Q!Read
  <1>6. \A b \in BOOLEAN : Q!Mount(q, b) \in Q!Entries(D)
    BY <1>2 DEF Q!Mount
  <1>7. \A b \in BOOLEAN : Q!Invalidate(q, b) \in Q!Entries(D)
    BY <1>2, <1>3 DEF Q!Invalidate
  <1>8. Q!Pause(q) \in Q!Entries(D) /\ [q EXCEPT !.phase = "asked"] \in Q!Entries(D)
    BY DEF Q!Pause
  <1>9. \A watched, b \in BOOLEAN : Q!Reconnect(q, watched, b) \in Q!Entries(D)
    BY <1>6, <1>8 DEF Q!Reconnect
  <1>. QED  BY <1>2, <1>4, <1>5, <1>6, <1>7, <1>8, <1>9

(* How an entry starts: with nothing, or with the fetch a mount begins. *)
LEMMA EntryStarts == \A D : Q!Empty \in Q!Entries(D) /\ Q!Fetch(Q!Empty) \in Q!Entries(D)
  <1>1. \A D : Q!Empty \in Q!Entries(D)
    BY DEF Q!Empty, Q!Entries, Q!Phases
  <1>. QED  BY <1>1, EntrySteps

(* What the steps do to the data and to an answer that was read. *)
LEMMA EntryData ==
    ASSUME NEW D, NEW q \in Q!Entries(D)
    PROVE  /\ Later(q, Q!Refetch(q)) /\ Later(q, Q!Fail(q)) /\ Later(q, Q!Pause(q))
           /\ \A watched, b \in BOOLEAN : Later(q, Q!Reconnect(q, watched, b))
           /\ \A b \in BOOLEAN : Later(q, Q!Mount(q, b)) /\ Later(q, Q!Invalidate(q, b))
           /\ \A d : Q!Read(q, d).data = q.data /\ Q!Read(q, d).got = d
           /\ Q!Succeed(q).data = q.got /\ Q!Succeed(q).phase = "idle"
  <1>1. IsEntry(q)
    BY DEF IsEntry, Q!Entries, Q!Phases
  <1>2. \A r : IsEntry(r) => Later(r, r) /\ Later(r, Q!Begin(r)) /\ Later(r, Q!Fail(r))
    BY DEF Later, IsEntry, Q!Begin, Q!Fail
  <1>3. \A r : IsEntry(r) => Later(r, Q!Fetch(r)) /\ Later(r, Q!Refetch(r))
    BY <1>2 DEF Q!Fetch, Q!Refetch
  <1>4. \A b \in BOOLEAN : Later(q, Q!Invalidate(q, b))
    <2> DEFINE out == [q EXCEPT !.invalid = q.data # None]
    <2>1. IsEntry(out) /\ out.data = q.data /\ out.phase = q.phase /\ out.got = q.got
      BY <1>1 DEF IsEntry
    <2>2. \A b \in BOOLEAN : Q!Invalidate(q, b) = IF b THEN Q!Refetch(out) ELSE out
      BY DEF Q!Invalidate
    <2> HIDE DEF out
    <2>. QED  BY <2>1, <2>2, <1>3 DEF Later
  <1>5. /\ \A d : Q!Read(q, d).data = q.data /\ Q!Read(q, d).got = d
        /\ Q!Succeed(q).data = q.got /\ Q!Succeed(q).phase = "idle"
    BY <1>1 DEF Q!Read, Q!Succeed, Q!Empty
  <1>6. \A b \in BOOLEAN : Later(q, Q!Mount(q, b))
    BY <1>1, <1>2, <1>3 DEF Q!Mount
  <1>7. Later(q, Q!Pause(q)) /\ Later(q, [q EXCEPT !.phase = "asked"])
    BY <1>1 DEF Later, IsEntry, Q!Pause
  <1>8. \A watched, b \in BOOLEAN : Later(q, Q!Reconnect(q, watched, b))
    BY <1>1, <1>2, <1>6, <1>7 DEF Q!Reconnect
  <1>. QED  BY <1>1, <1>2, <1>3, <1>4, <1>5, <1>6, <1>7, <1>8

-----------------------------------------------------------------------------
(***************************************************************************)
(* The page of a node: the entry of a node holds that node, so what is     *)
(* shown, and the tab beneath it, are those of the route.                  *)
(***************************************************************************)
LEMMA PageQueries ==
    /\ \A D : Page!Q!Entries(D) = Q!Entries(D)
    /\ Page!Q!Empty = Q!Empty
    /\ \A q : /\ Page!Q!Succeed(q) = Q!Succeed(q) /\ Page!Q!Fail(q) = Q!Fail(q)
    /\ \A q, x : /\ Page!Q!Read(q, x) = Q!Read(q, x) /\ Page!Q!Mount(q, x) = Q!Mount(q, x)
    /\ \A q : Page!Q!Pause(q) = Q!Pause(q)
    /\ \A q, w, b : Page!Q!Reconnect(q, w, b) = Q!Reconnect(q, w, b)
  BY DEF Page!Q!Entries, Page!Q!Phases, Page!Q!Empty, Page!Q!Idle, Page!Q!Begin,
         Page!Q!Fetch, Page!Q!Mount, Page!Q!Read, Page!Q!Succeed, Page!Q!Fail,
         Page!Q!Pause, Page!Q!Reconnect, Q!Entries, Q!Phases, Q!Empty, Q!Idle, Q!Begin,
         Q!Fetch, Q!Mount, Q!Read, Q!Succeed, Q!Fail, Q!Pause, Q!Reconnect

Routed ==
    /\ Page!TypeOK
    /\ \A n \in Nodes : details[n].data \in {None, n}

LEMMA RoutedInit == Init => Routed
  BY DEF Init, Page!Init, Page!Q!Empty, Page!Q!Entries, Page!Q!Phases, Page!TypeOK,
         Page!Tabs, Routed

LEMMA RoutedUpdate ==
    ASSUME Routed, NEW n \in Nodes, NEW q \in Page!Q!Entries(Nodes), q.data \in {None, n},
           Page!Update(n, q), routed' \in Nodes \cup {None}, tab' \in Page!Tabs
    PROVE  Routed'
  BY DEF Routed, Page!TypeOK, Page!Update

LEMMA RoutedKept ==
    ASSUME Routed, [Next]_vars
    PROVE  Routed'
<1> USE DEF Page!Key
<1>1. \A n \in Nodes : details[n] \in Page!Q!Entries(Nodes) /\ details[n].data \in {None, n}
  BY DEF Routed, Page!TypeOK
<1>2. ASSUME NEW n \in Nodes, NEW stale \in BOOLEAN, Page!Open(n, stale)
      PROVE  Routed'
  <2>1. /\ Page!Q!Mount(details[n], stale) \in Page!Q!Entries(Nodes)
        /\ Page!Q!Mount(details[n], stale).data = details[n].data
    BY <1>1, EntrySteps, EntryData, PageQueries DEF Later
  <2>2. routed' = n /\ tab' \in Page!Tabs /\ Page!Update(n, Page!Q!Mount(details[n], stale))
    BY <1>2 DEF Page!Open, Page!Tabs, Routed, Page!TypeOK
  <2>. QED  BY <1>1, <2>1, <2>2, RoutedUpdate
<1>3. ASSUME NEW n \in Nodes, Page!NodeOk(n)
      PROVE  Routed'
  <2> DEFINE r == Q!Read(details[n], n)
  <2>1. r \in Q!Entries(Nodes) /\ r.got = n
    BY <1>1, EntrySteps, EntryData, PageQueries
  <2>2. Q!Succeed(r) \in Q!Entries(Nodes) /\ Q!Succeed(r).data = n
    <3> HIDE DEF r
    <3>. QED  BY <2>1, EntrySteps, EntryData
  <2>3. /\ Page!Update(n, Q!Succeed(r)) /\ Q!Succeed(r) \in Page!Q!Entries(Nodes)
        /\ UNCHANGED <<routed, tab>>
    BY <1>3, <2>2, PageQueries DEF Page!NodeOk
  <2>. QED  BY <2>2, <2>3, RoutedUpdate DEF Routed, Page!TypeOK
<1>4. ASSUME NEW n \in Nodes, Page!NodeFails(n)
      PROVE  Routed'
  <2>1. /\ Page!Q!Fail(details[n]) \in Page!Q!Entries(Nodes)
        /\ Page!Q!Fail(details[n]).data = details[n].data
    BY <1>1, EntrySteps, EntryData, PageQueries DEF Later
  <2>2. Page!Update(n, Page!Q!Fail(details[n])) /\ UNCHANGED <<routed, tab>>
    BY <1>4 DEF Page!NodeFails
  <2>. QED  BY <1>1, <2>1, <2>2, RoutedUpdate DEF Routed, Page!TypeOK
<1>5. CASE Page!Away \/ \E t \in Page!Tabs : Page!SelectTab(t)
  BY <1>5 DEF Page!Away, Page!SelectTab, Routed, Page!TypeOK
<1>6. ASSUME NEW n \in Nodes, Page!Pause(n)
      PROVE  Routed'
  <2>1. /\ Page!Q!Pause(details[n]) \in Page!Q!Entries(Nodes)
        /\ Page!Q!Pause(details[n]).data = details[n].data
    BY <1>1, EntrySteps, EntryData, PageQueries DEF Later
  <2>2. Page!Update(n, Page!Q!Pause(details[n])) /\ UNCHANGED <<routed, tab>>
    BY <1>6 DEF Page!Pause
  <2>. QED  BY <1>1, <2>1, <2>2, RoutedUpdate DEF Routed, Page!TypeOK
<1>7. ASSUME NEW stale \in BOOLEAN, Page!Reconnect(stale)
      PROVE  Routed'
  <2> DEFINE watched(n) == routed # None /\ n = routed
             again(n) == Page!Q!Reconnect(details[n], watched(n), stale)
  <2>1. \A n : watched(n) \in BOOLEAN
    OBVIOUS
  <2>2. details' = [n \in Nodes |-> again(n)] /\ UNCHANGED <<routed, tab>>
    BY <1>7 DEF Page!Reconnect
  <2> HIDE DEF watched
  <2>3. \A n \in Nodes : again(n) \in Page!Q!Entries(Nodes) /\ again(n).data = details[n].data
    BY <1>1, <2>1, EntrySteps, EntryData, PageQueries DEF Later
  <2> HIDE DEF again
  <2>4. \A n \in Nodes : details'[n] = again(n)
    BY <2>2
  <2>. QED  BY <1>1, <2>2, <2>3, <2>4 DEF Routed, Page!TypeOK
<1>8. CASE OnNode /\ Page!Next
  BY <1>8, <1>2, <1>3, <1>4, <1>5, <1>6, <1>7 DEF Page!Next
<1>9. CASE ~(OnNode /\ Page!Next)
  <2>1. UNCHANGED pageVars
    BY <1>9 DEF Next, vars, OnAgents, OnLogs, OnCharts, OnDashboard, OnNodes, OnMetrics
  <2>. QED  BY <2>1 DEF pageVars, Routed, Page!TypeOK
<1>. QED  BY <1>8, <1>9

LEMMA RoutedShown == Routed => Page!TabOfRoute
  <1> SUFFICES ASSUME Routed, Page!MountedTab # None
               PROVE  Page!MountedTab.node = routed
    BY DEF Page!TabOfRoute
  <1>1. /\ Page!MountedTab = [tab |-> tab, node |-> Page!Entry.data]
        /\ Page!Entry.data # None
    BY DEF Page!MountedTab, Page!View
  <1>2. routed \in Nodes /\ Page!Entry = details[routed]
    BY <1>1 DEF Routed, Page!TypeOK, Page!Entry, Page!Key, Page!Q!Empty
  <1>. QED  BY <1>1, <1>2 DEF Routed

-----------------------------------------------------------------------------
(***************************************************************************)
(* The list of the nodes: an answer has no more rows than fit on its page. *)
(* The place of a node in the Manager's order, which is the number of      *)
(* nodes newer than it, is another for each node.                          *)
(***************************************************************************)
LEMMA ListQueries ==
    /\ \A D : List!Q!Entries(D) = Q!Entries(D)
    /\ List!Q!Empty = Q!Empty
    /\ \A q : /\ List!Q!Fetch(q) = Q!Fetch(q) /\ List!Q!Refetch(q) = Q!Refetch(q)
              /\ List!Q!Succeed(q) = Q!Succeed(q) /\ List!Q!Fail(q) = Q!Fail(q)
    /\ \A q, x : /\ List!Q!Read(q, x) = Q!Read(q, x) /\ List!Q!Mount(q, x) = Q!Mount(q, x)
                 /\ List!Q!Invalidate(q, x) = Q!Invalidate(q, x)
    /\ \A q : List!Q!Pause(q) = Q!Pause(q)
    /\ \A q, w, b : List!Q!Reconnect(q, w, b) = Q!Reconnect(q, w, b)
  BY DEF List!Q!Entries, List!Q!Phases, List!Q!Empty, List!Q!Idle, List!Q!Begin,
         List!Q!Fetch, List!Q!Refetch, List!Q!Invalidate, List!Q!Mount, List!Q!Read,
         List!Q!Succeed, List!Q!Fail, List!Q!Pause, List!Q!Reconnect, Q!Entries,
         Q!Phases, Q!Empty, Q!Idle, Q!Begin, Q!Fetch, Q!Refetch, Q!Invalidate, Q!Mount,
         Q!Read, Q!Succeed, Q!Fail, Q!Pause, Q!Reconnect

LEMMA SameCardinality == \A S : List!Cardinality(S) = Cardinality(S)
  BY Zenon DEF List!Cardinality, Cardinality

Rank(n) == Cardinality({m \in nodes : m > n})

LEMMA Ranks ==
    ASSUME nodes \subseteq Nat, IsFiniteSet(nodes)
    PROVE  /\ \A n \in nodes : Rank(n) \in Nat /\ Rank(n) < Cardinality(nodes)
           /\ \A n, m \in nodes : n # m => Rank(n) # Rank(m)
  <1> DEFINE newer(n) == {m \in nodes : m > n}
  <1>1. Cardinality(nodes) \in Nat /\ \A n \in nodes : n \in Nat
    BY FS_CardinalityType
  <1>2. \A n \in nodes : newer(n) \in SUBSET nodes /\ n \notin newer(n)
    BY <1>1
  <1>3. \A n, m \in nodes :
          n < m => newer(m) \in SUBSET newer(n) /\ m \in newer(n) /\ m \notin newer(m)
    <2>1. \A n, m, i \in nodes : n < m /\ i > m => i > n
      BY <1>1
    <2>2. \A m \in nodes : ~(m > m)
      BY <1>1
    <2>3. \A n, m \in nodes : n < m => m > n
      BY <1>1
    <2>. QED  BY <2>1, <2>2, <2>3
  <1>4. \A n : Rank(n) = Cardinality(newer(n))
    BY DEF Rank
  <1> HIDE DEF newer
  <1>5. \A n \in nodes : IsFiniteSet(newer(n))
    BY <1>2, FS_Subset
  <1>6. \A n \in nodes : Rank(n) \in Nat
    BY <1>4, <1>5, FS_CardinalityType
  <1>7. \A n \in nodes : Rank(n) < Cardinality(nodes)
    <2>1. \A n \in nodes : Rank(n) <= Cardinality(nodes) /\ Rank(n) # Cardinality(nodes)
      BY <1>2, <1>4, FS_Subset
    <2>. QED  BY <1>1, <1>6, <2>1
  <1>8. \A n, m \in nodes : n < m => Rank(m) < Rank(n)
    <2>1. \A n, m \in nodes : n < m => Rank(m) <= Rank(n) /\ Rank(m) # Rank(n)
      BY <1>3, <1>4, <1>5, FS_Subset
    <2>. QED  BY <1>6, <2>1
  <1>9. \A n, m \in nodes : n # m => Rank(n) # Rank(m)
    <2>1. \A n, m \in nodes : n # m => n < m \/ m < n
      BY <1>1
    <2>. QED  BY <1>6, <1>8, <2>1
  <1>. QED  BY <1>6, <1>7, <1>9

LEMMA PageFits ==
    ASSUME nodes \subseteq Nat, IsFiniteSet(nodes), NEW p \in Nat, NEW s \in Nat
    PROVE  Cardinality(List!PageOf(p, s)) <= s
  <1> DEFINE found == List!PageOf(p, s)
             from == p * s
             to == from + s - 1
             place == [n \in found |-> Rank(n)]
  <1>1. from \in Nat /\ (p + 1) * s = from + s /\ to \in Int
    OBVIOUS
  <1>2. found = {n \in nodes : from <= Rank(n) /\ Rank(n) < (p + 1) * s}
    BY SameCardinality DEF List!PageOf, Rank
  <1> HIDE DEF found, from
  <1>3. \A n \in found : Rank(n) \in from .. to
    BY <1>1, <1>2, Ranks
  <1>4. \A n, m \in found : place[n] = place[m] => n = m
    BY <1>2, Ranks
  <1>5. place \in Injection(found, from .. to)
    BY <1>3, <1>4 DEF Injection, IsInjective
  <1>6. Cardinality(from .. to) = s /\ IsFiniteSet(from .. to)
    BY <1>1, FS_Interval
  <1>. QED  BY <1>5, <1>6, FS_Injection DEF found

Fits(k, a) ==
    /\ a.page = k[1] /\ a.size = k[2]
    /\ Cardinality(a.rows) <= k[2]

Fitting(k, q) ==
    /\ q \in List!Q!Entries(List!Answers)
    /\ q.data # None => Fits(k, q.data)
    /\ q.phase = "read" => Fits(k, q.got)

Paged ==
    /\ nodes \subseteq 1 .. newest /\ newest \in 0 .. 2
    /\ page \in 0 .. 1 /\ size \in {1, 2} /\ onList \in BOOLEAN
    /\ deletes \subseteq [id : 1 .. 2, served : BOOLEAN]
    /\ gone \subseteq 1 .. 2
    /\ pages = [k \in PageKeys |-> pages[k]]
    /\ \A k \in PageKeys : Fitting(k, pages[k])

LEMMA FittingLater ==
    ASSUME NEW k, NEW q, Fitting(k, q), NEW b \in BOOLEAN
    PROVE  /\ Fitting(k, List!Q!Refetch(q)) /\ Fitting(k, List!Q!Mount(q, b))
           /\ Fitting(k, List!Q!Invalidate(q, b)) /\ Fitting(k, List!Q!Fail(q))
           /\ Fitting(k, List!Q!Pause(q))
           /\ \A watched \in BOOLEAN : Fitting(k, List!Q!Reconnect(q, watched, b))
  <1>1. q \in Q!Entries(List!Answers)
    BY ListQueries DEF Fitting
  <1>2. \A r \in Q!Entries(List!Answers) : Later(q, r) => Fitting(k, r)
    BY ListQueries DEF Fitting, Later
  <1>. QED  BY <1>1, <1>2, EntrySteps, EntryData, ListQueries

LEMMA PagedInit == Init => Paged
  <1> SUFFICES ASSUME Init PROVE Paged
    OBVIOUS
  <1>1. /\ newest = 1 /\ nodes = {1} /\ gone = {} /\ deletes = {} /\ page = 0 /\ size = 1
        /\ onList = TRUE
        /\ pages = [[k \in PageKeys |-> List!Q!Empty]
                      EXCEPT ![<<0, 1>>] = List!Q!Fetch(List!Q!Empty)]
    BY DEF Init, List!Init, List!Keys, List!PageNumbers, List!Key, PageKeys
  <1>2. \A k : Fitting(k, List!Q!Empty) /\ Fitting(k, List!Q!Fetch(List!Q!Empty))
    BY DEF Fitting, List!Q!Empty, List!Q!Fetch, List!Q!Begin, List!Q!Entries,
           List!Q!Phases
  <1>3. pages = [k \in PageKeys |-> pages[k]] /\ \A k \in PageKeys : Fitting(k, pages[k])
    BY <1>1, <1>2
  <1>. QED  BY <1>1, <1>3 DEF Paged

LEMMA PagedUpdate ==
    ASSUME Paged, NEW p \in 0 .. 1, NEW s \in {1, 2}, NEW q, Fitting(<<p, s>>, q),
           pages' = [pages EXCEPT ![<<p, s>>] = q],
           page' \in 0 .. 1, size' \in {1, 2}, onList' \in BOOLEAN, gone' \in {gone, {}},
           UNCHANGED <<nodes, newest, deletes>>
    PROVE  Paged'
  <1>1. <<p, s>> \in PageKeys
    BY DEF PageKeys
  <1>2. \A k \in PageKeys : Fitting(k, pages'[k])
    BY <1>1 DEF Paged
  <1>. QED  BY <1>2 DEF Paged

LEMMA PagedKept ==
    ASSUME Paged, [Next]_vars
    PROVE  Paged'
<1> USE DEF List!Key, List!Update, List!Entry, List!server
<1>1. \A p \in 0 .. 1, s \in {1, 2} : Fitting(<<p, s>>, pages[<<p, s>>])
  BY DEF Paged, PageKeys
<1>2. CASE List!Refresh
  <2>1. Fitting(<<page, size>>, List!Q!Refetch(pages[<<page, size>>]))
    BY <1>1, FittingLater DEF Paged
  <2>. QED  BY <1>2, <2>1, PagedUpdate DEF List!Refresh, Paged
<1>3. ASSUME NEW stale \in BOOLEAN, NEW p \in 0 .. 1, NEW s \in {1, 2},
             page' = p, size' = s, gone' = {}, onList' \in BOOLEAN,
             pages' = [pages EXCEPT ![<<p, s>>] = List!Q!Mount(pages[<<p, s>>], stale)],
             UNCHANGED <<nodes, newest, deletes>>
      PROVE  Paged'
  <2>1. Fitting(<<p, s>>, List!Q!Mount(pages[<<p, s>>], stale))
    BY <1>1, FittingLater
  <2>. QED  BY <1>3, <2>1, PagedUpdate
<1>4. ASSUME NEW stale \in BOOLEAN, List!Return(stale)
      PROVE  Paged'
  <2>1. /\ onList' = TRUE /\ page' = 0 /\ size' = 1 /\ gone' = {}
        /\ pages' = [pages EXCEPT ![<<0, 1>>] = List!Q!Mount(pages[<<0, 1>>], stale)]
        /\ UNCHANGED <<nodes, newest, deletes>>
    BY <1>4 DEF List!Return
  <2>2. 0 \in 0 .. 1 /\ 1 \in {1, 2} /\ onList' \in BOOLEAN
    BY <2>1
  <2>. QED  BY ONLY <1>3, <2>1, <2>2
<1>5. ASSUME NEW stale \in BOOLEAN, NEW p \in 0 .. 1, List!ChangePage(p, stale)
      PROVE  Paged'
  <2>1. /\ page' = p /\ size' = size /\ gone' = {} /\ onList' = onList
        /\ pages' = [pages EXCEPT ![<<p, size>>] = List!Q!Mount(pages[<<p, size>>], stale)]
        /\ UNCHANGED <<nodes, newest, deletes>>
    BY <1>5 DEF List!ChangePage, List!GoTo
  <2>. QED  BY <1>3, <2>1 DEF Paged
<1>6. ASSUME NEW stale \in BOOLEAN, NEW s \in {1, 2}, List!ChangeSize(s, stale)
      PROVE  Paged'
  <2>1. /\ page' = 0 /\ size' = s /\ gone' = {} /\ onList' = onList
        /\ pages' = [pages EXCEPT ![<<0, s>>] = List!Q!Mount(pages[<<0, s>>], stale)]
        /\ UNCHANGED <<nodes, newest, deletes>>
    BY <1>6 DEF List!ChangeSize, List!GoTo
  <2>2. 0 \in 0 .. 1 /\ onList' \in BOOLEAN
    BY <2>1 DEF Paged
  <2>. QED  BY ONLY stale \in BOOLEAN, s \in {1, 2}, <1>3, <2>1, <2>2
<1>7. CASE UNCHANGED listVars \/ List!Leave
  BY <1>7 DEF listVars, List!Leave, Paged
<1>8. CASE List!Register
  <2>1. newest < 2 /\ newest' = newest + 1 /\ nodes' = nodes \cup {newest + 1}
    BY <1>8 DEF List!Register
  <2>2. newest' \in 0 .. 2 /\ nodes' \subseteq 1 .. newest'
    BY <2>1 DEF Paged
  <2>. QED  BY <1>8, <2>2 DEF List!Register, Paged
<1>9. ASSUME NEW n \in 1 .. 2, List!Delete(n)
      PROVE  Paged'
  <2>1. [id |-> n, served |-> FALSE] \in [id : 1 .. 2, served : BOOLEAN]
    OBVIOUS
  <2>. QED  BY <1>9, <2>1 DEF List!Delete, Paged
<1>10. ASSUME NEW d \in deletes, List!Served(d)
       PROVE  Paged'
  <2>1. [d EXCEPT !.served = TRUE] \in [id : 1 .. 2, served : BOOLEAN]
    BY DEF Paged
  <2>2. /\ nodes' = nodes \ {d.id}
        /\ deletes' = (deletes \ {d}) \cup {[d EXCEPT !.served = TRUE]}
        /\ UNCHANGED <<newest, pages, page, size, onList, gone>>
    BY <1>10 DEF List!Served
  <2>3. nodes' \subseteq 1 .. newest /\ deletes' \subseteq [id : 1 .. 2, served : BOOLEAN]
    BY <2>1, <2>2 DEF Paged
  <2>. QED  BY <2>2, <2>3 DEF Paged
<1>11. ASSUME NEW d \in deletes, List!DeleteOk(d)
       PROVE  Paged'
  <2> DEFINE watched(k) == onList /\ k = <<page, size>>
  <2>1. /\ deletes' = deletes \ {d}
        /\ pages' = [k \in PageKeys |-> List!Q!Invalidate(pages[k], watched(k))]
        /\ gone' \in {gone, gone \cup {d.id}}
        /\ UNCHANGED <<nodes, newest, page, size, onList>>
    BY <1>11 DEF List!DeleteOk, List!AfterDelete, List!Keys, List!PageNumbers, PageKeys
  <2>2. \A k \in PageKeys : watched(k) \in BOOLEAN /\ Fitting(k, pages[k])
    BY DEF Paged
  <2>3. \A k \in PageKeys : Fitting(k, List!Q!Invalidate(pages[k], watched(k)))
    BY <2>2, FittingLater
  <2>4. \A k \in PageKeys : Fitting(k, pages'[k])
    BY <2>1, <2>3
  <2>5. d.id \in 1 .. 2
    BY DEF Paged
  <2>6. pages' = [k \in PageKeys |-> pages'[k]]
    BY <2>1
  <2>. QED  BY <2>1, <2>4, <2>5, <2>6 DEF Paged
<1>12. ASSUME NEW d \in deletes, List!DeleteFails(d)
       PROVE  Paged'
  BY <1>12 DEF List!DeleteFails, Paged
<1>13. ASSUME NEW p \in 0 .. 1, NEW s \in {1, 2}, List!CountNodes(p, s)
       PROVE  Paged'
  <2> DEFINE q == pages[<<p, s>>]
             more == (p + 1) * s < List!Cardinality(nodes)
             counted == [page |-> p, size |-> s, rows |-> {}, more |-> more]
             r == [q EXCEPT !.got = counted]
  <2>1. /\ pages' = [pages EXCEPT ![<<p, s>>] = r]
        /\ UNCHANGED <<nodes, newest, page, size, onList, deletes, gone>>
    BY <1>13 DEF List!CountNodes
  <2>2. more \in BOOLEAN
    OBVIOUS
  <2> HIDE DEF more
  <2>3. counted \in List!Answers
    BY <2>2 DEF List!Answers, List!PageNumbers
  <2> HIDE DEF counted
  <2>4. q \in List!Q!Entries(List!Answers) /\ q.phase = "asked"
        /\ (q.data # None => Fits(<<p, s>>, q.data))
    BY <1>1, <1>13 DEF Fitting, List!CountNodes
  <2> HIDE DEF q
  <2>5. r \in List!Q!Entries(List!Answers) /\ r.phase = "asked" /\ r.data = q.data
    BY <2>3, <2>4 DEF List!Q!Entries
  <2>6. Fitting(<<p, s>>, r)
    BY <2>4, <2>5 DEF Fitting
  <2> HIDE DEF r
  <2>. QED  BY <2>1, <2>6, PagedUpdate DEF Paged
<1>14. ASSUME NEW p \in 0 .. 1, NEW s \in {1, 2}, List!FindPage(p, s)
       PROVE  Paged'
  <2> DEFINE q == pages[<<p, s>>]
             answer == [page |-> p, size |-> s, rows |-> List!PageOf(p, s),
                        more |-> q.got.more]
  <2>1. /\ pages' = [pages EXCEPT ![<<p, s>>] = List!Q!Read(q, answer)]
        /\ UNCHANGED <<nodes, newest, page, size, onList, deletes, gone>>
    BY <1>14 DEF List!FindPage
  <2>2. nodes \subseteq Nat /\ IsFiniteSet(nodes)
    <3>1. newest \in Int /\ nodes \in SUBSET (1 .. newest)
      BY DEF Paged
    <3>2. IsFiniteSet(1 .. newest)
      BY <3>1, FS_Interval
    <3>3. IsFiniteSet(nodes)
      BY <3>1, <3>2, FS_Subset
    <3>. QED  BY <3>1, <3>3
  <2>3. List!PageOf(p, s) \subseteq 1 .. 2 /\ Cardinality(List!PageOf(p, s)) <= s
    <3>1. List!PageOf(p, s) \subseteq nodes /\ nodes \subseteq 1 .. 2
      BY DEF List!PageOf, Paged
    <3>2. p \in Nat /\ s \in Nat
      OBVIOUS
    <3>. QED  BY ONLY <2>2, <3>1, <3>2, PageFits
  <2>4. q \in Q!Entries(List!Answers) /\ (q.data # None => Fits(<<p, s>>, q.data))
    BY <1>1, ListQueries DEF Fitting
  <2>5. q.got \in List!Answers
    BY <1>14, <2>4 DEF List!FindPage, Q!Entries
  <2>6. answer \in List!Answers /\ Fits(<<p, s>>, answer)
    BY <2>3, <2>5 DEF Fits, List!Answers, List!PageNumbers, List!Ids
  <2> HIDE DEF answer
  <2>7. Fitting(<<p, s>>, List!Q!Read(q, answer))
    <3>1. \A d \in List!Answers : Q!Read(q, d) \in Q!Entries(List!Answers)
      BY <2>4, EntrySteps
    <3>2. Q!Read(q, answer).data = q.data /\ Q!Read(q, answer).got = answer
      BY <2>4, EntryData
    <3>. QED  BY <2>4, <2>6, <3>1, <3>2, ListQueries DEF Fitting
  <2>. QED  BY <2>1, <2>7, PagedUpdate DEF Paged
<1>15. ASSUME NEW p \in 0 .. 1, NEW s \in {1, 2}, List!PageOk(p, s)
       PROVE  Paged'
  <2> DEFINE q == pages[<<p, s>>]
  <2>1. q \in Q!Entries(List!Answers) /\ q.phase = "read" /\ Fits(<<p, s>>, q.got)
    BY <1>1, <1>15, ListQueries DEF Fitting, List!PageOk
  <2>2. Fitting(<<p, s>>, List!Q!Succeed(q))
    BY <2>1, EntrySteps, EntryData, ListQueries DEF Fitting
  <2>. QED  BY <1>15, <2>2, PagedUpdate DEF List!PageOk, Paged
<1>16. ASSUME NEW p \in 0 .. 1, NEW s \in {1, 2}, List!PageFails(p, s) \/ List!Pause(p, s)
       PROVE  Paged'
  <2>1. /\ Fitting(<<p, s>>, List!Q!Fail(pages[<<p, s>>]))
        /\ Fitting(<<p, s>>, List!Q!Pause(pages[<<p, s>>]))
    BY <1>1, FittingLater
  <2>. QED  BY <1>16, <2>1, PagedUpdate DEF List!PageFails, List!Pause, Paged
<1>17. ASSUME NEW stale \in BOOLEAN, List!Reconnect(stale)
       PROVE  Paged'
  <2> DEFINE watched(k) == onList /\ k = <<page, size>>
             again(k) == List!Q!Reconnect(pages[k], watched(k), stale)
  <2>1. /\ pages' = [k \in PageKeys |-> again(k)]
        /\ UNCHANGED <<nodes, newest, page, size, onList, deletes, gone>>
    BY <1>17 DEF List!Reconnect, List!Keys, List!PageNumbers, PageKeys
  <2>2. \A k \in PageKeys : watched(k) \in BOOLEAN /\ Fitting(k, pages[k])
    BY DEF Paged
  <2> HIDE DEF watched
  <2>3. \A k \in PageKeys : Fitting(k, again(k))
    BY <2>2, FittingLater
  <2> HIDE DEF again
  <2>4. \A k \in PageKeys : Fitting(k, pages'[k])
    BY <2>1, <2>3
  <2>5. pages' = [k \in PageKeys |-> pages'[k]]
    BY <2>1
  <2>. QED  BY <2>1, <2>4, <2>5 DEF Paged
<1>18. CASE OnNodes /\ List!Next
  <2>1. List!PageNumbers = 0 .. 1 /\ List!Ids = 1 .. 2
    BY DEF List!PageNumbers, List!Ids
  <2>. QED
    BY <2>1, <1>18, <1>2, <1>4, <1>5, <1>6, <1>7, <1>8, <1>9, <1>10, <1>11, <1>12, <1>13,
       <1>14, <1>15, <1>16, <1>17
       DEF List!Next
<1>19. CASE ~(OnNodes /\ List!Next)
  <2>1. UNCHANGED listVars
    BY <1>19 DEF Next, vars, OnAgents, OnLogs, OnCharts, OnDashboard, OnMetrics, OnNode
  <2>. QED  BY <1>7, <2>1
<1>. QED  BY <1>18, <1>19

LEMMA PagedShown == Paged => List!RowsOfPage
  <1> SUFFICES ASSUME Paged, Shown.data # None
               PROVE  /\ Shown.data.page = page /\ Shown.data.size = size
                      /\ Cardinality(Shown.data.rows) <= size
    BY SameCardinality DEF List!RowsOfPage, List!Rows, List!Entry, List!Key, Shown
  <1>1. <<page, size>> \in PageKeys
    BY DEF Paged, PageKeys
  <1>2. Fits(<<page, size>>, Shown.data)
    BY <1>1 DEF Paged, Fitting, Shown
  <1>. QED  BY <1>2 DEF Fits

(***************************************************************************)
(* The rows in the table and the tab beneath a node are those of the page, *)
(* the size and the route asked for, and there are never more rows than    *)
(* the page has room for, whatever registers, goes or fails between the    *)
(* requests (List.tsx, useNodes.ts, Detail.tsx).                           *)
(***************************************************************************)
THEOREM ShownAsAskedHolds == Spec => []ShownAsAsked
<1>1. Init => Paged /\ Routed
  BY PagedInit, RoutedInit
<1>2. Paged /\ Routed /\ [Next]_vars => (Paged /\ Routed)'
  BY PagedKept, RoutedKept
<1>3. Paged /\ Routed => ShownAsAsked
  BY PagedShown, RoutedShown DEF ShownAsAsked
<1>. QED  BY <1>1, <1>2, <1>3, PTL DEF Spec

-----------------------------------------------------------------------------
(***************************************************************************)
(* The types of the pages, one page at a time.                             *)
(***************************************************************************)
LEMMA PagedTypes == Paged => List!TypeOK
  <1> SUFFICES ASSUME Paged PROVE List!TypeOK
    OBVIOUS
  <1>1. List!PageNumbers = 0 .. 1 /\ List!Ids = 1 .. 2 /\ List!Keys = PageKeys
    BY DEF List!PageNumbers, List!Ids, List!Keys, PageKeys
  <1>2. pages \in [PageKeys -> List!Q!Entries(List!Answers)]
    BY DEF Paged, Fitting
  <1>. QED  BY <1>1, <1>2 DEF Paged, List!TypeOK

(* The timers of the agents tab are those of calls that were sent and are   *)
(* no longer in flight.                                                     *)
LEMMA TabQueries ==
    /\ \A D : Tab!Q!Entries(D) = Q!Entries(D)
    /\ Tab!Q!Empty = Q!Empty
    /\ \A q : /\ Tab!Q!Fetch(q) = Q!Fetch(q) /\ Tab!Q!Refetch(q) = Q!Refetch(q)
              /\ Tab!Q!Succeed(q) = Q!Succeed(q) /\ Tab!Q!Fail(q) = Q!Fail(q)
    /\ \A q, x : /\ Tab!Q!Read(q, x) = Q!Read(q, x) /\ Tab!Q!Mount(q, x) = Q!Mount(q, x)
                 /\ Tab!Q!Invalidate(q, x) = Q!Invalidate(q, x)
    /\ \A q : Tab!Q!Pause(q) = Q!Pause(q)
    /\ \A q, w, b : Tab!Q!Reconnect(q, w, b) = Q!Reconnect(q, w, b)
  BY DEF Tab!Q!Entries, Tab!Q!Phases, Tab!Q!Empty, Tab!Q!Idle, Tab!Q!Begin, Tab!Q!Fetch,
         Tab!Q!Refetch, Tab!Q!Invalidate, Tab!Q!Mount, Tab!Q!Read, Tab!Q!Succeed,
         Tab!Q!Fail, Tab!Q!Pause, Tab!Q!Reconnect, Q!Entries, Q!Phases, Q!Empty, Q!Idle,
         Q!Begin, Q!Fetch, Q!Refetch, Q!Invalidate, Q!Mount, Q!Read, Q!Succeed, Q!Fail,
         Q!Pause, Q!Reconnect

Counted ==
    /\ list \in Tab!Q!Entries(Tab!Lists)
    /\ sent \in 0 .. MaxCalls /\ timers \in Nat
    /\ IsFiniteSet(calls) /\ timers + Cardinality(calls) <= sent
    /\ failed \subseteq Tab!Mutations /\ message \in Tab!Mutations \cup {None}

LEMMA CountedInit == Init => Counted
  <1> SUFFICES ASSUME Tab!Init PROVE Counted
    BY DEF Init
  <1>1. list \in Tab!Q!Entries(Tab!Lists)
    BY EntryStarts, TabQueries DEF Tab!Init
  <1>. QED  BY <1>1, FS_EmptySet DEF Tab!Init, Counted

LEMMA CountedKept ==
    ASSUME Shows, Counted, [Next]_vars
    PROVE  Counted'
<1> USE DEF Tab!tab
<1>1. list \in Q!Entries(Tab!Lists) /\ Cardinality(calls) \in Nat
  BY TabQueries, FS_CardinalityType DEF Counted
<1>2. CASE \/ Tab!Poll \/ Tab!Refresh \/ Tab!ListFails \/ Tab!Pause
           \/ \E stale \in BOOLEAN : Tab!Return(stale) \/ Tab!Reconnect(stale)
  <2>1. /\ Tab!Q!Fetch(list) \in Tab!Q!Entries(Tab!Lists)
        /\ Tab!Q!Refetch(list) \in Tab!Q!Entries(Tab!Lists)
        /\ Tab!Q!Fail(list) \in Tab!Q!Entries(Tab!Lists)
        /\ Tab!Q!Pause(list) \in Tab!Q!Entries(Tab!Lists)
        /\ \A stale \in BOOLEAN : Tab!Q!Mount(list, stale) \in Tab!Q!Entries(Tab!Lists)
        /\ \A stale \in BOOLEAN :
             Tab!Q!Reconnect(list, shown, stale) \in Tab!Q!Entries(Tab!Lists)
    BY <1>1, EntrySteps, TabQueries DEF Shows, Listed
  <2>. QED
    BY <1>2, <2>1 DEF Tab!Poll, Tab!Refresh, Tab!ListFails, Tab!Pause, Tab!Return,
       Tab!Reconnect, Counted
<1>3. CASE Tab!ReadList \/ Tab!ListOk
  <2>1. /\ Tab!Q!Read(list, rows) \in Tab!Q!Entries(Tab!Lists)
        /\ Tab!Q!Succeed(list) \in Tab!Q!Entries(Tab!Lists)
    BY <1>1, EntrySteps, TabQueries DEF Shows, Listed
  <2>. QED  BY <1>3, <2>1 DEF Tab!ReadList, Tab!ListOk, Counted
<1>4. ASSUME NEW kind \in Tab!Mutations, NEW op, Tab!Send(kind, First, op)
      PROVE  Counted'
  <2> DEFINE c == [kind |-> kind, agent |-> First, op |-> op, mine |-> TRUE, at |-> None]
  <2>1. /\ sent < MaxCalls /\ sent' = sent + 1 /\ calls' = calls \cup {c}
        /\ failed' \subseteq failed /\ UNCHANGED <<list, message, timers>>
    BY <1>4 DEF Tab!Send
  <2> HIDE DEF c
  <2>2. IsFiniteSet(calls') /\ Cardinality(calls') \in {Cardinality(calls), Cardinality(calls) + 1}
    BY <2>1, FS_AddElement DEF Counted
  <2>3. MaxCalls \in Nat
    OBVIOUS
  <2>. QED  BY <1>1, <2>1, <2>2, <2>3 DEF Counted
<1>5. CASE Tab!Sync \/ \E a \in {First}, op \in Tab!Operations : Tab!Operate(a, op)
  <2>1. (CHOOSE a \in {First} : TRUE) = First
    OBVIOUS
  <2>. QED  BY <1>4, <1>5, <2>1 DEF Tab!Sync, Tab!Operate, Tab!Mutations
<1>6. ASSUME NEW c \in calls, Tab!Serve(c)
      PROVE  Counted'
  <2> DEFINE served == [c EXCEPT !.at = rows.at + 1]
  <2>1. calls' = (calls \ {c}) \cup {served} /\ UNCHANGED <<list, sent, failed, message, timers>>
    BY <1>6 DEF Tab!Serve
  <2> HIDE DEF served
  <2>2. IsFiniteSet(calls \ {c}) /\ Cardinality(calls \ {c}) = Cardinality(calls) - 1
    BY FS_RemoveElement DEF Counted
  <2>3. /\ IsFiniteSet(calls')
        /\ Cardinality(calls') \in {Cardinality(calls \ {c}), Cardinality(calls \ {c}) + 1}
    BY <2>1, <2>2, FS_AddElement
  <2>. QED  BY <1>1, <2>1, <2>2, <2>3 DEF Counted
<1>7. ASSUME NEW c \in calls, Tab!CallOk(c)
      PROVE  Counted'
  <2>1. /\ calls' = calls \ {c} /\ UNCHANGED <<sent, failed>>
        /\ list' = Tab!Q!Invalidate(list, shown)
        /\ timers' \in {timers, timers + 1} /\ message' \in {message, c.kind}
    BY <1>7 DEF Tab!CallOk, Tab!AfterSuccess
  <2>2. IsFiniteSet(calls') /\ Cardinality(calls') = Cardinality(calls) - 1
    BY <2>1, FS_RemoveElement DEF Counted
  <2>3. list' \in Tab!Q!Entries(Tab!Lists)
    BY <1>1, <2>1, EntrySteps, TabQueries DEF Shows, Listed
  <2>4. c.kind \in Tab!Mutations
    BY DEF Tab!Calls, Shows, Listed
  <2>. QED  BY <1>1, <2>1, <2>2, <2>3, <2>4 DEF Counted
<1>8. ASSUME NEW c \in calls, Tab!CallFails(c)
      PROVE  Counted'
  <2>1. IsFiniteSet(calls \ {c}) /\ Cardinality(calls \ {c}) = Cardinality(calls) - 1
    BY FS_RemoveElement DEF Counted
  <2>2. c.kind \in Tab!Mutations
    BY DEF Tab!Calls, Shows, Listed
  <2>3. calls' = calls \ {c} /\ failed' \subseteq failed \cup {c.kind}
        /\ UNCHANGED <<list, sent, message, timers>>
    BY <1>8 DEF Tab!CallFails
  <2>. QED  BY <1>1, <2>1, <2>2, <2>3 DEF Counted
<1>9. CASE Tab!TimerFires \/ Tab!CloseMessage
  <2>1. /\ UNCHANGED <<list, calls, sent>> /\ failed' \subseteq failed
        /\ message' \in {message, None} /\ timers' \in Nat /\ timers' <= timers
    BY <1>9 DEF Tab!TimerFires, Tab!CloseMessage, Counted
  <2>. QED  BY <1>1, <2>1 DEF Counted
<1>10. CASE Tab!Leave
  <2> DEFINE given(c) == [c EXCEPT !.mine = FALSE]
             f == [c \in calls |-> given(c)]
  <2>1. /\ calls' = {given(c) : c \in calls} /\ UNCHANGED <<list, sent>>
        /\ failed' = {} /\ message' = None /\ timers' = 0
    BY <1>10 DEF Tab!Leave
  <2>2. f \in Surjection(calls, calls')
    BY <2>1 DEF Surjection
  <2>3. IsFiniteSet(calls') /\ Cardinality(calls') <= Cardinality(calls)
    BY <2>2, FS_Surjection DEF Counted
  <2>4. Cardinality(calls') \in Nat
    BY <2>3, FS_CardinalityType
  <2>. QED  BY <1>1, <2>1, <2>3, <2>4 DEF Counted
<1>11. CASE UNCHANGED tabVars \/ \E s \in {"failed"} : Tab!Reported(First, s)
  BY <1>11 DEF tabVars, Tab!Reported, Counted
<1>12. CASE OnAgents /\ Tab!Next
  BY <1>12, <1>2, <1>3, <1>5, <1>6, <1>7, <1>8, <1>9, <1>10, <1>11 DEF Tab!Next
<1>13. CASE ~(OnAgents /\ Tab!Next)
  <2>1. UNCHANGED tabVars
    BY <1>13 DEF Next, vars, OnLogs, OnCharts, OnDashboard, OnNodes, OnMetrics, OnNode
  <2>. QED  BY <1>11, <2>1
<1>. QED  BY <1>12, <1>13

LEMMA CountedTypes == Shows /\ Counted => Tab!TypeOK
  <1> SUFFICES ASSUME Shows, Counted PROVE Tab!TypeOK
    OBVIOUS
  <1>1. timers \in 0 .. MaxCalls
    <2>1. Cardinality(calls) \in Nat
      BY FS_CardinalityType DEF Counted
    <2>. QED  BY <2>1 DEF Counted
  <1>2. expected \in 0 .. MaxCalls
    BY DEF Shows, Listed, Tab!Lists
  <1>. QED  BY <1>1, <1>2 DEF Shows, Listed, Counted, Tab!TypeOK

(* The log dialog. *)
LEMMA DialogQueries ==
    /\ \A D : Dialog!Q!Entries(D) = Q!Entries(D)
    /\ Dialog!Q!Empty = Q!Empty
    /\ \A q : /\ Dialog!Q!Fetch(q) = Q!Fetch(q) /\ Dialog!Q!Refetch(q) = Q!Refetch(q)
              /\ Dialog!Q!Succeed(q) = Q!Succeed(q) /\ Dialog!Q!Fail(q) = Q!Fail(q)
    /\ \A q, x : /\ Dialog!Q!Read(q, x) = Q!Read(q, x) /\ Dialog!Q!Mount(q, x) = Q!Mount(q, x)
    /\ \A q : Dialog!Q!Pause(q) = Q!Pause(q)
    /\ \A q, w, b : Dialog!Q!Reconnect(q, w, b) = Q!Reconnect(q, w, b)
  BY DEF Dialog!Q!Entries, Dialog!Q!Phases, Dialog!Q!Empty, Dialog!Q!Idle,
         Dialog!Q!Begin, Dialog!Q!Fetch, Dialog!Q!Refetch, Dialog!Q!Mount,
         Dialog!Q!Read, Dialog!Q!Succeed, Dialog!Q!Fail, Dialog!Q!Pause,
         Dialog!Q!Reconnect, Q!Entries, Q!Phases, Q!Empty, Q!Idle, Q!Begin, Q!Fetch,
         Q!Refetch, Q!Mount, Q!Read, Q!Succeed, Q!Fail, Q!Pause, Q!Reconnect

LEMMA DialogInit == Init => Dialog!TypeOK
  <1>1. Dialog!Q!Empty \in Dialog!Q!Entries(Dialog!Logs)
    BY EntryStarts, DialogQueries
  <1>2. Dialog!Init => /\ logs \in [Agents -> Dialog!Q!Entries(Dialog!Logs)]
                       /\ lines \in [Agents -> 0 .. 1]
    BY <1>1 DEF Dialog!Init
  <1>. QED  BY <1>2 DEF Init, Dialog!Init, Dialog!TypeOK

LEMMA DialogUpdate ==
    ASSUME Dialog!TypeOK, NEW k \in Agents, NEW q \in Dialog!Q!Entries(Dialog!Logs),
           Dialog!Update(k, q), lines' = lines, open' \in BOOLEAN, auto' \in BOOLEAN,
           hidden' \in BOOLEAN, viewing' \in Agents \cup {None}
    PROVE  Dialog!TypeOK'
  BY DEF Dialog!TypeOK, Dialog!Update

LEMMA DialogKept ==
    ASSUME Dialog!TypeOK, [Next]_vars
    PROVE  Dialog!TypeOK'
<1> USE DEF Dialog!Key
<1> DEFINE E == Dialog!Q!Entries(Dialog!Logs)
<1>1. \A k \in Agents :
        /\ logs[k] \in Q!Entries(Dialog!Logs)
        /\ Dialog!Q!Fetch(logs[k]) \in E /\ Dialog!Q!Refetch(logs[k]) \in E
        /\ Dialog!Q!Succeed(logs[k]) \in E /\ Dialog!Q!Fail(logs[k]) \in E
        /\ Dialog!Q!Pause(logs[k]) \in E
        /\ \A b \in BOOLEAN : Dialog!Q!Mount(logs[k], b) \in E
        /\ \A w, b \in BOOLEAN : Dialog!Q!Reconnect(logs[k], w, b) \in E
        /\ \A d \in Dialog!Logs : Dialog!Q!Read(logs[k], d) \in E
  <2>1. \A k \in Agents : logs[k] \in Q!Entries(Dialog!Logs)
    BY DialogQueries DEF Dialog!TypeOK
  <2>. QED  BY <2>1, EntrySteps, DialogQueries
<1> HIDE DEF E
<1>2. ASSUME NEW k \in Agents, NEW q \in E, Dialog!Update(k, q), lines' = lines,
             open' \in BOOLEAN, auto' \in BOOLEAN, hidden' \in BOOLEAN,
             viewing' \in Agents \cup {None}
      PROVE  Dialog!TypeOK'
  BY <1>2, DialogUpdate DEF E
<1>3. ASSUME NEW a \in Agents, Dialog!Log(a)
      PROVE  Dialog!TypeOK'
  <2>1. lines' = [lines EXCEPT ![a] = @ + 1] /\ lines[a] < 1
    BY <1>3 DEF Dialog!Log
  <2>2. lines' \in [Agents -> 0 .. 1]
    BY <2>1 DEF Dialog!TypeOK
  <2>. QED  BY <1>3, <2>2 DEF Dialog!Log, Dialog!TypeOK
<1>4. ASSUME NEW a \in Agents, NEW stale \in BOOLEAN, Dialog!ViewLogs(a, stale)
      PROVE  Dialog!TypeOK'
  BY <1>1, <1>2, <1>4 DEF Dialog!ViewLogs, Dialog!TypeOK
<1>5. ASSUME NEW k \in Agents, Dialog!ReadLogs(k)
      PROVE  Dialog!TypeOK'
  <2> DEFINE d == [agent |-> k, upto |-> lines[k]]
  <2>1. d \in Dialog!Logs
    BY DEF Dialog!Logs, Dialog!TypeOK
  <2>2. /\ Dialog!Update(k, Dialog!Q!Read(logs[k], d))
        /\ UNCHANGED <<lines, open, viewing, auto, hidden>>
    BY <1>5 DEF Dialog!ReadLogs
  <2> HIDE DEF d
  <2>. QED  BY <1>1, <1>2, <2>1, <2>2 DEF Dialog!TypeOK
<1>6. ASSUME NEW k \in Agents, Dialog!LogsOk(k) \/ Dialog!LogsFail(k) \/ Dialog!Pause(k)
      PROVE  Dialog!TypeOK'
  BY <1>1, <1>2, <1>6 DEF Dialog!LogsOk, Dialog!LogsFail, Dialog!Pause, Dialog!TypeOK
<1>7. CASE UNCHANGED dialogVars \/ Dialog!Close \/ Dialog!ToggleAuto \/ Dialog!Hide
  BY <1>7 DEF dialogVars, Dialog!Close, Dialog!ToggleAuto, Dialog!Hide, Dialog!TypeOK
<1>8. Dialog!Enabled => viewing \in Agents /\ Dialog!Entry = logs[viewing]
  BY DEF Dialog!Enabled, Dialog!Entry, Dialog!TypeOK
<1>9. CASE Dialog!Poll \/ Dialog!Refresh
  <2>1. viewing \in Agents /\ Dialog!Entry = logs[viewing]
    BY <1>8, <1>9 DEF Dialog!Poll, Dialog!Refresh
  <2>. QED  BY <1>1, <1>2, <1>9, <2>1 DEF Dialog!Poll, Dialog!Refresh, Dialog!TypeOK
<1>10. ASSUME NEW stale \in BOOLEAN, Dialog!Unhide(stale)
       PROVE  Dialog!TypeOK'
  BY <1>1, <1>2, <1>8, <1>10 DEF Dialog!Unhide, Dialog!TypeOK
<1>11. ASSUME NEW stale \in BOOLEAN, Dialog!Reconnect(stale)
       PROVE  Dialog!TypeOK'
  <2> DEFINE watched(k) == Dialog!Enabled /\ ~hidden /\ k = viewing
             again(k) == Dialog!Q!Reconnect(logs[k], watched(k), stale)
  <2>1. \A k : watched(k) \in BOOLEAN
    OBVIOUS
  <2>2. logs' = [k \in Agents |-> again(k)] /\ UNCHANGED <<lines, open, viewing, auto, hidden>>
    BY <1>11 DEF Dialog!Reconnect
  <2> HIDE DEF watched
  <2>3. \A k \in Agents : again(k) \in E
    BY <1>1, <2>1
  <2> HIDE DEF again
  <2>. QED  BY <2>2, <2>3 DEF E, Dialog!TypeOK
<1>12. CASE OnLogs /\ Dialog!Next
  BY <1>12, <1>3, <1>4, <1>5, <1>6, <1>7, <1>9, <1>10, <1>11 DEF Dialog!Next
<1>13. CASE ~(OnLogs /\ Dialog!Next)
  <2>1. UNCHANGED dialogVars
    BY <1>13 DEF Next, vars, OnAgents, OnCharts, OnDashboard, OnNodes, OnMetrics, OnNode
  <2>. QED  BY <1>7, <2>1
<1>. QED  BY <1>12, <1>13

(* The charts. *)
LEMMA ChartsQueries ==
    /\ \A D : Charts!Q!Entries(D) = Q!Entries(D)
    /\ Charts!Q!Empty = Q!Empty
    /\ \A q : /\ Charts!Q!Refetch(q) = Q!Refetch(q) /\ Charts!Q!Succeed(q) = Q!Succeed(q)
              /\ Charts!Q!Fail(q) = Q!Fail(q)
    /\ \A q, x : /\ Charts!Q!Read(q, x) = Q!Read(q, x) /\ Charts!Q!Mount(q, x) = Q!Mount(q, x)
    /\ \A q : Charts!Q!Pause(q) = Q!Pause(q)
    /\ \A q, w, b : Charts!Q!Reconnect(q, w, b) = Q!Reconnect(q, w, b)
  BY DEF Charts!Q!Entries, Charts!Q!Phases, Charts!Q!Empty, Charts!Q!Idle,
         Charts!Q!Begin, Charts!Q!Fetch, Charts!Q!Refetch, Charts!Q!Mount,
         Charts!Q!Read, Charts!Q!Succeed, Charts!Q!Fail, Charts!Q!Pause,
         Charts!Q!Reconnect, Q!Entries, Q!Phases, Q!Empty, Q!Idle, Q!Begin, Q!Fetch,
         Q!Refetch, Q!Mount, Q!Read, Q!Succeed, Q!Fail, Q!Pause, Q!Reconnect

ChartTypes ==
    /\ listed \in BOOLEAN
    /\ selected \in Agents \cup {None} /\ picked \in Agents \cup {None}
    /\ agentPreset \in {"1h", "6h"} /\ agentRange \in 1 .. 3
    /\ charts \in [ChartKeys -> Charts!Q!Entries(Charts!Points)]

LEMMA NoChartsTyped == Charts!NoCharts \in [ChartKeys -> Charts!Q!Entries(Charts!Points)]
  <1>1. Charts!Q!Empty \in Charts!Q!Entries(Charts!Points)
    BY EntryStarts, ChartsQueries
  <1>. QED  BY <1>1 DEF Charts!NoCharts, ChartKeys

LEMMA ChartsInit == Init => ChartTypes
  <1> SUFFICES ASSUME Charts!Init PROVE ChartTypes
    BY DEF Init
  <1>1. listed \in BOOLEAN /\ charts \in [ChartKeys -> Charts!Q!Entries(Charts!Points)]
    BY NoChartsTyped DEF Charts!Init
  <1>2. selected = None /\ picked = None /\ agentPreset = "1h" /\ agentRange = 1
    BY DEF Charts!Init
  <1>. QED  BY <1>1, <1>2 DEF ChartTypes

LEMMA ChartsKept ==
    ASSUME ChartTypes, [Next]_vars
    PROVE  ChartTypes'
<1> USE DEF Charts!Key
<1> DEFINE E == Charts!Q!Entries(Charts!Points)
           All == [ChartKeys -> E]
<1>1. \A q \in E :
        /\ Charts!Q!Refetch(q) \in E /\ Charts!Q!Succeed(q) \in E /\ Charts!Q!Fail(q) \in E
        /\ Charts!Q!Mount(q, FALSE) \in E /\ Charts!Q!Pause(q) \in E
        /\ \A w, b \in BOOLEAN : Charts!Q!Reconnect(q, w, b) \in E
        /\ \A d \in Charts!Points : Charts!Q!Read(q, d) \in E
  BY EntrySteps, ChartsQueries
<1>2. Charts!NoCharts \in All
  BY NoChartsTyped
<1>3. /\ listed \in BOOLEAN
      /\ selected \in Agents \cup {None} /\ picked \in Agents \cup {None}
      /\ agentPreset \in {"1h", "6h"} /\ agentRange \in 1 .. 3
      /\ charts \in All
  BY DEF ChartTypes
<1>4. ASSUME listed' \in BOOLEAN,
             selected' \in Agents \cup {None}, picked' \in Agents \cup {None},
             agentPreset' \in {"1h", "6h"}, agentRange' \in 1 .. 3,
             charts' \in All
      PROVE  ChartTypes'
  BY <1>4 DEF ChartTypes
<1> HIDE DEF E
<1>5. \A a \in Agents, c \in All : Charts!Mounted(a, c) \in All
  BY <1>1 DEF Charts!Mounted
<1>6. ASSUME NEW m \in {"cpu"}, NEW a \in Agents,
             \/ Charts!ReadPoints(m, a) \/ Charts!PointsOk(m, a)
             \/ Charts!PointsFail(m, a) \/ Charts!Pause(m, a)
      PROVE  ChartTypes'
  <2> DEFINE d == [agent |-> a, metric |-> m, preset |-> agentPreset]
             q == charts[<<m, a>>]
  <2>1. d \in Charts!Points
    BY <1>3 DEF Charts!Points
  <2>2. q \in E /\ <<m, a>> \in ChartKeys
    BY <1>3 DEF ChartKeys
  <2>3. \E r \in {Charts!Q!Read(q, d), Charts!Q!Succeed(q), Charts!Q!Fail(q),
                  Charts!Q!Pause(q)} :
           charts' = [charts EXCEPT ![<<m, a>>] = r]
    BY <1>6 DEF Charts!ReadPoints, Charts!PointsOk, Charts!PointsFail, Charts!Pause
  <2> HIDE DEF d, q
  <2>4. charts' \in All
    <3>1. PICK r \in {Charts!Q!Read(q, d), Charts!Q!Succeed(q), Charts!Q!Fail(q),
                       Charts!Q!Pause(q)} :
             charts' = [charts EXCEPT ![<<m, a>>] = r]
      BY <2>3
    <3>2. r \in E
      BY <1>1, <2>1, <2>2
    <3>. QED  BY <1>3, <3>1, <3>2
  <2>. QED
    BY <1>3, <1>4, <1>6, <2>4 DEF Charts!ReadPoints, Charts!PointsOk, Charts!PointsFail,
       Charts!Pause
<1>7. CASE Charts!Retry
  <2>1. charts' = [k \in ChartKeys |->
                     IF \E m \in {"cpu"} : k = <<m, selected>>
                     THEN Charts!Q!Refetch(charts[k]) ELSE charts[k]]
    BY <1>3, <1>7 DEF Charts!Retry
  <2>2. charts' \in All
    BY <1>1, <1>3, <2>1
  <2>. QED  BY <1>3, <1>4, <1>7, <2>2 DEF Charts!Retry
<1>8. CASE Charts!AutoSelect \/ \E a \in Agents : Charts!Select(a)
  <2>1. charts' \in All
    BY <1>3, <1>5, <1>8 DEF Charts!AutoSelect, Charts!Select
  <2>. QED  BY <1>3, <1>4, <1>8, <2>1 DEF Charts!AutoSelect, Charts!Select
<1>9. ASSUME NEW p \in {"1h", "6h"}, Charts!ChoosePreset(p)
      PROVE  ChartTypes'
  <2>1. selected \in Agents /\ charts' = Charts!Mounted(selected, Charts!NoCharts)
    BY <1>3, <1>9 DEF Charts!ChoosePreset
  <2>2. charts' \in All
    BY <1>2, <1>5, <2>1
  <2>. QED  BY <1>3, <1>4, <1>9, <2>2 DEF Charts!ChoosePreset
<1>10. CASE UNCHANGED chartVars \/ Charts!ListChanges \/ Charts!Remount
  <2>1. listed' \in BOOLEAN /\ charts' \in All
    BY <1>2, <1>3, <1>10 DEF chartVars, Charts!ListChanges, Charts!Remount
  <2>. QED
    BY <1>3, <1>4, <1>10, <2>1 DEF chartVars, Charts!ListChanges, Charts!Remount
<1>11. ASSUME NEW stale \in SUBSET {"cpu"}, Charts!Reconnect(stale)
       PROVE  ChartTypes'
  <2> DEFINE watched(k) == selected # None /\ \E m \in {"cpu"} : k = <<m, selected>>
             old(k) == \E m \in stale : k = <<m, selected>>
  <2>1. \A k : watched(k) \in BOOLEAN /\ old(k) \in BOOLEAN
    OBVIOUS
  <2>2. charts' = [k \in ChartKeys |-> Charts!Q!Reconnect(charts[k], watched(k), old(k))]
    BY <1>3, <1>11 DEF Charts!Reconnect
  <2> HIDE DEF watched, old
  <2>3. charts' \in All
    BY <1>1, <1>3, <2>1, <2>2
  <2>. QED  BY <1>3, <1>4, <1>11, <2>3 DEF Charts!Reconnect
<1>12. CASE OnCharts /\ Charts!Next
  BY <1>12, <1>6, <1>7, <1>8, <1>9, <1>10, <1>11 DEF Charts!Next
<1>13. CASE ~(OnCharts /\ Charts!Next)
  <2>1. UNCHANGED chartVars
    BY <1>13 DEF Next, vars, OnAgents, OnLogs, OnDashboard, OnNodes, OnMetrics, OnNode
  <2>. QED  BY <1>10, <2>1
<1>. QED  BY <1>12, <1>13

LEMMA ChartsTyped == ChartTypes => Charts!TypeOK
  BY DEF ChartTypes, ChartKeys, Charts!Ranges, Charts!TypeOK

(* The dashboard. *)
LEMMA BoardQueries ==
    /\ \A D : Board!Q!Entries(D) = Q!Entries(D)
    /\ Board!Q!Empty = Q!Empty
    /\ \A q : /\ Board!Q!Fetch(q) = Q!Fetch(q) /\ Board!Q!Refetch(q) = Q!Refetch(q)
              /\ Board!Q!Succeed(q) = Q!Succeed(q) /\ Board!Q!Fail(q) = Q!Fail(q)
    /\ \A q, x : /\ Board!Q!Read(q, x) = Q!Read(q, x) /\ Board!Q!Mount(q, x) = Q!Mount(q, x)
    /\ \A q : Board!Q!Pause(q) = Q!Pause(q)
    /\ \A q, w, b : Board!Q!Reconnect(q, w, b) = Q!Reconnect(q, w, b)
  BY DEF Board!Q!Entries, Board!Q!Phases, Board!Q!Empty, Board!Q!Idle, Board!Q!Begin,
         Board!Q!Fetch, Board!Q!Refetch, Board!Q!Mount, Board!Q!Read, Board!Q!Succeed,
         Board!Q!Fail, Board!Q!Pause, Board!Q!Reconnect, Q!Entries, Q!Phases, Q!Empty,
         Q!Idle, Q!Begin, Q!Fetch, Q!Refetch, Q!Mount, Q!Read, Q!Succeed, Q!Fail,
         Q!Pause, Q!Reconnect

LEMMA BoardInit == Init => Board!TypeOK
  <1> SUFFICES ASSUME Board!Init PROVE Board!TypeOK
    BY DEF Init
  <1>1. overview = Q!Fetch(Q!Empty)
    BY BoardQueries DEF Board!Init
  <1>2. pace = 1 /\ countdown = 1 /\ sortBy = "cpu" /\ visible = TRUE
    BY DEF Board!Init, Board!R!Started
  <1>. QED  BY <1>1, <1>2, EntryStarts, BoardQueries DEF Board!TypeOK, Board!R!Settings

LEMMA BoardKept ==
    ASSUME Board!TypeOK, [Next]_vars
    PROVE  Board!TypeOK'
<1> DEFINE D == Overviews
<1>0. /\ overview \in Q!Entries(D) /\ pace \in {1, 2, None} /\ countdown \in Nat \cup {None}
      /\ (countdown = None) <=> (pace = None)
      /\ sortBy \in {"cpu", "memory"} /\ visible \in BOOLEAN
  BY BoardQueries DEF Board!TypeOK, Board!R!Settings
<1>1. ASSUME overview' \in Q!Entries(D), pace' \in {1, 2, None}, countdown' \in Nat \cup {None},
             (countdown' = None) <=> (pace' = None),
             sortBy' \in {"cpu", "memory"}, visible' \in BOOLEAN
      PROVE  Board!TypeOK'
  BY <1>1, BoardQueries DEF Board!TypeOK, Board!R!Settings
<1>2. /\ Board!Q!Fetch(overview) \in Q!Entries(D) /\ Board!Q!Refetch(overview) \in Q!Entries(D)
      /\ Board!Q!Fail(overview) \in Q!Entries(D) /\ Board!Q!Pause(overview) \in Q!Entries(D)
      /\ \A b \in BOOLEAN : Board!Q!Reconnect(overview, visible, b) \in Q!Entries(D)
      /\ \A b \in BOOLEAN : Board!Q!Mount(overview, b) \in Q!Entries(D)
  BY <1>0, EntrySteps, BoardQueries
<1>3. \A o \in D : Board!Q!Succeed(Board!Q!Read(overview, o)) \in Q!Entries(D)
  <2>1. \A o \in D : Q!Read(overview, o) \in Q!Entries(D)
    BY <1>0, EntrySteps
  <2>. QED  BY <2>1, EntrySteps, BoardQueries
<1> HIDE DEF D
<1>4. CASE \/ Board!Poll \/ Board!Retry \/ Board!OverviewFails \/ Board!Pause
           \/ \E stale \in BOOLEAN : Board!Reconnect(stale)
           \/ Board!Sort \/ Board!Leave \/ UNCHANGED boardVars
  BY <1>0, <1>1, <1>2, <1>4 DEF Board!Poll, Board!Retry, Board!OverviewFails, Board!Pause,
     Board!Reconnect, Board!Sort, Board!Leave, boardVars
<1>5. CASE Board!Second
  <2>1. pace \in {1, 2} /\ countdown \in Nat
    BY <1>0, <1>5 DEF Board!Second
  <2>2. countdown' \in Nat
    BY <2>1, <1>5 DEF Board!Second, Board!R!Left, Board!R!RunsOut
  <2>3. overview' \in {overview, Board!Q!Refetch(overview)}
    BY <1>5 DEF Board!Second
  <2>. QED  BY <1>0, <1>1, <1>2, <1>5, <2>1, <2>2, <2>3 DEF Board!Second
<1>6. ASSUME NEW press \in {1, 2, None}, Board!Choose(press)
      PROVE  Board!TypeOK'
  BY <1>0, <1>1, <1>6 DEF Board!Choose, Board!R!Chosen, Board!R!Started
<1>7. ASSUME NEW o \in D, Board!OverviewOk(o)
      PROVE  Board!TypeOK'
  BY <1>0, <1>1, <1>3, <1>7 DEF Board!OverviewOk
<1>8. ASSUME NEW stale \in BOOLEAN, NEW set \in {1, 2, None}, Board!Return(stale, set)
      PROVE  Board!TypeOK'
  BY <1>0, <1>1, <1>2, <1>8 DEF Board!Return, Board!R!Started
<1>9. CASE OnDashboard /\ Board!Next
  <2>1. Board!R!Settings = {1, 2, None}
    BY DEF Board!R!Settings
  <2>. QED  BY <1>9, <1>4, <1>5, <1>6, <1>7, <1>8, <2>1 DEF Board!Next, D
<1>10. CASE ~(OnDashboard /\ Board!Next)
  <2>1. UNCHANGED boardVars
    BY <1>10 DEF Next, vars, OnAgents, OnLogs, OnCharts, OnNodes, OnMetrics, OnNode
  <2>. QED  BY <1>4, <2>1
<1>. QED  BY <1>9, <1>10

(* The metrics tab. *)
LEMMA MetricsQueries ==
    /\ \A D : Metrics!Q!Entries(D) = Q!Entries(D)
    /\ Metrics!Q!Empty = Q!Empty
    /\ \A q : /\ Metrics!Q!Fetch(q) = Q!Fetch(q) /\ Metrics!Q!Refetch(q) = Q!Refetch(q)
              /\ Metrics!Q!Succeed(q) = Q!Succeed(q) /\ Metrics!Q!Fail(q) = Q!Fail(q)
    /\ \A q, x : /\ Metrics!Q!Read(q, x) = Q!Read(q, x) /\ Metrics!Q!Mount(q, x) = Q!Mount(q, x)
    /\ \A q : Metrics!Q!Pause(q) = Q!Pause(q)
    /\ \A q, w, b : Metrics!Q!Reconnect(q, w, b) = Q!Reconnect(q, w, b)
  BY DEF Metrics!Q!Entries, Metrics!Q!Phases, Metrics!Q!Empty, Metrics!Q!Idle,
         Metrics!Q!Begin, Metrics!Q!Fetch, Metrics!Q!Refetch, Metrics!Q!Mount,
         Metrics!Q!Read, Metrics!Q!Succeed, Metrics!Q!Fail, Metrics!Q!Pause,
         Metrics!Q!Reconnect, Q!Entries, Q!Phases, Q!Empty, Q!Idle, Q!Begin, Q!Fetch,
         Q!Refetch, Q!Mount, Q!Read, Q!Succeed, Q!Fail, Q!Pause, Q!Reconnect

MetricsTypes ==
    /\ samples \in 0 .. 1
    /\ latest \in Q!Entries(0 .. 1) /\ history \in Q!Entries(Metrics!Ranges)
    /\ timeRange \in Metrics!Ranges
    /\ interval \in {2, None} /\ left \in Nat \cup {None}
    /\ (left = None) <=> (interval = None)
    /\ preset \in {1, None} /\ choosing \in BOOLEAN /\ onMetrics \in BOOLEAN

LEMMA MetricsInit == Init => MetricsTypes
  <1> SUFFICES ASSUME Metrics!Init PROVE MetricsTypes
    BY DEF Init
  <1>1. latest = Q!Fetch(Q!Empty) /\ history = Q!Fetch(Q!Empty)
    BY MetricsQueries DEF Metrics!Init
  <1>2. timeRange = [start |-> 0, end |-> 1] /\ interval = 2 /\ left = 2
    BY DEF Metrics!Init, Metrics!Last, Metrics!R!Started
  <1>3. samples = 0 /\ preset = 1 /\ choosing \in BOOLEAN /\ onMetrics \in BOOLEAN
    BY DEF Metrics!Init
  <1>4. timeRange \in Metrics!Ranges
    BY <1>2 DEF Metrics!Ranges, Metrics!Moments
  <1>. QED  BY <1>1, <1>2, <1>3, <1>4, EntryStarts DEF MetricsTypes

LEMMA Presets ==
    \A r : Metrics!Calculated(r) \in {1, None}
  BY DEF Metrics!Calculated

(* Whatever becomes of the latest metrics, the controls keep their types. *)
LEMMA LatestChanges ==
    ASSUME MetricsTypes, NEW q \in Q!Entries(0 .. 1), Metrics!LatestTo(q),
           samples' \in 0 .. 1, history' \in Q!Entries(Metrics!Ranges),
           UNCHANGED <<timeRange, interval>>, onMetrics' = onMetrics
    PROVE  MetricsTypes'
  <1>1. latest' \in Q!Entries(0 .. 1)
    BY DEF Metrics!LatestTo
  <1>2. choosing' \in BOOLEAN /\ onMetrics' \in BOOLEAN
    BY DEF Metrics!LatestTo, Metrics!control, MetricsTypes
  <1>3. \/ UNCHANGED <<left, preset>>
        \/ left' = interval /\ preset' \in {1, None}
    BY Presets DEF Metrics!LatestTo, Metrics!control, Metrics!R!Started
  <1>. QED  BY <1>1, <1>2, <1>3 DEF MetricsTypes

LEMMA RangeTyped ==
    ASSUME MetricsTypes, NEW r \in Metrics!Ranges, Metrics!RangeTo(r),
           preset' \in {1, None}, choosing' \in BOOLEAN
    PROVE  MetricsTypes'
  <1>1. \A q \in Metrics!Cached(r) : q \in Q!Entries(Metrics!Ranges)
    <2>1. Metrics!Q!Empty \in Q!Entries(Metrics!Ranges)
      BY EntryStarts, MetricsQueries
    <2>2. [Metrics!Q!Empty EXCEPT !.data = r] \in Q!Entries(Metrics!Ranges)
      BY <2>1 DEF Q!Entries
    <2>. QED  BY <2>1, <2>2 DEF Metrics!Cached
  <1>2. \A q \in Metrics!Cached(r) :
          Metrics!Q!Refetch(Metrics!Q!Mount(q, FALSE)) \in Q!Entries(Metrics!Ranges)
    <2>1. \A q \in Metrics!Cached(r) : Q!Mount(q, FALSE) \in Q!Entries(Metrics!Ranges)
      BY <1>1, EntrySteps
    <2>. QED  BY <2>1, EntrySteps, MetricsQueries
  <1>3. history' \in Q!Entries(Metrics!Ranges)
    BY <1>2 DEF Metrics!RangeTo, MetricsTypes
  <1>. QED  BY <1>3 DEF Metrics!RangeTo, MetricsTypes

LEMMA MetricsKept ==
    ASSUME MetricsTypes, [Next]_vars
    PROVE  MetricsTypes'
<1> USE DEF Metrics!store
<1> DEFINE L == Q!Entries(0 .. 1)
           H == Q!Entries(Metrics!Ranges)
<1>1. latest \in L /\ history \in H /\ samples \in 0 .. 1 /\ timeRange \in Metrics!Ranges
  BY DEF MetricsTypes
<1>2. /\ Metrics!Q!Fetch(latest) \in L /\ Metrics!Q!Refetch(latest) \in L
      /\ Metrics!Q!Succeed(latest) \in L /\ Metrics!Q!Fail(latest) \in L
      /\ Metrics!Q!Read(latest, samples) \in L /\ Metrics!Q!Pause(latest) \in L
      /\ \A b \in BOOLEAN : Metrics!Q!Mount(latest, b) \in L
      /\ \A b \in BOOLEAN : Metrics!Q!Reconnect(latest, onMetrics, b) \in L
  BY <1>1, EntrySteps, MetricsQueries DEF MetricsTypes
<1>3. /\ Metrics!Q!Refetch(history) \in H /\ Metrics!Q!Fail(history) \in H
      /\ Metrics!Q!Succeed(Metrics!Q!Read(history, timeRange)) \in H
      /\ Metrics!Q!Refetch(Metrics!Q!Mount(history, FALSE)) \in H
      /\ Metrics!Q!Pause(history) \in H
      /\ \A b \in BOOLEAN : Metrics!Q!Reconnect(history, onMetrics, b) \in H
  <2>1. Q!Read(history, timeRange) \in H /\ Q!Mount(history, FALSE) \in H
    BY <1>1, EntrySteps
  <2>. QED  BY <1>1, <2>1, EntrySteps, MetricsQueries DEF MetricsTypes
<1>4. CASE \/ Metrics!PollLatest \/ Metrics!Timer \/ Metrics!Retry
           \/ Metrics!ReadLatest \/ Metrics!LatestOk \/ Metrics!LatestFails
           \/ Metrics!PauseLatest
           \/ \E old, oldHistory \in BOOLEAN : Metrics!Reconnect(old, oldHistory)
  <2>1. /\ \E q \in L : Metrics!LatestTo(q)
        /\ history' \in H /\ UNCHANGED <<samples, timeRange, interval, onMetrics>>
    BY <1>1, <1>2, <1>3, <1>4 DEF Metrics!PollLatest, Metrics!Timer, Metrics!Retry,
       Metrics!ReadLatest, Metrics!LatestOk, Metrics!LatestFails, Metrics!PauseLatest,
       Metrics!Reconnect
  <2>. QED  BY <1>1, <2>1, LatestChanges
<1>5. CASE Metrics!Second
  <2>1. interval = 2 /\ left \in Nat
    BY <1>5 DEF Metrics!Second, MetricsTypes
  <2>2. left' \in Nat
    BY <1>5, <2>1 DEF Metrics!Second, Metrics!R!Left, Metrics!R!RunsOut
  <2>3. latest' \in L /\ history' \in H
    BY <1>1, <1>2, <1>3, <1>5 DEF Metrics!Second
  <2>. QED  BY <1>5, <2>1, <2>2, <2>3 DEF Metrics!Second, MetricsTypes
<1>6. CASE \/ Metrics!OpenDialog \/ Metrics!CloseDialog \/ Metrics!Leave \/ Metrics!Report
           \/ UNCHANGED metricsVars
  <2>1. choosing' \in BOOLEAN /\ onMetrics' \in BOOLEAN
    BY <1>6 DEF Metrics!OpenDialog, Metrics!CloseDialog, Metrics!Leave, Metrics!Report,
       Metrics!control, metricsVars, MetricsTypes
  <2>2. samples' \in 0 .. 1 /\ UNCHANGED <<latest, history, timeRange, interval, left, preset>>
    BY <1>6 DEF Metrics!OpenDialog, Metrics!CloseDialog, Metrics!Leave, Metrics!Report,
       Metrics!control, metricsVars, MetricsTypes
  <2>. QED  BY <2>1, <2>2 DEF MetricsTypes
<1>7. CASE Metrics!HistoryOk \/ Metrics!HistoryFails \/ Metrics!PauseHistory
  BY <1>3, <1>7 DEF Metrics!HistoryOk, Metrics!HistoryFails, Metrics!PauseHistory,
     Metrics!control, MetricsTypes
<1>8. ASSUME NEW press \in {2, None}, Metrics!ChooseInterval(press)
      PROVE  MetricsTypes'
  <2>1. interval' \in {2, None} /\ left' = interval'
    BY <1>8 DEF Metrics!ChooseInterval, Metrics!R!Chosen, Metrics!R!Started
  <2>. QED  BY <1>8, <2>1 DEF Metrics!ChooseInterval, MetricsTypes
<1>9. ASSUME NEW length \in {1}, NEW now \in 0 .. 2, Metrics!ChoosePreset(length, now)
      PROVE  MetricsTypes'
  <2>1. [start |-> now - length, end |-> now] \in Metrics!Ranges
    BY <1>9 DEF Metrics!ChoosePreset, Metrics!Ranges, Metrics!Moments
  <2>2. preset' = length /\ choosing' = choosing
    BY <1>9 DEF Metrics!ChoosePreset
  <2>. QED
    BY <1>9, <2>1, <2>2, RangeTyped DEF Metrics!ChoosePreset, Metrics!Last, MetricsTypes
<1>10. ASSUME NEW start \in Metrics!Moments \cup {None}, NEW end \in Metrics!Moments \cup {None},
              Metrics!Confirm(start, end)
       PROVE  MetricsTypes'
  <2>1. [start |-> start, end |-> end] \in Metrics!Ranges
    BY <1>10 DEF Metrics!Confirm, Metrics!Accepted, Metrics!Ranges
  <2>2. preset' \in {1, None} /\ choosing' = FALSE
    BY <1>10, Presets DEF Metrics!Confirm
  <2>. QED  BY <1>10, <2>1, <2>2, RangeTyped DEF Metrics!Confirm
<1>11. ASSUME NEW stale \in BOOLEAN, NEW set \in {2, None}, Metrics!Return(stale, set)
       PROVE  MetricsTypes'
  <2>1. /\ latest' \in L /\ history' \in H /\ preset' \in {1, None}
        /\ interval' = set /\ left' = set
    BY <1>2, <1>3, <1>11, Presets DEF Metrics!Return, Metrics!R!Started
  <2>2. choosing' \in BOOLEAN /\ onMetrics' \in BOOLEAN /\ UNCHANGED <<samples, timeRange>>
    BY <1>11 DEF Metrics!Return, MetricsTypes
  <2>. QED  BY <2>1, <2>2 DEF MetricsTypes
<1>12. CASE OnMetrics /\ Metrics!Next
  <2>1. Metrics!R!Settings = {2, None}
    BY DEF Metrics!R!Settings
  <2>. QED
    BY <1>12, <1>4, <1>5, <1>6, <1>7, <1>8, <1>9, <1>10, <1>11, <2>1 DEF Metrics!Next
<1>13. CASE ~(OnMetrics /\ Metrics!Next)
  <2>1. UNCHANGED metricsVars
    BY <1>13 DEF Next, vars, OnAgents, OnLogs, OnCharts, OnDashboard, OnNodes, OnNode
  <2>. QED  BY <1>6, <2>1
<1>. QED  BY <1>12, <1>13

LEMMA MetricsTyped == MetricsTypes => Metrics!TypeOK
  BY MetricsQueries DEF MetricsTypes, Metrics!TypeOK, Metrics!R!Settings

(***************************************************************************)
(* Every page keeps its types, with any number of agents, nodes and calls: *)
(* no timer of the agents tab outlives the calls that set it, and no step  *)
(* of a page disturbs another (WebConsole).                                *)
(***************************************************************************)
Types ==
    /\ Shows /\ Counted /\ Dialog!TypeOK /\ ChartTypes /\ Board!TypeOK
    /\ Paged /\ MetricsTypes /\ Routed

THEOREM TypeCorrect == Spec => []TypeOK
<1>1. Init => Types
  BY ShowsInit, CountedInit, DialogInit, ChartsInit, BoardInit, PagedInit, MetricsInit,
     RoutedInit DEF Types
<1>2. Types /\ [Next]_vars => Types'
  BY ShowsKept, CountedKept, DialogKept, ChartsKept, BoardKept, PagedKept, MetricsKept,
     RoutedKept DEF Types
<1>3. Types => TypeOK
  BY CountedTypes, ChartsTyped, PagedTypes, MetricsTyped DEF Types, TypeOK, Routed
<1>. QED  BY <1>1, <1>2, <1>3, PTL DEF Spec
=============================================================================
