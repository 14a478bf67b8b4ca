-------------------------- MODULE WebDashboardProofs --------------------------
(***************************************************************************)
(* Proofs about the dashboard of WebConsole: its alerts and its ranking,   *)
(* for overviews of any number of nodes with any usage, and whatever room  *)
(* the two panels have.                                                    *)
(***************************************************************************)
EXTENDS WebPagesProofs

LEMMA Rooms ==
    /\ Usages \subseteq [cpu : Nat, memory : Nat, disk : Nat] /\ None \notin Overviews
    /\ ShownAlerts \in Nat \ {0} /\ TopNodes \in Nat \ {0}
  BY WebConsoleAssumption

LEMMA BoardCardinality == \A S : Board!Cardinality(S) = Cardinality(S)
  BY Zenon DEF Board!Cardinality, Cardinality

(* The strict linear orders of S, as Sorted takes them. *)
Orders(S, before) ==
    /\ before \in [S -> SUBSET S]
    /\ \A x \in S : x \notin before[x]
    /\ \A x, y \in S : x # y => x \in before[y] \/ y \in before[x]
    /\ \A x, y \in S : x \in before[y] => before[x] \subseteq before[y]

(* No two elements have equally many before them, and none has them all. *)
LEMMA RankInOrder ==
    ASSUME NEW S, IsFiniteSet(S), NEW before, Orders(S, before)
    PROVE  /\ \A x \in S : Cardinality(before[x]) \in 0 .. Cardinality(S) - 1
           /\ \A x, y \in S :
                x \in before[y] => Cardinality(before[x]) < Cardinality(before[y])
  <1>1. Cardinality(S) \in Nat
    BY FS_CardinalityType
  <1>2. \A x \in S : before[x] \in SUBSET S /\ x \notin before[x]
    BY DEF Orders
  <1>3. \A x, y \in S : x \in before[y] => before[x] \in SUBSET before[y] /\ x \notin before[x]
    BY DEF Orders
  <1>4. \A x \in S : IsFiniteSet(before[x]) /\ Cardinality(before[x]) \in Nat
    BY <1>2, FS_Subset, FS_CardinalityType
  <1>5. \A x \in S : Cardinality(before[x]) \in 0 .. Cardinality(S) - 1
    <2>1. \A x \in S :
            Cardinality(before[x]) <= Cardinality(S) /\ Cardinality(before[x]) # Cardinality(S)
      BY <1>2, FS_Subset
    <2>. QED  BY <1>1, <1>4, <2>1
  <1>6. \A x, y \in S : x \in before[y] => Cardinality(before[x]) < Cardinality(before[y])
    <2>1. \A x, y \in S : x \in before[y] =>
            /\ Cardinality(before[x]) <= Cardinality(before[y])
            /\ Cardinality(before[x]) # Cardinality(before[y])
      BY <1>3, <1>4, FS_Subset
    <2>. QED  BY <1>4, <2>1
  <1>. QED  BY <1>5, <1>6

(* Sorted lists a finite set once through, in its order. *)
LEMMA SortedInOrder ==
    ASSUME NEW S, IsFiniteSet(S), NEW before, Orders(S, before)
    PROVE  LET s == Board!Sorted(S, before)
           IN  /\ Cardinality(S) \in Nat
               /\ s \in [1 .. Cardinality(S) -> S]
               /\ \A x \in S : \E k \in 1 .. Cardinality(S) : s[k] = x
               /\ \A j, k \in 1 .. Cardinality(S) : s[j] \in before[s[k]] => j < k
  <1> DEFINE s == Board!Sorted(S, before)
             n == Cardinality(S)
             rank == [x \in S |-> Cardinality(before[x])]
  <1>1. n \in Nat
    BY FS_CardinalityType
  <1>2. /\ \A x \in S : rank[x] \in 0 .. n - 1
        /\ \A x, y \in S : x \in before[y] => rank[x] < rank[y]
    BY RankInOrder
  <1>3. s = [k \in 1 .. n |-> s[k]]
    BY BoardCardinality DEF Board!Sorted
  <1>4. \A k \in 1 .. n : (\E x \in S : rank[x] = k - 1) => s[k] \in S /\ rank[s[k]] = k - 1
    BY BoardCardinality DEF Board!Sorted
  <1> HIDE DEF s, rank, n
  <1>5. \A x, y \in S : rank[x] = rank[y] => x = y
    <2>1. \A x, y \in S : x # y => rank[x] < rank[y] \/ rank[y] < rank[x]
      BY <1>2 DEF Orders
    <2>. QED  BY <1>1, <1>2, <2>1
  <1>6. \A k \in 1 .. n : \E x \in S : rank[x] = k - 1
    <2> DEFINE place == [x \in S |-> rank[x] + 1]
    <2>1. place \in [S -> 1 .. n]
      BY <1>1, <1>2
    <2>2. \A x, y \in S : place[x] = place[y] => x = y
      BY <1>1, <1>2, <1>5
    <2>3. place \in Injection(S, 1 .. n)
      BY <2>1, <2>2 DEF Injection, IsInjective
    <2>4. IsFiniteSet(1 .. n) /\ Cardinality(1 .. n) = n
      BY <1>1, FS_Interval
    <2>5. place \in Surjection(S, 1 .. n)
      BY <2>3, <2>4, FS_Injection DEF n
    <2>6. \A k \in 1 .. n : \E x \in S : place[x] = k
      BY <2>5 DEF Surjection
    <2>7. \A x \in S : place[x] = rank[x] + 1 /\ rank[x] \in Int
      BY <1>1, <1>2
    <2> HIDE DEF place
    <2>. QED  BY <2>6, <2>7
  <1>7. \A k \in 1 .. n : s[k] \in S /\ rank[s[k]] = k - 1
    BY <1>4, <1>6
  <1>8. s \in [1 .. n -> S]
    BY <1>3, <1>7
  <1>9. \A x \in S : \E k \in 1 .. n : s[k] = x
    <2>1. \A x \in S : rank[x] + 1 \in 1 .. n /\ (rank[x] + 1) - 1 = rank[x]
      BY <1>1, <1>2
    <2>. QED  BY <1>5, <1>7, <2>1
  <1>10. \A j, k \in 1 .. n : s[j] \in before[s[k]] => j < k
    BY <1>2, <1>7
  <1>. QED  BY <1>1, <1>8, <1>9, <1>10 DEF s, n
-----------------------------------------------------------------------------
(* What the Manager answers, and that it may not have answered yet. *)
LEMMA UsageTyped ==
    ASSUME Board!TypeOK
    PROVE  \E n \in Nat : /\ Board!NodeUsage \in [1 .. n -> Usages]
                         /\ Len(Board!NodeUsage) = n
  <1>1. overview.data \in Overviews \cup {None}
    BY BoardQueries DEF Board!TypeOK, Q!Entries
  <1>2. CASE overview.data = None
    <2>1. Board!NodeUsage = <<>>
      BY <1>2 DEF Board!NodeUsage
    <2>. QED  BY <2>1
  <1>3. CASE overview.data # None
    <2>1. PICK n \in 0 .. MaxReported : overview.data \in [1 .. n -> Usages]
      BY <1>1, <1>3 DEF Overviews
    <2>2. Board!NodeUsage = overview.data /\ n \in Nat
      BY <1>3 DEF Board!NodeUsage
    <2>. QED  BY <2>1, <2>2
  <1>. QED  BY <1>2, <1>3

(* The alerts are one for each node and metric that is not normal. *)
LEMMA AlertsOfUsage ==
    ASSUME NEW n \in Nat, Board!NodeUsage \in [1 .. n -> Usages]
    PROVE  /\ IsFiniteSet(Board!AllAlerts)
           /\ \A a \in Board!AllAlerts :
                /\ a.node \in 1 .. n /\ a.metric \in Board!Metrics
                /\ a.level \in {"critical", "warning"}
                /\ a = Board!Alert(a.node, a.metric)
                /\ a.level = Board!Level(a.metric, Board!NodeUsage[a.node][a.metric])
           /\ \A i \in 1 .. n, m \in Board!Metrics :
                Board!Level(m, Board!NodeUsage[i][m]) # "normal"
                    => Board!Alert(i, m) \in Board!AllAlerts
  <1> DEFINE places == (1 .. n) \X Board!Metrics
             alert == [p \in places |-> Board!Alert(p[1], p[2])]
             all == {alert[p] : p \in places}
  <1>1. /\ \A i, m : Board!Alert(i, m).level = Board!Level(m, Board!NodeUsage[i][m])
        /\ \A i, m : Board!Alert(i, m).node = i /\ Board!Alert(i, m).metric = m
    BY DEF Board!Alert
  <1>2. \A m, u : Board!Level(m, u) \in {"critical", "warning", "normal"}
    BY DEF Board!Level
  <1>3. \A a : a \in Board!AllAlerts <=>
          \E i \in 1 .. n, m \in Board!Metrics :
              a = Board!Alert(i, m) /\ a.level # "normal"
    BY DEF Board!AllAlerts, Board!NodeAlerts
  <1>4. IsFiniteSet(Board!AllAlerts)
    <2>1. IsFiniteSet(Board!Metrics) /\ IsFiniteSet(1 .. n)
      <3>1. IsFiniteSet(({"cpu"} \cup {"memory"}) \cup {"disk"})
        BY FS_Singleton, FS_AddElement
      <3>2. Board!Metrics = ({"cpu"} \cup {"memory"}) \cup {"disk"}
        BY DEF Board!Metrics
      <3>. QED  BY <3>1, <3>2, FS_Interval
    <2>2. IsFiniteSet(places)
      BY <2>1, FS_Product
    <2>3. alert \in Surjection(places, all)
      BY DEF Surjection
    <2>4. IsFiniteSet(all)
      BY <2>2, <2>3, FS_Surjection
    <2>5. \A i \in 1 .. n, m \in Board!Metrics : Board!Alert(i, m) \in all
      <3>1. \A i \in 1 .. n, m \in Board!Metrics :
              <<i, m>> \in places /\ alert[<<i, m>>] = Board!Alert(i, m)
        OBVIOUS
      <3> HIDE DEF places, alert
      <3>. QED  BY <3>1
    <2> HIDE DEF all
    <2>6. Board!AllAlerts \in SUBSET all
      BY <1>3, <2>5
    <2>. QED  BY <2>4, <2>6, FS_Subset
  <1> HIDE DEF places, alert, all
  <1>. QED  BY <1>1, <1>2, <1>3, <1>4

(* The order in which the code finds the alerts is one. *)
LEMMA FoundInOrder ==
    ASSUME NEW n \in Nat, Board!NodeUsage \in [1 .. n -> Usages]
    PROVE  /\ \A a \in Board!AllAlerts : ~Board!FoundBefore(a, a)
           /\ \A a, b \in Board!AllAlerts :
                a # b => Board!FoundBefore(a, b) \/ Board!FoundBefore(b, a)
           /\ \A a, b, c \in Board!AllAlerts :
                Board!FoundBefore(a, b) /\ Board!FoundBefore(b, c) => Board!FoundBefore(a, c)
  <1>1. \A a \in Board!AllAlerts :
          /\ a.node \in Nat /\ a.metric \in Board!Metrics
          /\ a = Board!Alert(a.node, a.metric)
    BY AlertsOfUsage
  <1>2. /\ \A m \in Board!Metrics : Board!Turn(m) \in Nat
        /\ \A m, k \in Board!Metrics : Board!Turn(m) = Board!Turn(k) => m = k
    <2>1. Board!Turn("cpu") = 1 /\ Board!Turn("memory") = 2 /\ Board!Turn("disk") = 3
      BY DEF Board!Turn
    <2>. QED  BY <2>1 DEF Board!Metrics
  <1>3. \A a, b \in Board!AllAlerts :
          a # b => a.node # b.node \/ Board!Turn(a.metric) # Board!Turn(b.metric)
    BY <1>1, <1>2
  <1>. QED  BY <1>1, <1>2, <1>3 DEF Board!FoundBefore

(* The panel lists every alert, and no critical one after a warning. *)
LEMMA AlertsInOrder ==
    ASSUME NEW n \in Nat, Board!NodeUsage \in [1 .. n -> Usages]
    PROVE  \E k \in Nat :
             /\ Board!Alerts \in [1 .. k -> Board!AllAlerts]
             /\ \A a \in Board!AllAlerts : \E i \in 1 .. k : Board!Alerts[i] = a
             /\ \A i, j \in 1 .. k :
                  Board!Alerts[i].level = "critical" /\ Board!Alerts[j].level = "warning"
                      => i < j
  <1> DEFINE all == Board!AllAlerts
             before == [a \in all |-> {b \in all :
                 IF a.level = b.level THEN Board!FoundBefore(b, a) ELSE b.level = "critical"}]
  <1>1. /\ IsFiniteSet(all)
        /\ \A a \in all : a.level \in {"critical", "warning"}
    BY AlertsOfUsage
  <1>2. \A a, b \in all : b \in before[a] <=>
          IF a.level = b.level THEN Board!FoundBefore(b, a) ELSE b.level = "critical"
    OBVIOUS
  <1>3. before \in [all -> SUBSET all]
    OBVIOUS
  <1>4. Board!Alerts = Board!Sorted(all, before)
    BY Zenon DEF Board!Alerts
  <1> HIDE DEF all, before
  <1>5. Orders(all, before)
    <2>1. /\ \A a \in all : ~Board!FoundBefore(a, a)
          /\ \A a, b \in all : a # b => Board!FoundBefore(a, b) \/ Board!FoundBefore(b, a)
          /\ \A a, b, c \in all :
               Board!FoundBefore(a, b) /\ Board!FoundBefore(b, c) => Board!FoundBefore(a, c)
      BY FoundInOrder DEF all
    <2>2. \A a \in all : a \notin before[a]
      BY <1>2, <2>1
    <2>3. \A a, b \in all : a # b => a \in before[b] \/ b \in before[a]
      BY <1>1, <1>2, <2>1
    <2>4. \A a, b \in all : a \in before[b] => before[a] \subseteq before[b]
      <3>1. \A a, b, c \in all : a \in before[b] /\ c \in before[a] => c \in before[b]
        BY <1>1, <1>2, <2>1
      <3>. QED  BY <1>3, <3>1
    <2>. QED  BY <1>3, <2>2, <2>3, <2>4 DEF Orders
  <1> DEFINE k == Cardinality(all)
  <1>6. /\ k \in Nat /\ Board!Alerts \in [1 .. k -> all]
        /\ \A a \in all : \E i \in 1 .. k : Board!Alerts[i] = a
        /\ \A i, j \in 1 .. k : Board!Alerts[i] \in before[Board!Alerts[j]] => i < j
    BY <1>1, <1>4, <1>5, SortedInOrder
  <1> HIDE DEF k
  <1>7. \A i, j \in 1 .. k :
          Board!Alerts[i].level = "critical" /\ Board!Alerts[j].level = "warning" => i < j
    BY <1>2, <1>6
  <1>. QED  BY <1>6, <1>7 DEF all

(* The ranking lists every node, the most used ones first. *)
LEMMA RankedInOrder ==
    ASSUME NEW n \in Nat, Board!NodeUsage \in [1 .. n -> Usages],
           \A i \in 1 .. n : Board!NodeUsage[i][sortBy] \in Nat
    PROVE  /\ Board!Ranked \in [1 .. n -> 1 .. n]
           /\ \A i \in 1 .. n :
                Board!NodeUsage[Board!Ranked[1]][sortBy] >= Board!NodeUsage[i][sortBy]
  <1> DEFINE usage == [i \in 1 .. n |-> Board!NodeUsage[i][sortBy]]
             before == [i \in 1 .. n |-> {j \in 1 .. n :
                 usage[j] > usage[i] \/ (usage[j] = usage[i] /\ j < i)}]
  <1>1. usage \in [1 .. n -> Nat]
    OBVIOUS
  <1>2. \A i, j \in 1 .. n :
          j \in before[i] <=> usage[j] > usage[i] \/ (usage[j] = usage[i] /\ j < i)
    OBVIOUS
  <1>3. before \in [1 .. n -> SUBSET (1 .. n)]
    OBVIOUS
  <1>4. Board!Ranked = Board!Sorted(1 .. n, before)
    <2>1. DOMAIN Board!NodeUsage = 1 .. n
      OBVIOUS
    <2>2. before = [i \in 1 .. n |-> {j \in 1 .. n :
              \/ Board!NodeUsage[j][sortBy] > Board!NodeUsage[i][sortBy]
              \/ Board!NodeUsage[j][sortBy] = Board!NodeUsage[i][sortBy] /\ j < i}]
      OBVIOUS
    <2> HIDE DEF before
    <2>. QED  BY <2>1, <2>2 DEF Board!Ranked
  <1> HIDE DEF usage, before
  <1>5. Orders(1 .. n, before)
    <2>1. \A i \in 1 .. n : usage[i] \in Nat /\ i \in Nat
      BY <1>1
    <2>2. \A i, j, h \in 1 .. n : i \in before[j] /\ h \in before[i] => h \in before[j]
      BY <1>2, <2>1
    <2>. QED  BY <1>2, <1>3, <2>1, <2>2 DEF Orders
  <1>6. IsFiniteSet(1 .. n) /\ Cardinality(1 .. n) = n
    BY FS_Interval
  <1>7. /\ Board!Ranked \in [1 .. n -> 1 .. n]
        /\ \A i \in 1 .. n : \E k \in 1 .. n : Board!Ranked[k] = i
        /\ \A j, k \in 1 .. n : Board!Ranked[j] \in before[Board!Ranked[k]] => j < k
    <2> DEFINE s == Board!Sorted(1 .. n, before)
    <2>1. /\ s \in [1 .. Cardinality(1 .. n) -> 1 .. n]
          /\ \A i \in 1 .. n : \E k \in 1 .. Cardinality(1 .. n) : s[k] = i
          /\ \A j, k \in 1 .. Cardinality(1 .. n) : s[j] \in before[s[k]] => j < k
      BY <1>5, <1>6, SortedInOrder
    <2>. QED  BY <1>4, <1>6, <2>1
  <1>8. \A i \in 1 .. n : usage[Board!Ranked[1]] >= usage[i]
    <2> SUFFICES ASSUME NEW i \in 1 .. n
                 PROVE  usage[Board!Ranked[1]] >= usage[i]
      OBVIOUS
    <2>1. PICK k \in 1 .. n : Board!Ranked[k] = i
      BY <1>7
    <2>2. 1 \in 1 .. n /\ ~(k < 1)
      OBVIOUS
    <2>3. PICK r \in 1 .. n : r = Board!Ranked[1]
      BY <1>7, <2>2
    <2>4. i \notin before[r]
      BY <1>7, <2>1, <2>2, <2>3
    <2>5. usage[i] \in Nat /\ usage[r] \in Nat /\ ~(usage[i] > usage[r])
      BY <1>1, <1>2, <2>4
    <2>. QED  BY <2>3, <2>5
  <1>9. \A i \in 1 .. n : usage[i] = Board!NodeUsage[i][sortBy]
    BY DEF usage
  <1>10. \A i \in 1 .. n : Board!Ranked[1] \in 1 .. n
    BY <1>7
  <1>. QED  BY <1>7, <1>8, <1>9, <1>10

(* The panel shows the first of the alerts, as many as it has room for. *)
LEMMA Displayed ==
    ASSUME NEW k \in Nat, NEW S, Board!Alerts \in [1 .. k -> S]
    PROVE  \E m \in 0 .. k :
             /\ m = k \/ m = ShownAlerts
             /\ Board!HasMore => m = ShownAlerts
             /\ Board!DisplayedAlerts \in [1 .. m -> S] /\ Len(Board!DisplayedAlerts) = m
             /\ \A i \in 1 .. m : Board!DisplayedAlerts[i] = Board!Alerts[i]
  <1> DEFINE m == IF ShownAlerts < k THEN ShownAlerts ELSE k
  <1>1. Board!Alerts \in Seq(S) /\ Len(Board!Alerts) = k
    OBVIOUS
  <1>2. m \in 0 .. k /\ Board!DisplayedAlerts = SubSeq(Board!Alerts, 1, m)
    BY <1>1, Rooms DEF Board!DisplayedAlerts, Board!Least
  <1>3. (m = k \/ m = ShownAlerts) /\ (Board!HasMore => m = ShownAlerts)
    BY <1>1 DEF Board!HasMore
  <1> HIDE DEF m
  <1>4. Board!DisplayedAlerts = [i \in 1 .. m |-> Board!Alerts[i]]
    BY <1>1, <1>2
  <1>5. Board!DisplayedAlerts \in [1 .. m -> S]
    <2>1. \A i \in 1 .. m : Board!Alerts[i] \in S
      BY <1>2
    <2>. QED  BY <1>4, <2>1
  <1>6. /\ Len(Board!DisplayedAlerts) = m
        /\ \A i \in 1 .. m : Board!DisplayedAlerts[i] = Board!Alerts[i]
    BY <1>2, <1>4
  <1>. QED  BY <1>2, <1>3, <1>5, <1>6

(* The colours and the alerts have thresholds of their own. *)
LEMMA Coloured ==
    ASSUME NEW metric \in Board!Metrics, NEW usage \in Nat
    PROVE  LET color == IF metric = "disk" THEN Board!DiskUsageColor(usage)
                                           ELSE Board!UsageColor(usage)
           IN  /\ Board!Level(metric, usage) # "normal" => color # "success"
               /\ Board!Level(metric, usage) = "critical" => color = "error"
  BY DEF Board!Metrics, Board!Level, Board!UsageColor, Board!DiskUsageColor

LEMMA UsedMetric == \A u \in Usages, m \in Board!Metrics : u[m] \in Nat
  BY Rooms DEF Board!Metrics

LEMMA WorstFirstShown == Board!TypeOK => Board!WorstFirst
<1> SUFFICES ASSUME Board!TypeOK PROVE Board!WorstFirst
  OBVIOUS
<1>1. PICK n \in Nat : Board!NodeUsage \in [1 .. n -> Usages] /\ Len(Board!NodeUsage) = n
  BY UsageTyped
<1> DEFINE usage(i, m) == Board!NodeUsage[i][m]
           panel == Board!DisplayedAlerts
           critical(i, m) == Board!Level(m, usage(i, m)) = "critical"
<1>2. \A i \in 1 .. n, m \in Board!Metrics : usage(i, m) \in Nat
  BY <1>1, UsedMetric
<1>3. PICK k \in Nat :
        /\ Board!Alerts \in [1 .. k -> Board!AllAlerts]
        /\ \A a \in Board!AllAlerts : \E i \in 1 .. k : Board!Alerts[i] = a
        /\ \A i, j \in 1 .. k :
             Board!Alerts[i].level = "critical" /\ Board!Alerts[j].level = "warning" => i < j
  BY <1>1, AlertsInOrder
<1>4. PICK s \in 0 .. k :
        /\ s = k \/ s = ShownAlerts
        /\ Board!HasMore => s = ShownAlerts
        /\ panel \in [1 .. s -> Board!AllAlerts] /\ Len(panel) = s
        /\ \A i \in 1 .. s : panel[i] = Board!Alerts[i]
  BY <1>3, Displayed
<1>5. /\ \A a \in Board!AllAlerts :
           /\ a.node \in 1 .. n /\ a.metric \in Board!Metrics
           /\ a.level \in {"critical", "warning"}
           /\ a.level = Board!Level(a.metric, usage(a.node, a.metric))
      /\ \A i \in 1 .. n, m \in Board!Metrics :
           critical(i, m) => Board!Alert(i, m) \in Board!AllAlerts
  BY <1>1, AlertsOfUsage
<1>6. \A i, m : /\ Board!Alert(i, m).node = i /\ Board!Alert(i, m).metric = m
                /\ Board!Alert(i, m).level = Board!Level(m, usage(i, m))
  BY DEF Board!Alert
<1>7. DOMAIN panel = 1 .. s /\ DOMAIN Board!NodeUsage = 1 .. n
  BY <1>1, <1>4
<1> HIDE DEF panel, usage
<1>8. \A i \in 1 .. s :
        LET color == IF panel[i].metric = "disk"
                       THEN Board!DiskUsageColor(usage(panel[i].node, panel[i].metric))
                       ELSE Board!UsageColor(usage(panel[i].node, panel[i].metric))
        IN  color # "success" /\ (panel[i].level = "critical" => color = "error")
  <2> SUFFICES ASSUME NEW i \in 1 .. s,
                      NEW u, u = usage(panel[i].node, panel[i].metric),
                      NEW color, color = IF panel[i].metric = "disk"
                                           THEN Board!DiskUsageColor(u) ELSE Board!UsageColor(u)
               PROVE  color # "success" /\ (panel[i].level = "critical" => color = "error")
    OBVIOUS
  <2>1. /\ panel[i].metric \in Board!Metrics /\ u \in Nat
        /\ panel[i].level = Board!Level(panel[i].metric, u) /\ panel[i].level # "normal"
    BY <1>2, <1>4, <1>5
  <2>. QED  BY <2>1, Coloured
<1>9. \A i \in 1 .. s : panel[i].level = "warning" =>
        \A h \in 1 .. n, m \in Board!Metrics : critical(h, m) =>
            \E d \in 1 .. s : panel[d].node = h /\ panel[d].metric = m
  <2> SUFFICES ASSUME NEW i \in 1 .. s, panel[i].level = "warning",
                      NEW h \in 1 .. n, NEW m \in Board!Metrics, critical(h, m)
               PROVE  \E d \in 1 .. s : panel[d].node = h /\ panel[d].metric = m
    OBVIOUS
  <2>1. PICK d \in 1 .. k : Board!Alerts[d] = Board!Alert(h, m)
    BY <1>3, <1>5
  <2>2. i \in 1 .. k /\ Board!Alerts[i].level = "warning"
    BY <1>4
  <2>3. d < i
    BY <1>3, <1>6, <2>1, <2>2
  <2>4. d \in 1 .. s
    BY <2>2, <2>3
  <2>. QED  BY <1>4, <1>6, <2>1, <2>4
<1>10. \A h \in 1 .. n : Board!Level(sortBy, usage(h, sortBy)) = "critical" =>
         Board!Level(sortBy, usage(Board!Ranking[1], sortBy)) = "critical"
  <2> SUFFICES ASSUME NEW h \in 1 .. n,
                      Board!Level(sortBy, usage(h, sortBy)) = "critical"
               PROVE  Board!Level(sortBy, usage(Board!Ranking[1], sortBy)) = "critical"
    OBVIOUS
  <2>1. sortBy \in {"cpu", "memory"} /\ sortBy \in Board!Metrics
    BY DEF Board!TypeOK, Board!Metrics
  <2>2. /\ Board!Ranked \in [1 .. n -> 1 .. n]
        /\ \A i \in 1 .. n : usage(Board!Ranked[1], sortBy) >= usage(i, sortBy)
    BY <1>1, <1>2, <2>1, RankedInOrder DEF usage
  <2>3. Board!Ranking[1] = Board!Ranked[1]
    <3>1. /\ Board!Ranking = SubSeq(Board!Ranked, 1, Board!Least(TopNodes, n))
          /\ Board!Least(TopNodes, n) \in 1 .. n
      BY <1>1, Rooms DEF Board!Ranking, Board!Least
    <3>2. Board!Ranked \in Seq(1 .. n) /\ Len(Board!Ranked) = n
      BY <2>2
    <3>. QED  BY <3>1, <3>2
  <2>4. PICK r \in 1 .. n : r = Board!Ranked[1]
    BY <2>2
  <2>5. /\ usage(r, sortBy) \in Nat /\ usage(h, sortBy) \in Nat
        /\ usage(r, sortBy) >= usage(h, sortBy)
    BY <1>2, <2>1, <2>2, <2>4
  <2>. QED  BY <2>1, <2>3, <2>4, <2>5 DEF Board!Level
<1>. QED  BY <1>4, <1>7, <1>8, <1>9, <1>10 DEF Board!WorstFirst, usage, panel

(* Only a failed poll leaves the overview without data and unasked for. *)
Accounted ==
    /\ Board!TypeOK
    /\ overview.data = None /\ overview.phase = "idle" => overview.error

LEMMA AccountedInit == Init => Accounted
<1> SUFFICES ASSUME Init PROVE overview.phase # "idle"
  BY BoardInit DEF Accounted
<1>. QED
  BY DEF Init, Board!Init, Board!Q!Fetch, Board!Q!Idle, Board!Q!Begin, Board!Q!Empty

LEMMA AccountedKept ==
    ASSUME Accounted, [Next]_vars
    PROVE  Accounted'
<1> DEFINE Fine(q) == q.data = None /\ q.phase = "idle" => q.error
<1>1. Board!TypeOK' /\ overview \in Q!Entries(Overviews) /\ Fine(overview)
  BY BoardKept, BoardQueries DEF Accounted, Board!TypeOK
<1>2. /\ Fine(Q!Fetch(overview)) /\ Fine(Q!Refetch(overview)) /\ Fine(Q!Fail(overview))
      /\ \A b \in BOOLEAN : Fine(Q!Mount(overview, b))
      /\ \A o \in Overviews : Fine(Q!Succeed(Q!Read(overview, o)))
      /\ Fine(Q!Pause(overview))
      /\ \A b \in BOOLEAN : Fine(Q!Reconnect(overview, visible, b))
  <2>1. /\ Fine(Q!Begin(overview)) /\ Q!Begin(overview).data = overview.data
        /\ Q!Begin(overview).phase # "idle" /\ Fine(Q!Fail(overview))
    BY <1>1 DEF Q!Entries, Q!Begin, Q!Fail
  <2>2. Fine(Q!Fetch(overview)) /\ Fine(Q!Refetch(overview))
    BY <1>1, <2>1 DEF Q!Fetch, Q!Refetch
  <2>3. \A b \in BOOLEAN : Fine(Q!Mount(overview, b))
    BY <1>1, <2>2 DEF Q!Mount
  <2>4. \A o \in Overviews : Fine(Q!Succeed(Q!Read(overview, o)))
    <3> SUFFICES ASSUME NEW o \in Overviews
                 PROVE  Fine(Q!Succeed(Q!Read(overview, o)))
      OBVIOUS
    <3>1. Q!Read(overview, o) \in Q!Entries(Overviews) /\ Q!Read(overview, o).got = o
      BY <1>1, EntrySteps, EntryData
    <3>2. Q!Succeed(Q!Read(overview, o)).data = o
      BY <3>1, EntryData
    <3>. QED  BY <3>2, Rooms
  <2>5. Fine(Q!Pause(overview)) /\ Fine([overview EXCEPT !.phase = "asked"])
    BY <1>1 DEF Q!Entries, Q!Pause
  <2>6. \A b \in BOOLEAN : Fine(Q!Reconnect(overview, visible, b))
    BY <1>1, <2>3, <2>5 DEF Q!Reconnect
  <2>. QED  BY <2>1, <2>2, <2>3, <2>4, <2>5, <2>6
<1> HIDE DEF Fine
<1>3. CASE UNCHANGED overview
  BY <1>1, <1>3 DEF Accounted, Fine
<1>4. CASE OnDashboard /\ Board!Next
  <2>1. Fine(overview')
    BY <1>1, <1>2, <1>4, BoardQueries DEF Board!Next, Board!Poll, Board!Second, Board!Retry,
       Board!Sort, Board!OverviewFails, Board!Leave, Board!Choose, Board!OverviewOk,
       Board!Return, Board!Pause, Board!Reconnect
  <2>. QED  BY <1>1, <2>1 DEF Accounted, Fine
<1>5. CASE ~(OnDashboard /\ Board!Next)
  <2>1. UNCHANGED boardVars
    BY <1>5 DEF Next, vars, OnAgents, OnLogs, OnCharts, OnNodes, OnMetrics, OnNode
  <2>. QED  BY <1>3, <2>1 DEF boardVars
<1>. QED  BY <1>4, <1>5

LEMMA NoPlaces ==
    ASSUME NEW k \in Nat, NEW S, NEW s \in [1 .. k -> S], s = <<>>
    PROVE  1 .. k = {}
  <1>1. k = 0
    OBVIOUS
  <1>. QED  BY <1>1

LEMMA NormalUsage ==
    ASSUME NEW u \in Nat
    PROVE  /\ Board!Level("cpu", u) = "normal" => u <= 80
           /\ Board!Level("memory", u) = "normal" => u <= 80
           /\ Board!Level("disk", u) = "normal" => u <= 85
  BY DEF Board!Level

LEMMA NormalShown == Accounted => Board!NormalIsTrue
<1> SUFFICES ASSUME Accounted, Board!AlertsView = "all normal"
             PROVE  \/ Board!CardView = "error"
                    \/ overview.data = None /\ overview.phase = "paused"
                    \/ /\ overview.data # None
                       /\ \A h \in DOMAIN Board!NodeUsage :
                            /\ Board!NodeUsage[h].cpu <= 80
                            /\ Board!NodeUsage[h].memory <= 80
                            /\ Board!NodeUsage[h].disk <= 85
  BY DEF Board!NormalIsTrue
<1>1. PICK n \in Nat : Board!NodeUsage \in [1 .. n -> Usages]
  BY UsageTyped DEF Accounted
<1>2. PICK k \in Nat :
        /\ Board!Alerts \in [1 .. k -> Board!AllAlerts]
        /\ \A a \in Board!AllAlerts : \E i \in 1 .. k : Board!Alerts[i] = a
  BY <1>1, AlertsInOrder
<1>3. ~Board!Q!Loading(overview) /\ Board!Alerts = <<>>
  BY DEF Board!AlertsView
<1>4. Board!AllAlerts = {}
  <2>1. 1 .. k = {}
    BY <1>2, <1>3, NoPlaces
  <2>. QED  BY <1>2, <2>1
<1>5. \A h \in 1 .. n, m \in Board!Metrics :
        Board!Level(m, Board!NodeUsage[h][m]) = "normal"
  BY <1>1, <1>4, AlertsOfUsage
<1>6. \A h \in 1 .. n : /\ Board!NodeUsage[h].cpu \in Nat
                         /\ Board!NodeUsage[h].memory \in Nat
                         /\ Board!NodeUsage[h].disk \in Nat
  <2>1. \A u \in Usages : u.cpu \in Nat /\ u.memory \in Nat /\ u.disk \in Nat
    BY Rooms
  <2>. QED  BY <1>1, <2>1
<1>7. \A h \in DOMAIN Board!NodeUsage :
        /\ Board!NodeUsage[h].cpu <= 80 /\ Board!NodeUsage[h].memory <= 80
        /\ Board!NodeUsage[h].disk <= 85
  <2>1. DOMAIN Board!NodeUsage = 1 .. n
    BY <1>1
  <2>2. \A u \in Nat : /\ Board!Level("cpu", u) = "normal" => u <= 80
                       /\ Board!Level("memory", u) = "normal" => u <= 80
                       /\ Board!Level("disk", u) = "normal" => u <= 85
    BY NormalUsage
  <2>3. \A h \in 1 .. n : /\ Board!Level("cpu", Board!NodeUsage[h].cpu) = "normal"
                          /\ Board!Level("memory", Board!NodeUsage[h].memory) = "normal"
                          /\ Board!Level("disk", Board!NodeUsage[h].disk) = "normal"
    BY <1>5 DEF Board!Metrics
  <2>. QED  BY <1>6, <2>1, <2>2, <2>3
<1>8. overview.data = None => overview.phase \in {"idle", "paused"}
  BY <1>3, BoardQueries
     DEF Accounted, Board!TypeOK, Board!Q!Loading, Board!Q!Fetching, Q!Entries, Q!Phases
<1>9. overview.data = None /\ overview.phase = "idle" => Board!CardView = "error"
  BY <1>3 DEF Accounted, Board!CardView
<1>. QED  BY <1>7, <1>8, <1>9

-----------------------------------------------------------------------------
(***************************************************************************)
(* What is worst comes first: the panel never shows a warning while it     *)
(* hides a critical alert, draws nothing in green that it warns of, and    *)
(* the ranking is led by a critical node if there is one, for any          *)
(* overview and any room on the panels (Dashboard).                        *)
(***************************************************************************)
THEOREM WorstFirstHolds == Spec => []WorstFirst
<1>1. Init => Board!TypeOK
  BY BoardInit
<1>2. Board!TypeOK /\ [Next]_vars => Board!TypeOK'
  BY BoardKept
<1>3. Board!TypeOK => WorstFirst
  BY WorstFirstShown DEF WorstFirst
<1>. QED  BY <1>1, <1>2, <1>3, PTL DEF Spec

(***************************************************************************)
(* "All nodes run normally" is only said of an overview that has arrived   *)
(* and has no node above a threshold, or next to the error that it could   *)
(* not be loaded; with neither, the panel is still loading, but for the    *)
(* one case that AlertsPanel.tsx does not tell apart: the first overview   *)
(* waits for the network (Dashboard).                                      *)
(***************************************************************************)
THEOREM NormalIsTrueHolds == Spec => []NormalIsTrue
<1>1. Init => Accounted
  BY AccountedInit
<1>2. Accounted /\ [Next]_vars => Accounted'
  BY AccountedKept
<1>3. Accounted => NormalIsTrue
  BY NormalShown DEF NormalIsTrue
<1>. QED  BY <1>1, <1>2, <1>3, PTL DEF Spec
=============================================================================
