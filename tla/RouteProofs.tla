---------------------------- MODULE RouteProofs ----------------------------
(***************************************************************************)
(* The planner of routes, for every graph, every set of requests and every *)
(* odometry: a plan that succeeds is a cheapest route, and a search that   *)
(* fails was right.  The slicer behind it: its tasks drive the planned     *)
(* route, whatever that is, cut where it must be.  Then the programs of    *)
(* nav2_route3d, for every trajectory and its clouds, every graph file and *)
(* every schedule of goals, reloads and lifecycle callbacks; and the       *)
(* search of nav2_route3d, on every graph of honest edges: no route is     *)
(* cheaper than the one told.                                              *)
(***************************************************************************)
EXTENDS RouteSlicer, Route3D, FiniteSetTheorems, SequenceTheorems, WellFoundedInduction,
        NaturalsInduction, TLAPS

-----------------------------------------------------------------------------
(* Numbers and sequences *)

LEMMA LeastOf ==
  ASSUME NEW S \in SUBSET Nat, S # {}
  PROVE  \E m \in S : \A k \in S : m <= k
<1>1. IsWellFoundedOn(OpToRel(<, Nat), Nat)
  BY NatLessThanWellFounded
<1>2. PICK m \in S : \A k \in S : ~ (<<k, m>> \in OpToRel(<, Nat))
  BY <1>1, WFMin
<1>3. \A k \in S : ~ (k < m)
  BY <1>2 DEF OpToRel
<1> QED
  BY <1>3

\* What holds at the first place and goes on from each place to the next
\* holds at every place: a set of places is given, not a predicate.
LEMMA AllPlaces ==
  ASSUME NEW n \in Nat, NEW H \in SUBSET (1..n),
         n >= 1 => 1 \in H, \A k \in 1..(n - 1) : k \in H => k + 1 \in H
  PROVE  H = 1..n
<1> SUFFICES ASSUME (1..n) \ H # {} PROVE FALSE
  OBVIOUS
<1>1. PICK m \in (1..n) \ H : \A k \in (1..n) \ H : m <= k
  <2>1. (1..n) \ H \in SUBSET Nat
    OBVIOUS
  <2> QED
    BY <2>1, LeastOf
<1>2. m \in 1..n /\ m # 1
  BY <1>1
<1>3. m - 1 \in 1..(n - 1) /\ m - 1 \in 1..n
  BY <1>2
<1>4. m - 1 \in H
  BY <1>1, <1>2, <1>3
<1>5. (m - 1) + 1 \in H
  BY <1>3, <1>4
<1> QED
  BY <1>1, <1>2, <1>5

-----------------------------------------------------------------------------
(* The cost along a way *)

\* The graph of a job: what the loader checked and the job's types give.
LEMMA Graph ==
  ASSUME job \in Jobs, Loadable(doc)
  PROVE  /\ Vertices \subseteq Nat \ {0} /\ IsFiniteSet(Vertices)
         /\ \A u \in Vertices : \A v \in Neighbours(doc, u) :
              /\ v \in Vertices
              /\ EdgeBetween(doc, u, v) \in DOMAIN doc.edges
              /\ Arc(doc, u, EdgeBetween(doc, u, v), v)
              /\ ArcCost(doc, u, v) \in Nat
<1>1. Vertices \subseteq Nat \ {0} /\ IsFiniteSet(Vertices)
  BY JobsAssumption DEF Vertices, doc
<1>2. ASSUME NEW u \in Vertices, NEW v \in Neighbours(doc, u)
      PROVE  /\ v \in Vertices
             /\ EdgeBetween(doc, u, v) \in DOMAIN doc.edges
             /\ Arc(doc, u, EdgeBetween(doc, u, v), v)
             /\ ArcCost(doc, u, v) \in Nat
  <2>1. v \in Vertices
    BY <1>2 DEF Neighbours, Vertices
  <2>2. \E i \in DOMAIN doc.edges : Arc(doc, u, i, v)
    BY <1>2 DEF Neighbours
  <2> DEFINE i == EdgeBetween(doc, u, v)
  <2>3. i \in DOMAIN doc.edges /\ Arc(doc, u, i, v)
    BY <2>2, Zenon DEF EdgeBetween
  <2>4. doc.edges[i].weight \in Int
    BY <2>3, JobsAssumption DEF doc
  <2>5. doc.edges[i].weight >= 0
    BY <2>3 DEF Loadable, EdgeIsValid
  <2> QED
    BY <2>1, <2>3, <2>4, <2>5 DEF ArcCost
<1> QED
  BY <1>1, <1>2

\* A sequence of vertices each an arc away from the one before it.
Ways == {p \in Seq(Vertices) :
           Len(p) >= 1 /\ \A i \in 1..(Len(p) - 1) : p[i + 1] \in Neighbours(doc, p[i])}

\* What the recursion of CostsAlong(p) asks of a function on 1..n.
Adds(c, p, n) ==
  c = [k \in 1..n |-> IF k = 1 THEN 0 ELSE c[k - 1] + ArcCost(doc, p[k - 1], p[k])]

\* There is a function as the recursion asks for.
LEMMA CostsExist ==
  ASSUME NEW p, NEW n \in Nat
  PROVE  \E c : Adds(c, p, n)
<1> DEFINE H == {k \in 1..n : \E c : Adds(c, p, k)}
<1>1. 1 \in 1..n => 1 \in H
  <2> DEFINE c == [k \in 1..1 |-> 0]
  <2>1. Adds(c, p, 1)
    BY DEF Adds
  <2> QED
    BY <2>1
<1>2. ASSUME NEW k \in 1..(n - 1), k \in H
      PROVE  k + 1 \in H
  <2>1. PICK c : Adds(c, p, k)
    BY <1>2
  <2> DEFINE d == [l \in 1..(k + 1) |->
                     IF l = k + 1 THEN c[k] + ArcCost(doc, p[k], p[k + 1]) ELSE c[l]]
  <2>2. Adds(d, p, k + 1)
    <3> DEFINE e == [l \in 1..(k + 1) |->
                       IF l = 1 THEN 0 ELSE d[l - 1] + ArcCost(doc, p[l - 1], p[l])]
    <3>1. ASSUME NEW l \in 1..(k + 1) PROVE d[l] = e[l]
      <4>1. CASE l = k + 1
        <5>1. l - 1 = k /\ k \in 1..(k + 1) /\ l # 1
          BY <4>1
        <5>2. e[l] = d[k] + ArcCost(doc, p[k], p[k + 1])
          BY <4>1, <5>1
        <5>3. d[k] = c[k] /\ d[l] = c[k] + ArcCost(doc, p[k], p[k + 1])
          BY <4>1, <5>1
        <5> QED
          BY <5>2, <5>3
      <4>2. CASE l # k + 1
        <5>1. l \in 1..k /\ d[l] = c[l]
          BY <4>2
        <5>2. c[l] = IF l = 1 THEN 0 ELSE c[l - 1] + ArcCost(doc, p[l - 1], p[l])
          BY <2>1, <5>1 DEF Adds
        <5>3. l # 1 => l - 1 \in 1..(k + 1) /\ l - 1 # k + 1
          BY <5>1
        <5>4. l # 1 => d[l - 1] = c[l - 1]
          BY <5>3
        <5> QED
          BY <5>1, <5>2, <5>4
      <4> QED
        BY <4>1, <4>2
    <3>2. d = e
      BY <3>1
    <3> QED
      BY <3>2 DEF Adds
  <2>3. k + 1 \in 1..n
    OBVIOUS
  <2> QED
    BY <2>2, <2>3
<1> HIDE DEF H
<1>3. H = 1..n
  <2>1. H \in SUBSET (1..n)
    BY DEF H
  <2> QED
    BY <1>1, <1>2, <2>1, AllPlaces
<1>4. CASE n = 0
  <2> DEFINE c == [k \in 1..0 |-> 0]
  <2>1. Adds(c, p, 0)
    BY DEF Adds
  <2> QED
    BY <1>4, <2>1
<1>5. CASE n # 0
  <2>1. n \in H
    BY <1>3, <1>5
  <2> QED
    BY <2>1 DEF H
<1> QED
  BY <1>4, <1>5

LEMMA CostsAdd ==
  ASSUME NEW S, NEW p \in Seq(S)
  PROVE  Adds(CostsAlong(p), p, Len(p))
<1>1. \E c : Adds(c, p, Len(p))
  BY CostsExist
<1>2. CostsAlong(p) = CHOOSE c : Adds(c, p, Len(p))
  BY DEF CostsAlong, Adds
<1> QED
  BY <1>1, <1>2

LEMMA CostsAt ==
  ASSUME NEW S, NEW p \in Seq(S)
  PROVE  /\ Len(p) >= 1 => CostsAlong(p)[1] = 0
         /\ \A k \in 1..(Len(p) - 1) :
              CostsAlong(p)[k + 1] = CostsAlong(p)[k] + ArcCost(doc, p[k], p[k + 1])
<1> DEFINE c == CostsAlong(p)
<1>1. /\ c = [k \in 1..Len(p) |->
                IF k = 1 THEN 0 ELSE c[k - 1] + ArcCost(doc, p[k - 1], p[k])]
      /\ Len(p) \in Nat
  BY CostsAdd DEF Adds
<1> HIDE DEF c
<1>2. \A k \in 1..Len(p) :
        c[k] = IF k = 1 THEN 0 ELSE c[k - 1] + ArcCost(doc, p[k - 1], p[k])
  BY <1>1
<1>3. ASSUME NEW k \in 1..(Len(p) - 1)
      PROVE  c[k + 1] = c[k] + ArcCost(doc, p[k], p[k + 1])
  <2>1. k + 1 \in 1..Len(p) /\ k + 1 # 1 /\ (k + 1) - 1 = k
    BY <1>1
  <2> QED
    BY <1>2, <2>1
<1>4. Len(p) >= 1 => c[1] = 0
  <2>1. Len(p) >= 1 => 1 \in 1..Len(p)
    BY <1>1
  <2> QED
    BY <1>2, <2>1
<1> QED
  BY <1>3, <1>4 DEF c

\* A way that is prolonged costs the arc more.
LEMMA CostGoesOn ==
  ASSUME NEW S, NEW p \in Seq(S), Len(p) >= 1, NEW v \in S
  PROVE  CostOf(Append(p, v)) = CostOf(p) + ArcCost(doc, p[Len(p)], v)
<1> DEFINE n == Len(p)
           q == Append(p, v)
           H == {k \in 1..n : CostsAlong(q)[k] = CostsAlong(p)[k]}
<1>1. /\ q \in Seq(S) /\ Len(q) = n + 1 /\ n \in Nat
      /\ q[n + 1] = v /\ \A k \in 1..n : q[k] = p[k]
  OBVIOUS
<1> HIDE DEF q
<1>2. 1 \in H
  BY <1>1, CostsAt
<1>3. ASSUME NEW k \in 1..(n - 1), k \in H
      PROVE  k + 1 \in H
  <2>1. k \in 1..(Len(q) - 1) /\ k + 1 \in 1..n /\ k \in 1..n
    BY <1>1
  <2>2. CostsAlong(q)[k + 1] = CostsAlong(q)[k] + ArcCost(doc, q[k], q[k + 1])
    BY <1>1, <2>1, CostsAt
  <2>3. CostsAlong(p)[k + 1] = CostsAlong(p)[k] + ArcCost(doc, p[k], p[k + 1])
    BY CostsAt
  <2>4. q[k] = p[k] /\ q[k + 1] = p[k + 1]
    BY <1>1, <2>1
  <2> QED
    BY <1>3, <2>1, <2>2, <2>3, <2>4
<1>4. H = 1..n
  <2> HIDE DEF H
  <2>1. H \in SUBSET (1..n)
    BY DEF H
  <2> QED
    BY <1>1, <1>2, <1>3, <2>1, AllPlaces
<1>5. CostsAlong(q)[n] = CostsAlong(p)[n]
  <2>1. n \in H
    BY <1>1, <1>4
  <2> QED
    BY <2>1
<1>6. CostsAlong(q)[n + 1] = CostsAlong(q)[n] + ArcCost(doc, q[n], q[n + 1])
  <2>1. n \in 1..(Len(q) - 1)
    BY <1>1
  <2> QED
    BY <1>1, <2>1, CostsAt
<1>7. q[n] = p[n]
  BY <1>1
<1> QED
  BY <1>1, <1>5, <1>6, <1>7 DEF CostOf, q

LEMMA CostsNatural ==
  ASSUME job \in Jobs, Loadable(doc), NEW p \in Ways
  PROVE  \A k \in 1..Len(p) : CostsAlong(p)[k] \in Nat
<1> DEFINE n == Len(p)
           H == {k \in 1..n : CostsAlong(p)[k] \in Nat}
<1>1. p \in Seq(Vertices) /\ n \in Nat /\ n >= 1
  BY DEF Ways
<1>2. 1 \in H
  BY <1>1, CostsAt
<1>3. ASSUME NEW k \in 1..(n - 1), k \in H
      PROVE  k + 1 \in H
  <2>1. p[k] \in Vertices /\ p[k + 1] \in Neighbours(doc, p[k])
    BY <1>1 DEF Ways
  <2>2. ArcCost(doc, p[k], p[k + 1]) \in Nat
    BY <2>1, Graph
  <2>3. CostsAlong(p)[k + 1] = CostsAlong(p)[k] + ArcCost(doc, p[k], p[k + 1])
    BY <1>1, CostsAt
  <2>4. k + 1 \in 1..n
    BY <1>1
  <2> QED
    BY <1>3, <2>2, <2>3, <2>4
<1>4. H = 1..n
  <2> HIDE DEF H
  <2>1. H \in SUBSET (1..n)
    BY DEF H
  <2> QED
    BY <1>1, <1>2, <1>3, <2>1, AllPlaces
<1> QED
  BY <1>4

-----------------------------------------------------------------------------
(* The search *)

SearchTypes ==
  /\ start \in Vertices /\ goal \in Vertices /\ start # goal
  /\ DOMAIN dist \subseteq Vertices /\ dist \in [DOMAIN dist -> Nat]
  /\ start \in DOMAIN dist /\ dist[start] = 0
  /\ DOMAIN prev = DOMAIN dist \ {start}
  /\ settled \subseteq DOMAIN dist /\ goal \notin settled

\* An entry of the queue may be out of date but never too cheap, a vertex
\* reached and not settled has an entry with its distance, and what is
\* settled is no farther than what waits.
QueueTrue ==
  /\ \A q \in frontier : q[2] \in DOMAIN dist /\ q[1] \in Nat /\ dist[q[2]] <= q[1]
  /\ \A v \in DOMAIN dist \ settled : <<dist[v], v>> \in frontier
  /\ \A u \in settled : \A q \in frontier : dist[u] <= q[1]

\* The arcs out of what is settled are relaxed.
Relaxed ==
  \A u \in settled : \A v \in Neighbours(doc, u) :
    v \in DOMAIN dist /\ dist[v] <= dist[u] + ArcCost(doc, u, v)

\* The predecessor of a vertex is settled, so it keeps its distance.
Predecessors ==
  \A v \in DOMAIN prev :
    /\ prev[v].vertex \in settled /\ v \in Neighbours(doc, prev[v].vertex)
    /\ prev[v].edge = EdgeBetween(doc, prev[v].vertex, v)

\* A way visits no vertex twice: all but its last are settled.
Fresh(w) ==
  /\ \A i, j \in 1..Len(w) : w[i] = w[j] => i = j
  /\ \A i \in 1..(Len(w) - 1) : w[i] \in settled

\* A way to every vertex reached, and its edges, as the predecessors say.
Guides(way, trail) ==
  /\ DOMAIN way = DOMAIN dist /\ DOMAIN trail = DOMAIN dist
  /\ way[start] = <<start>> /\ trail[start] = <<>>
  /\ \A v \in DOMAIN prev :
       /\ way[v] = Append(way[prev[v].vertex], v)
       /\ trail[v] = Append(trail[prev[v].vertex], prev[v].edge)
  /\ \A v \in DOMAIN dist :
       /\ way[v] \in Ways /\ way[v][1] = start /\ way[v][Len(way[v])] = v
       /\ CostOf(way[v]) = dist[v] /\ Fresh(way[v])
       /\ trail[v] \in Seq(DOMAIN doc.edges) /\ Len(trail[v]) = Len(way[v]) - 1
       /\ \A i \in 1..Len(trail[v]) :
            trail[v][i] = EdgeBetween(doc, way[v][i], way[v][i + 1])

WaysKnown == \E way, trail : Guides(way, trail)

SearchTrue == SearchTypes /\ QueueTrue /\ Relaxed /\ Predecessors /\ WaysKnown

PlannerInv ==
  /\ job \in Jobs /\ Loadable(doc)
  /\ searching => SearchTrue

LEMMA OneVertexWay ==
  ASSUME NEW s \in Vertices
  PROVE  <<s>> \in Ways /\ CostOf(<<s>>) = 0
<1> DEFINE p == <<s>>
<1>1. p \in Seq(Vertices) /\ Len(p) = 1
  OBVIOUS
<1> HIDE DEF p
<1>2. CostsAlong(p)[1] = 0
  <2>1. p \in Seq(Vertices) /\ Len(p) >= 1
    BY <1>1
  <2>2. Len(p) >= 1 => CostsAlong(p)[1] = 0
    BY <2>1, CostsAt
  <2> QED
    BY <2>1, <2>2
<1>3. p \in Ways
  <2>1. \A i \in 1..(Len(p) - 1) : FALSE
    BY <1>1
  <2>2. Len(p) >= 1
    BY <1>1
  <2> QED
    BY <1>1, <2>1, <2>2 DEF Ways
<1>4. CostOf(p) = 0
  BY <1>1, <1>2 DEF CostOf
<1> QED
  BY <1>3, <1>4 DEF p

\* The queue opens with the start alone.
LEMMA OpenTrue ==
  ASSUME job \in Jobs, Loadable(doc), job' = job,
         NEW s, NEW g, s # g, {s, g} \subseteq Vertices,
         start' = s, goal' = g, dist' = [v \in {s} |-> 0], prev' = <<>>,
         settled' = {}, frontier' = {<<0, s>>}
  PROVE  SearchTrue'
<1>1. /\ doc' = doc /\ Vertices' = Vertices
      /\ DOMAIN dist' = {s} /\ dist'[s] = 0 /\ DOMAIN prev' = {}
  BY DEF doc, Vertices
<1>2. SearchTypes'
  BY <1>1 DEF SearchTypes
<1>3. QueueTrue'
  BY <1>1 DEF QueueTrue
<1>4. Relaxed' /\ Predecessors'
  BY <1>1 DEF Relaxed, Predecessors
<1>5. WaysKnown'
  <2>1. <<s>> \in Ways /\ CostOf(<<s>>) = 0
    BY OneVertexWay
  <2>2. PICK way, trail : way = [v \in {s} |-> <<s>>] /\ trail = [v \in {s} |-> <<>>]
    OBVIOUS
  <2>3. /\ way[s] = <<s>> /\ trail[s] = <<>> /\ DOMAIN way = {s} /\ DOMAIN trail = {s}
        /\ Len(<<s>>) = 1 /\ <<s>>[1] = s
        /\ <<>> \in Seq(DOMAIN doc.edges) /\ Len(<<>>) = 0
    BY <2>2
  <2>4. Ways' = Ways /\ CostOf(<<s>>)' = CostOf(<<s>>)
    BY <1>1 DEF Ways, CostOf, CostsAlong
  <2>5. ASSUME NEW v \in DOMAIN dist'
        PROVE  /\ way[v] \in Ways /\ way[v][1] = s /\ way[v][Len(way[v])] = v
               /\ CostOf(way[v])' = 0
               /\ trail[v] \in Seq(DOMAIN doc.edges) /\ Len(trail[v]) = Len(way[v]) - 1
               /\ Len(trail[v]) = 0
    <3>1. v = s /\ way[v] = <<s>>
      BY <1>1, <2>3
    <3> QED
      BY <2>1, <2>3, <2>4, <3>1
  <2>6. ASSUME NEW v \in DOMAIN dist'
        PROVE  Fresh(way[v])'
    <3>1. way[v] = <<s>> /\ Len(way[v]) = 1
      BY <1>1, <2>3
    <3> QED
      BY <3>1 DEF Fresh
  <2>7. Guides(way, trail)'
    BY <1>1, <2>3, <2>4, <2>5, <2>6 DEF Guides
  <2> QED
    BY <2>7 DEF WaysKnown
<1> QED
  BY <1>2, <1>3, <1>4, <1>5 DEF SearchTrue

\* An arc prolongs a way.
LEMMA WayGoesOn ==
  ASSUME NEW w \in Ways, NEW v \in Vertices, v \in Neighbours(doc, w[Len(w)])
  PROVE  /\ Append(w, v) \in Ways /\ Len(Append(w, v)) = Len(w) + 1
         /\ Append(w, v)[1] = w[1] /\ Append(w, v)[Len(w) + 1] = v
         /\ \A k \in 1..Len(w) : Append(w, v)[k] = w[k]
         /\ CostOf(Append(w, v)) = CostOf(w) + ArcCost(doc, w[Len(w)], v)
<1> DEFINE q == Append(w, v)
<1>1. w \in Seq(Vertices) /\ Len(w) >= 1 /\ Len(w) \in Nat
  BY DEF Ways
<1>2. /\ q \in Seq(Vertices) /\ Len(q) = Len(w) + 1 /\ q[Len(w) + 1] = v
      /\ \A k \in 1..Len(w) : q[k] = w[k]
  BY <1>1
<1> HIDE DEF q
<1>3. q[1] = w[1]
  BY <1>1, <1>2
<1>4. ASSUME NEW k \in 1..(Len(q) - 1)
      PROVE  q[k + 1] \in Neighbours(doc, q[k])
  <2>1. CASE k = Len(w)
    BY <1>1, <1>2, <2>1
  <2>2. CASE k # Len(w)
    <3>1. k \in 1..(Len(w) - 1) /\ k \in 1..Len(w) /\ k + 1 \in 1..Len(w)
      BY <1>1, <1>2, <2>2
    <3>2. w[k + 1] \in Neighbours(doc, w[k])
      BY <3>1 DEF Ways
    <3> QED
      BY <1>2, <3>1, <3>2
  <2> QED
    BY <2>1, <2>2
<1>5. q \in Ways
  <2>1. Len(q) >= 1
    BY <1>1, <1>2
  <2> QED
    BY <1>2, <1>4, <2>1 DEF Ways
<1>6. CostOf(Append(w, v)) = CostOf(w) + ArcCost(doc, w[Len(w)], v)
  BY <1>1, CostGoesOn
<1> QED
  BY <1>2, <1>3, <1>5, <1>6 DEF q

\* The step settles u, the top of the queue, and relaxes the arcs out of it.
LEMMA RelaxTrue ==
  ASSUME PlannerInv, NEW u \in Vertices, SettleAndRelax(u)
  PROVE  SearchTrue'
<1> DEFINE I == Improved(u)
           C(v) == ArcCost(doc, u, v)
<1>1. /\ SearchTypes /\ QueueTrue /\ Relaxed /\ Predecessors /\ WaysKnown
      /\ job \in Jobs /\ Loadable(doc)
  BY DEF PlannerInv, SearchTrue, SettleAndRelax
<1>2. PICK q \in frontier :
        /\ IsTop(q) /\ q[2] = u /\ q[1] <= dist[u]
        /\ frontier' = (frontier \ {q}) \cup {<<dist[u] + C(v), v>> : v \in I}
  BY DEF SettleAndRelax
<1>3. /\ u # goal /\ u \notin settled /\ settled' = settled \cup {u}
      /\ dist' = [v \in DOMAIN dist \cup I |-> IF v \in I THEN dist[u] + C(v) ELSE dist[v]]
      /\ prev' = [v \in DOMAIN prev \cup I |->
                    IF v \in I THEN [vertex |-> u, edge |-> EdgeBetween(doc, u, v)]
                               ELSE prev[v]]
      /\ UNCHANGED <<job, start, goal>>
  BY DEF SettleAndRelax
<1>4. /\ u \in DOMAIN dist /\ dist[u] \in Nat
      /\ \A r \in frontier : r[1] \in Nat /\ dist[u] <= r[1]
  <2>1. q[1] \in Nat /\ u \in DOMAIN dist /\ dist[u] <= q[1]
    BY <1>1, <1>2 DEF QueueTrue
  <2>2. dist[u] \in Nat
    BY <1>1, <2>1 DEF SearchTypes
  <2>3. ASSUME NEW r \in frontier PROVE r[1] \in Nat /\ dist[u] <= r[1]
    <3>1. r[1] \in Nat
      BY <1>1 DEF QueueTrue
    <3>2. q[1] < r[1] \/ q[1] = r[1]
      BY <1>2 DEF IsTop
    <3> QED
      BY <2>1, <2>2, <3>1, <3>2
  <2> QED
    BY <2>1, <2>2, <2>3
<1>5. ASSUME NEW v \in I
      PROVE  /\ v \in Vertices /\ v \in Neighbours(doc, u) /\ C(v) \in Nat
             /\ v \in DOMAIN dist => dist[u] + C(v) < dist[v]
             /\ v \notin settled /\ v # u /\ v # start
  <2>1. v \in Neighbours(doc, u) /\ (v \in DOMAIN dist => dist[u] + C(v) < dist[v])
    BY DEF Improved
  <2>2. v \in Vertices /\ C(v) \in Nat
    BY <1>1, <2>1, Graph
  <2>3. v \in DOMAIN dist => dist[v] \in Nat /\ dist[u] < dist[v]
    BY <1>1, <1>4, <2>1, <2>2 DEF SearchTypes
  <2>4. v \notin settled
    <3>1. v \in settled => v \in DOMAIN dist /\ dist[v] <= q[1]
      BY <1>1 DEF SearchTypes, QueueTrue
    <3>2. q[1] = dist[u]
      BY <1>2, <1>4
    <3> QED
      BY <1>4, <2>3, <3>1, <3>2
  <2>5. v # u /\ v # start
    BY <1>1, <1>4, <2>3 DEF SearchTypes
  <2> QED
    BY <2>1, <2>2, <2>4, <2>5
<1> HIDE DEF I
<1>6. /\ doc' = doc /\ Vertices' = Vertices
      /\ \A a, b : ArcCost(doc, a, b)' = ArcCost(doc, a, b)
  BY <1>3 DEF doc, Vertices
<1>7. /\ DOMAIN dist' = DOMAIN dist \cup I /\ DOMAIN prev' = DOMAIN prev \cup I
      /\ \A v \in I : dist'[v] = dist[u] + C(v) /\ dist'[v] \in Nat
      /\ \A v \in DOMAIN dist \ I : dist'[v] = dist[v]
      /\ \A v \in DOMAIN dist : dist'[v] <= dist[v] /\ dist[v] \in Nat /\ dist'[v] \in Nat
  <2>1. DOMAIN dist' = DOMAIN dist \cup I /\ DOMAIN prev' = DOMAIN prev \cup I
    BY <1>3
  <2>2. ASSUME NEW v \in I PROVE dist'[v] = dist[u] + C(v) /\ dist'[v] \in Nat
    BY <1>3, <1>4, <1>5
  <2>3. ASSUME NEW v \in DOMAIN dist \ I PROVE dist'[v] = dist[v]
    BY <1>3
  <2>4. ASSUME NEW v \in DOMAIN dist
        PROVE  dist'[v] <= dist[v] /\ dist[v] \in Nat /\ dist'[v] \in Nat
    <3>1. dist[v] \in Nat
      BY <1>1 DEF SearchTypes
    <3>2. CASE v \in I
      BY <1>5, <2>2, <3>1, <3>2
    <3>3. CASE v \notin I
      BY <2>3, <3>1, <3>3
    <3> QED
      BY <3>1, <3>2, <3>3
  <2> QED
    BY <2>1, <2>2, <2>3, <2>4
<1>8. SearchTypes'
  <2>1. dist' \in [DOMAIN dist' -> Nat]
    <3>1. \A v \in DOMAIN dist' : dist'[v] \in Nat
      BY <1>7
    <3>2. dist' = [v \in DOMAIN dist' |-> dist'[v]]
      BY <1>3
    <3> QED
      BY <3>1, <3>2
  <2>2. DOMAIN dist' \subseteq Vertices
    BY <1>1, <1>5, <1>7 DEF SearchTypes
  <2>3. start \in DOMAIN dist' /\ dist'[start] = 0
    BY <1>1, <1>5, <1>7 DEF SearchTypes
  <2>4. DOMAIN prev' = DOMAIN dist' \ {start}
    BY <1>1, <1>5, <1>7 DEF SearchTypes
  <2>5. settled' \subseteq DOMAIN dist' /\ goal \notin settled'
    BY <1>1, <1>3, <1>4, <1>7 DEF SearchTypes
  <2> QED
    BY <1>1, <1>3, <1>6, <2>1, <2>2, <2>3, <2>4, <2>5 DEF SearchTypes
<1>9. ASSUME NEW r \in frontier'
      PROVE  \/ r \in frontier
             \/ \E v \in I : r[1] = dist[u] + C(v) /\ r[2] = v
  BY <1>2
<1>10. QueueTrue'
  <2>1. ASSUME NEW r \in frontier'
        PROVE  /\ r[2] \in DOMAIN dist' /\ r[1] \in Nat /\ dist'[r[2]] <= r[1]
               /\ dist[u] <= r[1]
    <3>1. CASE r \in frontier
      <4>1. r[2] \in DOMAIN dist /\ r[1] \in Nat /\ dist[r[2]] <= r[1]
        BY <1>1, <3>1 DEF QueueTrue
      <4> QED
        BY <1>4, <1>7, <3>1, <4>1
    <3>2. CASE \E v \in I : r[1] = dist[u] + C(v) /\ r[2] = v
      <4>1. PICK v \in I : r[1] = dist[u] + C(v) /\ r[2] = v
        BY <3>2
      <4>2. dist'[v] = r[1] /\ v \in DOMAIN dist' /\ dist'[v] \in Nat
        BY <1>7, <4>1
      <4> QED
        BY <1>4, <1>5, <4>1, <4>2
    <3> QED
      BY <1>9, <3>1, <3>2
  <2>2. ASSUME NEW v \in DOMAIN dist' \ settled'
        PROVE  <<dist'[v], v>> \in frontier'
    <3>1. CASE v \in I
      BY <1>2, <1>7, <3>1
    <3>2. CASE v \notin I
      <4>1. v \in DOMAIN dist \ settled /\ v # u /\ dist'[v] = dist[v]
        BY <1>3, <1>7, <3>2
      <4>2. <<dist[v], v>> \in frontier
        BY <1>1, <4>1 DEF QueueTrue
      <4>3. <<dist[v], v>> # q
        BY <1>2, <4>1
      <4> QED
        BY <1>2, <4>1, <4>2, <4>3
    <3> QED
      BY <3>1, <3>2
  <2>3. ASSUME NEW w \in settled', NEW r \in frontier'
        PROVE  dist'[w] <= r[1]
    <3>1. w \in DOMAIN dist /\ dist[w] \in Nat /\ dist'[w] \in Nat /\ dist'[w] <= dist[w]
      BY <1>1, <1>3, <1>4, <1>7 DEF SearchTypes
    <3>2. dist[w] <= dist[u]
      <4>1. CASE w = u
        BY <1>4, <4>1
      <4>2. CASE w # u
        <5>1. dist[w] <= q[1]
          BY <1>1, <1>3, <4>2 DEF QueueTrue
        <5> QED
          BY <1>2, <1>4, <3>1, <5>1
      <4> QED
        BY <4>1, <4>2
    <3> QED
      BY <1>4, <2>1, <3>1, <3>2
  <2> QED
    BY <2>1, <2>2, <2>3 DEF QueueTrue
<1>11. Relaxed'
  <2>1. ASSUME NEW w \in settled', NEW v \in Neighbours(doc, w)
        PROVE  v \in DOMAIN dist' /\ dist'[v] <= dist'[w] + ArcCost(doc, w, v)
    <3>1. w \in DOMAIN dist /\ w \notin I /\ dist'[w] = dist[w] /\ dist[w] \in Nat /\ w \in Vertices
      BY <1>1, <1>3, <1>4, <1>5, <1>7 DEF SearchTypes
    <3>2. v \in Vertices /\ ArcCost(doc, w, v) \in Nat
      BY <1>1, <3>1, Graph
    <3>3. CASE w # u
      <4>1. v \in DOMAIN dist /\ dist[v] <= dist[w] + ArcCost(doc, w, v)
        BY <1>1, <1>3, <3>3 DEF Relaxed
      <4>2. dist'[v] <= dist[v] /\ dist[v] \in Nat /\ dist'[v] \in Nat /\ v \in DOMAIN dist'
        BY <1>7, <4>1
      <4> QED
        BY <3>1, <3>2, <4>1, <4>2
    <3>4. CASE w = u
      <4>1. CASE v \in I
        BY <1>7, <3>1, <3>2, <3>4, <4>1
      <4>2. CASE v \notin I
        <5>1. v \in DOMAIN dist /\ ~ (dist[u] + C(v) < dist[v])
          BY <3>4, <4>2 DEF Improved, I
        <5>2. dist'[v] = dist[v] /\ dist[v] \in Nat /\ v \in DOMAIN dist'
          BY <1>7, <4>2, <5>1
        <5> QED
          BY <1>4, <3>1, <3>2, <3>4, <5>1, <5>2
      <4> QED
        BY <4>1, <4>2
    <3> QED
      BY <3>3, <3>4
  <2>2. \A w : Neighbours(doc, w)' = Neighbours(doc, w)
    BY <1>6 DEF Neighbours
  <2> QED
    BY <1>6, <2>1, <2>2 DEF Relaxed
<1>12. ASSUME NEW v \in DOMAIN prev'
       PROVE  /\ v \in I => prev'[v].vertex = u /\ prev'[v].edge = EdgeBetween(doc, u, v)
              /\ v \notin I => v \in DOMAIN prev /\ prev'[v] = prev[v]
  BY <1>3, <1>7
<1>13. Predecessors'
  <2>1. ASSUME NEW v \in DOMAIN prev'
        PROVE  /\ prev'[v].vertex \in settled' /\ v \in Neighbours(doc, prev'[v].vertex)
               /\ prev'[v].edge = EdgeBetween(doc, prev'[v].vertex, v)
    <3>1. CASE v \in I
      BY <1>3, <1>5, <1>12, <3>1
    <3>2. CASE v \notin I
      <4>1. v \in DOMAIN prev /\ prev'[v] = prev[v]
        BY <1>12, <3>2
      <4> QED
        BY <1>1, <1>3, <4>1 DEF Predecessors
    <3> QED
      BY <3>1, <3>2
  <2> QED
    BY <1>6, <2>1 DEF Predecessors
<1>14. WaysKnown'
  <2>1. PICK way, trail : Guides(way, trail)
    BY <1>1 DEF WaysKnown
  <2>2. PICK way1, trail1 :
          /\ way1 = [v \in DOMAIN dist \cup I |-> IF v \in I THEN Append(way[u], v) ELSE way[v]]
          /\ trail1 = [v \in DOMAIN dist \cup I |->
                         IF v \in I THEN Append(trail[u], EdgeBetween(doc, u, v)) ELSE trail[v]]
    OBVIOUS
  <2>3. /\ \A v \in I : way1[v] = Append(way[u], v) /\ trail1[v] = Append(trail[u], EdgeBetween(doc, u, v))
        /\ \A v \in DOMAIN dist \ I : way1[v] = way[v] /\ trail1[v] = trail[v]
        /\ DOMAIN way1 = DOMAIN dist' /\ DOMAIN trail1 = DOMAIN dist'
    BY <1>7, <2>2
  <2>4. \A v \in DOMAIN dist :
          /\ way[v] \in Ways /\ way[v][1] = start /\ way[v][Len(way[v])] = v
          /\ CostOf(way[v]) = dist[v]
          /\ trail[v] \in Seq(DOMAIN doc.edges) /\ Len(trail[v]) = Len(way[v]) - 1
          /\ \A i \in 1..Len(trail[v]) :
               trail[v][i] = EdgeBetween(doc, way[v][i], way[v][i + 1])
    BY <2>1 DEF Guides
  <2>5. u \notin I /\ start \in DOMAIN dist \ I /\ settled \cap I = {}
    BY <1>1, <1>5 DEF SearchTypes
  <2>6. way1[start] = <<start>> /\ trail1[start] = <<>>
    BY <2>1, <2>3, <2>5 DEF Guides
  <2>7. ASSUME NEW v \in DOMAIN prev'
        PROVE  /\ way1[v] = Append(way1[prev'[v].vertex], v)
               /\ trail1[v] = Append(trail1[prev'[v].vertex], prev'[v].edge)
    <3>1. CASE v \in I
      <4>1. prev'[v].vertex = u /\ prev'[v].edge = EdgeBetween(doc, u, v)
        BY <1>12, <3>1
      <4>2. way1[u] = way[u] /\ trail1[u] = trail[u]
        BY <1>4, <2>3, <2>5
      <4> QED
        BY <2>3, <3>1, <4>1, <4>2
    <3>2. CASE v \notin I
      <4>1. v \in DOMAIN prev /\ prev'[v] = prev[v]
        BY <1>12, <3>2
      <4>2. prev[v].vertex \in DOMAIN dist \ I /\ v \in DOMAIN dist \ I
        BY <1>1, <2>5, <3>2, <4>1 DEF Predecessors, SearchTypes
      <4>3. /\ way[v] = Append(way[prev[v].vertex], v)
            /\ trail[v] = Append(trail[prev[v].vertex], prev[v].edge)
        BY <2>1, <4>1 DEF Guides
      <4> QED
        BY <2>3, <4>1, <4>2, <4>3
    <3> QED
      BY <3>1, <3>2
  <2>8. ASSUME NEW v \in DOMAIN dist'
        PROVE  /\ way1[v] \in Ways /\ way1[v][1] = start /\ way1[v][Len(way1[v])] = v
               /\ CostOf(way1[v]) = dist'[v]
               /\ trail1[v] \in Seq(DOMAIN doc.edges) /\ Len(trail1[v]) = Len(way1[v]) - 1
               /\ \A i \in 1..Len(trail1[v]) :
                    trail1[v][i] = EdgeBetween(doc, way1[v][i], way1[v][i + 1])
    <3>1. CASE v \notin I
      <4>1. v \in DOMAIN dist \ I
        BY <1>7, <3>1
      <4>2. way1[v] = way[v] /\ trail1[v] = trail[v] /\ dist'[v] = dist[v]
        BY <1>7, <2>3, <4>1
      <4> QED
        BY <2>4, <4>1, <4>2
    <3>2. CASE v \in I
      <4> DEFINE w == way[u]
                 t == trail[u]
                 e == EdgeBetween(doc, u, v)
      <4>1. /\ w \in Ways /\ w[1] = start /\ w[Len(w)] = u /\ CostOf(w) = dist[u]
            /\ t \in Seq(DOMAIN doc.edges) /\ Len(t) = Len(w) - 1
            /\ \A i \in 1..Len(t) : t[i] = EdgeBetween(doc, w[i], w[i + 1])
        BY <1>4, <2>4
      <4>2. way1[v] = Append(w, v) /\ trail1[v] = Append(t, e)
        BY <2>3, <3>2
      <4>3. v \in Vertices /\ v \in Neighbours(doc, u) /\ dist'[v] = dist[u] + C(v)
        BY <1>5, <1>7, <3>2
      <4>4. e \in DOMAIN doc.edges
        BY <1>1, <4>3, Graph
      <4> HIDE DEF w, t, e
      <4>5. /\ Append(w, v) \in Ways /\ Len(Append(w, v)) = Len(w) + 1
            /\ Append(w, v)[1] = w[1] /\ Append(w, v)[Len(w) + 1] = v
            /\ \A k \in 1..Len(w) : Append(w, v)[k] = w[k]
            /\ CostOf(Append(w, v)) = CostOf(w) + ArcCost(doc, u, v)
        BY <4>1, <4>3, WayGoesOn
      <4>6. /\ Append(t, e) \in Seq(DOMAIN doc.edges) /\ Len(Append(t, e)) = Len(t) + 1
            /\ Append(t, e)[Len(t) + 1] = e /\ Len(t) \in Nat
            /\ \A k \in 1..Len(t) : Append(t, e)[k] = t[k]
        BY <4>1, <4>4
      <4>7. ASSUME NEW i \in 1..Len(Append(t, e))
            PROVE  Append(t, e)[i] = EdgeBetween(doc, Append(w, v)[i], Append(w, v)[i + 1])
        <5>1. CASE i = Len(t) + 1
          <6>1. i = Len(w) /\ i \in 1..Len(w) /\ Append(t, e)[i] = e
            BY <4>1, <4>6, <5>1
          <6>2. Append(w, v)[i] = u /\ Append(w, v)[i + 1] = v
            BY <4>1, <4>5, <6>1
          <6> QED
            BY <6>1, <6>2 DEF e
        <5>2. CASE i # Len(t) + 1
          <6>1. i \in 1..Len(t) /\ i \in 1..Len(w) /\ i + 1 \in 1..Len(w)
            BY <4>1, <4>6, <5>2
          <6> QED
            BY <4>1, <4>5, <4>6, <6>1
        <5> QED
          BY <5>1, <5>2
      <4>8. Len(w) \in Nat
        BY <4>1 DEF Ways
      <4> QED
        BY <4>1, <4>2, <4>3, <4>5, <4>6, <4>7, <4>8
    <3> QED
      BY <3>1, <3>2
  <2>9. /\ \A w : CostOf(w)' = CostOf(w)
        /\ Ways' = Ways /\ (DOMAIN doc.edges)' = DOMAIN doc.edges
        /\ \A a, b : EdgeBetween(doc, a, b)' = EdgeBetween(doc, a, b)
    BY <1>6 DEF CostOf, CostsAlong, Ways
  <2>10. ASSUME NEW v \in DOMAIN dist'
         PROVE  /\ way1[v] \in Ways' /\ way1[v][1] = start' /\ way1[v][Len(way1[v])] = v
                /\ CostOf(way1[v])' = dist'[v]
                /\ trail1[v] \in Seq((DOMAIN doc.edges)')
                /\ Len(trail1[v]) = Len(way1[v]) - 1
                /\ \A i \in 1..Len(trail1[v]) :
                     trail1[v][i] = EdgeBetween(doc, way1[v][i], way1[v][i + 1])'
    <3>1. CostOf(way1[v])' = dist'[v] /\ start' = start
      BY <1>3, <2>8, <2>9
    <3>2. ASSUME NEW i \in 1..Len(trail1[v])
          PROVE  trail1[v][i] = EdgeBetween(doc, way1[v][i], way1[v][i + 1])'
      BY <2>8, <2>9
    <3> QED
      BY <2>8, <2>9, <3>1, <3>2
  <2>11. /\ DOMAIN way1 = DOMAIN dist' /\ DOMAIN trail1 = DOMAIN dist'
         /\ way1[start'] = <<start'>> /\ trail1[start'] = <<>>
    BY <1>3, <2>3, <2>6
  <2>12. ASSUME NEW v \in DOMAIN dist'
         PROVE  Fresh(way1[v])'
    <3>1. CASE v \notin I
      <4>1. Fresh(way[v]) /\ way1[v] = way[v]
        BY <1>7, <2>1, <2>3, <3>1 DEF Guides
      <4> QED
        BY <1>3, <4>1 DEF Fresh
    <3>2. CASE v \in I
      <4> DEFINE w == way[u]
      <4>1. w \in Ways /\ w[Len(w)] = u /\ Fresh(w)
        BY <1>4, <2>1, <2>4 DEF Guides
      <4>2. v \in Vertices /\ v \in Neighbours(doc, u) /\ v \notin settled' /\ settled \subseteq settled'
        BY <1>3, <1>5, <2>5, <3>2
      <4>3. way1[v] = Append(w, v)
        BY <2>3, <3>2
      <4> HIDE DEF w
      <4>4. /\ Len(w) \in Nat /\ Len(Append(w, v)) = Len(w) + 1 /\ Append(w, v)[Len(w) + 1] = v
            /\ \A k \in 1..Len(w) : Append(w, v)[k] = w[k]
        BY <4>1, <4>2, WayGoesOn DEF Ways
      <4>5. ASSUME NEW k \in 1..Len(w) PROVE Append(w, v)[k] \in settled' /\ Append(w, v)[k] # v
        <5>1. CASE k = Len(w)
          BY <1>3, <4>1, <4>2, <4>4, <5>1
        <5>2. CASE k # Len(w)
          <6>1. k \in 1..(Len(w) - 1)
            BY <4>4, <5>2
          <6> QED
            BY <4>1, <4>2, <4>4, <6>1 DEF Fresh
        <5> QED
          BY <5>1, <5>2
      <4>6. ASSUME NEW i \in 1..(Len(w) + 1), NEW j \in 1..(Len(w) + 1),
                   Append(w, v)[i] = Append(w, v)[j]
            PROVE  i = j
        <5>1. CASE i \in 1..Len(w) /\ j \in 1..Len(w)
          BY <4>1, <4>4, <4>6, <5>1 DEF Fresh
        <5>2. i \in 1..Len(w) \/ i = Len(w) + 1
          BY <4>4
        <5>3. j \in 1..Len(w) \/ j = Len(w) + 1
          BY <4>4
        <5> QED
          BY <4>4, <4>5, <4>6, <5>1, <5>2, <5>3
      <4>7. 1..((Len(w) + 1) - 1) = 1..Len(w)
        BY <4>4
      <4> QED
        BY <4>3, <4>4, <4>5, <4>6, <4>7 DEF Fresh
    <3> QED
      BY <3>1, <3>2
  <2>13. Guides(way1, trail1)'
    BY <2>7, <2>10, <2>11, <2>12 DEF Guides
  <2> QED
    BY <2>13 DEF WaysKnown
<1> QED
  BY <1>8, <1>10, <1>11, <1>13, <1>14 DEF SearchTrue

-----------------------------------------------------------------------------
(* What the search finds *)

\* The recursion over the predecessors has a solution, and it is the ways.
LEMMA ChainsAreWays ==
  ASSUME SearchTrue, goal \in DOMAIN dist, NEW way, NEW trail, Guides(way, trail)
  PROVE  VertexChain[goal] = way[goal] /\ EdgeChain[goal] = trail[goal]
<1>1. SearchTypes /\ Predecessors
  BY DEF SearchTrue
<1>2. /\ start \in DOMAIN dist /\ DOMAIN prev = DOMAIN dist \ {start}
      /\ DOMAIN dist \subseteq Vertices
      /\ \A v \in DOMAIN prev : prev[v].vertex \in DOMAIN dist
      /\ way[start] = <<start>> /\ trail[start] = <<>>
      /\ \A v \in DOMAIN prev :
           /\ way[v] = Append(way[prev[v].vertex], v)
           /\ trail[v] = Append(trail[prev[v].vertex], prev[v].edge)
  BY <1>1 DEF SearchTypes, Predecessors, Guides
<1>3. VertexChain = [v \in Vertices |->
           IF v = start \/ v \notin DOMAIN prev
           THEN <<v>> ELSE Append(VertexChain[prev[v].vertex], v)]
  <2> DEFINE V == [v \in Vertices |-> IF v \in DOMAIN dist THEN way[v] ELSE <<v>>]
             R(f) == [v \in Vertices |-> IF v = start \/ v \notin DOMAIN prev
                                         THEN <<v>> ELSE Append(f[prev[v].vertex], v)]
  <2>1. ASSUME NEW v \in Vertices PROVE V[v] = R(V)[v]
    <3>1. CASE v = start
      BY <1>2, <3>1
    <3>2. CASE v # start /\ v \in DOMAIN prev
      <4>1. prev[v].vertex \in DOMAIN dist /\ prev[v].vertex \in Vertices /\ v \in DOMAIN dist
        BY <1>2, <3>2
      <4>2. V[prev[v].vertex] = way[prev[v].vertex] /\ V[v] = way[v]
        BY <4>1
      <4>3. R(V)[v] = Append(V[prev[v].vertex], v)
        BY <3>2
      <4> QED
        BY <1>2, <3>2, <4>2, <4>3
    <3>3. CASE v # start /\ v \notin DOMAIN prev
      BY <1>2, <3>3
    <3> QED
      BY <3>1, <3>2, <3>3
  <2>2. V = R(V)
    BY <2>1
  <2>3. \E f : f = R(f)
    BY <2>2
  <2>4. VertexChain = CHOOSE f : f = R(f)
    BY DEF VertexChain
  <2> HIDE DEF R
  <2>5. VertexChain = R(VertexChain)
    BY <2>3, <2>4
  <2> QED
    BY <2>5 DEF R
<1>4. EdgeChain = [v \in Vertices |->
           IF v = start \/ v \notin DOMAIN prev
           THEN <<>> ELSE Append(EdgeChain[prev[v].vertex], prev[v].edge)]
  <2> DEFINE E == [v \in Vertices |-> IF v \in DOMAIN dist THEN trail[v] ELSE <<>>]
             R(f) == [v \in Vertices |-> IF v = start \/ v \notin DOMAIN prev
                                THEN <<>> ELSE Append(f[prev[v].vertex], prev[v].edge)]
  <2>1. ASSUME NEW v \in Vertices PROVE E[v] = R(E)[v]
    <3>1. CASE v = start
      BY <1>2, <3>1
    <3>2. CASE v # start /\ v \in DOMAIN prev
      <4>1. prev[v].vertex \in DOMAIN dist /\ prev[v].vertex \in Vertices /\ v \in DOMAIN dist
        BY <1>2, <3>2
      <4>2. E[prev[v].vertex] = trail[prev[v].vertex] /\ E[v] = trail[v]
        BY <4>1
      <4>3. R(E)[v] = Append(E[prev[v].vertex], prev[v].edge)
        BY <3>2
      <4> QED
        BY <1>2, <3>2, <4>2, <4>3
    <3>3. CASE v # start /\ v \notin DOMAIN prev
      BY <1>2, <3>3
    <3> QED
      BY <3>1, <3>2, <3>3
  <2>2. E = R(E)
    BY <2>1
  <2>3. \E f : f = R(f)
    BY <2>2
  <2>4. EdgeChain = CHOOSE f : f = R(f)
    BY DEF EdgeChain
  <2> HIDE DEF R
  <2>5. EdgeChain = R(EdgeChain)
    BY <2>3, <2>4
  <2> QED
    BY <2>5 DEF R
<1> DEFINE Same(v) == VertexChain[v] = way[v] /\ EdgeChain[v] = trail[v]
           N == Len(way[goal])
           H == {n \in 1..N : \A v \in DOMAIN dist : Len(way[v]) <= n => Same(v)}
<1>5. Same(start)
  BY <1>2, <1>3, <1>4
<1>6. ASSUME NEW v \in DOMAIN dist, v # start
      PROVE  /\ prev[v].vertex \in DOMAIN dist
             /\ Len(way[prev[v].vertex]) \in Nat /\ Len(way[prev[v].vertex]) >= 1
             /\ Len(way[v]) = Len(way[prev[v].vertex]) + 1
             /\ Same(prev[v].vertex) => Same(v)
  <2> DEFINE u == prev[v].vertex
  <2>1. v \in DOMAIN prev /\ u \in DOMAIN dist /\ v \in Vertices
    BY <1>2, <1>6
  <2>2. way[u] \in Ways
    BY <2>1 DEF Guides
  <2>3. way[u] \in Seq(Vertices) /\ Len(way[u]) >= 1 /\ Len(way[u]) \in Nat
    BY <2>2 DEF Ways
  <2>4. Len(way[v]) = Len(way[u]) + 1
    BY <1>2, <2>1, <2>3
  <2>5. /\ VertexChain[v] = Append(VertexChain[u], v)
        /\ EdgeChain[v] = Append(EdgeChain[u], prev[v].edge)
    BY <1>3, <1>4, <1>6, <2>1
  <2> QED
    BY <1>2, <2>1, <2>3, <2>4, <2>5
<1>7. N \in H
  <2>1. N \in Nat /\ N >= 1
    <3>1. way[goal] \in Ways
      BY DEF Guides
    <3> QED
      BY <3>1 DEF Ways
  <2>2. 1 \in H
    <3>1. ASSUME NEW v \in DOMAIN dist, Len(way[v]) <= 1 PROVE Same(v)
      BY <1>5, <1>6, <3>1
    <3> QED
      BY <2>1, <3>1
  <2>3. ASSUME NEW n \in 1..(N - 1), n \in H
        PROVE  n + 1 \in H
    <3>1. ASSUME NEW v \in DOMAIN dist, Len(way[v]) <= n + 1 PROVE Same(v)
      <4>1. CASE v = start
        BY <1>5, <4>1
      <4>2. CASE v # start
        <5>1. Len(way[prev[v].vertex]) <= n /\ prev[v].vertex \in DOMAIN dist
          BY <1>6, <3>1, <4>2
        <5>2. Same(prev[v].vertex)
          BY <2>3, <5>1
        <5> QED
          BY <1>6, <4>2, <5>2
      <4> QED
        BY <4>1, <4>2
    <3> QED
      BY <2>1, <3>1
  <2>4. H = 1..N
    <3> HIDE DEF H, N
    <3>1. H \in SUBSET (1..N)
      BY DEF H
    <3> QED
      BY <2>1, <2>2, <2>3, <3>1, AllPlaces
  <2> QED
    BY <2>1, <2>4
<1>8. N \in Nat
  <2>1. way[goal] \in Ways
    BY DEF Guides
  <2> QED
    BY <2>1 DEF Ways
<1> QED
  BY <1>7, <1>8

\* The routes of the reference are ways, and their costs are numbers.
LEMMA RoutesAreWays ==
  ASSUME job \in Jobs, Loadable(doc), NEW s, NEW g, NEW p \in SimpleRoutes(s, g)
  PROVE  /\ p \in Ways /\ Len(p) \in Nat /\ Len(p) >= 1 /\ p[1] = s /\ p[Len(p)] = g
         /\ CostsAlong(p)[1] = 0
         /\ \A k \in 1..Len(p) : p[k] \in Vertices /\ CostsAlong(p)[k] \in Nat
         /\ \A k \in 1..(Len(p) - 1) :
              /\ p[k + 1] \in Neighbours(doc, p[k])
              /\ ArcCost(doc, p[k], p[k + 1]) \in Nat
              /\ CostsAlong(p)[k + 1] = CostsAlong(p)[k] + ArcCost(doc, p[k], p[k + 1])
<1>1. PICK n \in 1..Cardinality(Vertices) : p \in [1..n -> Vertices]
  BY DEF SimpleRoutes
<1>2. Cardinality(Vertices) \in Nat
  BY Graph, FS_CardinalityType
<1>3. n \in Nat /\ n >= 1 /\ p \in Seq(Vertices) /\ Len(p) = n
  BY <1>1, <1>2
<1>4. /\ p[1] = s /\ p[Len(p)] = g
      /\ \A i \in 1..(Len(p) - 1) : p[i + 1] \in Neighbours(doc, p[i])
  BY DEF SimpleRoutes
<1>5. p \in Ways
  BY <1>3, <1>4 DEF Ways
<1>6. \A k \in 1..Len(p) : p[k] \in Vertices /\ CostsAlong(p)[k] \in Nat
  BY <1>1, <1>3, <1>5, CostsNatural
<1>7. ASSUME NEW k \in 1..(Len(p) - 1) PROVE ArcCost(doc, p[k], p[k + 1]) \in Nat
  <2>1. k \in 1..Len(p)
    BY <1>3
  <2> QED
    BY <1>4, <1>6, <2>1, Graph
<1> QED
  BY <1>3, <1>4, <1>5, <1>6, <1>7, CostsAt

\* When the goal is at the top of the queue no route to it is cheaper: the
\* first vertex of the route that is not settled waits in the queue.
LEMMA NoneIsCheaper ==
  ASSUME PlannerInv, searching, NEW q \in frontier, IsTop(q), q[2] = goal,
         q[1] <= dist[goal], NEW p \in SimpleRoutes(start, goal)
  PROVE  dist[goal] <= CostOf(p)
<1>1. /\ SearchTypes /\ QueueTrue /\ Relaxed /\ job \in Jobs /\ Loadable(doc)
  BY DEF PlannerInv, SearchTrue
<1> DEFINE n == Len(p)
           c == CostsAlong(p)
<1>2. /\ n \in Nat /\ n >= 1 /\ p[1] = start /\ p[n] = goal /\ c[1] = 0
      /\ \A k \in 1..n : c[k] \in Nat
      /\ \A k \in 1..(n - 1) :
           /\ p[k + 1] \in Neighbours(doc, p[k]) /\ ArcCost(doc, p[k], p[k + 1]) \in Nat
           /\ c[k + 1] = c[k] + ArcCost(doc, p[k], p[k + 1])
  BY <1>1, RoutesAreWays
<1>3. goal \in DOMAIN dist /\ dist[goal] \in Nat /\ q[1] = dist[goal]
  BY <1>1 DEF QueueTrue, SearchTypes
<1>4. ASSUME NEW v \in DOMAIN dist \ settled
      PROVE  dist[goal] <= dist[v]
  <2>1. <<dist[v], v>> \in frontier /\ dist[v] \in Nat
    BY <1>1 DEF QueueTrue, SearchTypes
  <2> DEFINE r == <<dist[v], v>>
  <2>2. q[1] < r[1] \/ q[1] = r[1]
    BY <2>1 DEF IsTop
  <2> QED
    BY <1>3, <2>1, <2>2
<1> DEFINE H == {k \in 1..n : \/ p[k] \in DOMAIN dist /\ dist[p[k]] <= c[k]
                             \/ dist[goal] <= c[k]}
<1> HIDE DEF n, c
<1>5. 1 \in H
  BY <1>1, <1>2 DEF SearchTypes
<1>6. ASSUME NEW k \in 1..(n - 1), k \in H
      PROVE  k + 1 \in H
  <2>1. /\ k \in 1..n /\ k + 1 \in 1..n /\ c[k] \in Nat /\ c[k + 1] \in Nat
        /\ ArcCost(doc, p[k], p[k + 1]) \in Nat
        /\ c[k + 1] = c[k] + ArcCost(doc, p[k], p[k + 1])
    BY <1>2
  <2>2. CASE dist[goal] <= c[k]
    <3>1. dist[goal] <= c[k + 1]
      BY <1>3, <2>1, <2>2
    <3> QED
      BY <2>1, <3>1
  <2>3. CASE p[k] \in DOMAIN dist \ settled /\ dist[p[k]] <= c[k]
    <3>1. dist[goal] <= dist[p[k]] /\ dist[p[k]] \in Nat
      BY <1>1, <1>4, <2>3 DEF SearchTypes
    <3>2. dist[goal] <= c[k + 1]
      BY <1>3, <2>1, <2>3, <3>1
    <3> QED
      BY <2>1, <3>2
  <2>4. CASE p[k] \in settled /\ dist[p[k]] <= c[k]
    <3>1. /\ p[k + 1] \in DOMAIN dist
          /\ dist[p[k + 1]] <= dist[p[k]] + ArcCost(doc, p[k], p[k + 1])
      BY <1>1, <1>2, <2>4 DEF Relaxed
    <3>2. dist[p[k]] \in Nat /\ dist[p[k + 1]] \in Nat
      BY <1>1, <2>4, <3>1 DEF SearchTypes
    <3>3. dist[p[k + 1]] <= c[k + 1]
      BY <2>1, <2>4, <3>1, <3>2
    <3> QED
      BY <2>1, <3>1, <3>3
  <2> QED
    BY <1>6, <2>2, <2>3, <2>4
<1>7. H = 1..n
  <2> HIDE DEF H
  <2>1. H \in SUBSET (1..n)
    BY DEF H
  <2> QED
    BY <1>2, <1>5, <1>6, <2>1, AllPlaces
<1>8. n \in H
  BY <1>2, <1>7
<1>9. dist[goal] <= c[n]
  BY <1>2, <1>8
<1> QED
  BY <1>9 DEF CostOf, n, c

\* When the queue is empty what is settled is closed under the arcs.
LEMMA NoneIsThere ==
  ASSUME PlannerInv, searching, frontier = {}
  PROVE  SimpleRoutes(start, goal) = {}
<1> SUFFICES ASSUME NEW p \in SimpleRoutes(start, goal) PROVE FALSE
  OBVIOUS
<1>1. /\ SearchTypes /\ QueueTrue /\ Relaxed /\ job \in Jobs /\ Loadable(doc)
  BY DEF PlannerInv, SearchTrue
<1>2. settled = DOMAIN dist
  BY <1>1 DEF QueueTrue, SearchTypes
<1> DEFINE n == Len(p)
           H == {k \in 1..n : p[k] \in settled}
<1>3. /\ n \in Nat /\ n >= 1 /\ p[1] = start /\ p[n] = goal
      /\ \A k \in 1..(n - 1) : p[k + 1] \in Neighbours(doc, p[k])
  BY <1>1, RoutesAreWays
<1> HIDE DEF n
<1>4. 1 \in H
  BY <1>1, <1>2, <1>3 DEF SearchTypes
<1>5. ASSUME NEW k \in 1..(n - 1), k \in H
      PROVE  k + 1 \in H
  <2>1. k + 1 \in 1..n
    BY <1>3
  <2> QED
    BY <1>1, <1>2, <1>3, <1>5, <2>1 DEF Relaxed
<1>6. H = 1..n
  <2> HIDE DEF H
  <2>1. H \in SUBSET (1..n)
    BY DEF H
  <2> QED
    BY <1>3, <1>4, <1>5, <2>1, AllPlaces
<1>7. goal \in settled
  BY <1>3, <1>6
<1> QED
  BY <1>1, <1>7 DEF SearchTypes

-----------------------------------------------------------------------------
(* The planner *)

\* All but the queue is as it was.
LEMMA RestStays ==
  ASSUME SearchTrue, UNCHANGED <<job, start, goal, dist, prev, settled>>
  PROVE  SearchTypes' /\ Relaxed' /\ Predecessors' /\ WaysKnown'
<1>1. SearchTypes /\ Relaxed /\ Predecessors /\ WaysKnown
  BY DEF SearchTrue
<1>2. /\ doc' = doc /\ Vertices' = Vertices
      /\ \A a, b : ArcCost(doc, a, b)' = ArcCost(doc, a, b)
      /\ \A a, b : EdgeBetween(doc, a, b)' = EdgeBetween(doc, a, b)
      /\ \A a : Neighbours(doc, a)' = Neighbours(doc, a)
  BY DEF doc, Vertices
<1>3. SearchTypes'
  BY <1>1, <1>2 DEF SearchTypes
<1>4. Relaxed'
  BY <1>1, <1>2 DEF Relaxed
<1>5. Predecessors'
  BY <1>1, <1>2 DEF Predecessors
<1>6. WaysKnown'
  <2>1. PICK way, trail : Guides(way, trail)
    BY <1>1 DEF WaysKnown
  <2>2. Ways' = Ways /\ \A w : CostOf(w)' = CostOf(w)
    BY <1>2 DEF Ways, CostOf, CostsAlong
  <2>3. \A w : Fresh(w)' = Fresh(w)
    BY DEF Fresh
  <2>4. Guides(way, trail)'
    BY <1>2, <2>1, <2>2, <2>3 DEF Guides
  <2> QED
    BY <2>4 DEF WaysKnown
<1> QED
  BY <1>3, <1>4, <1>5, <1>6

LEMMA SkipTrue ==
  ASSUME PlannerInv, SkipEntry
  PROVE  SearchTrue'
<1>1. SearchTrue /\ SearchTypes /\ QueueTrue
  BY DEF PlannerInv, SearchTrue, SkipEntry
<1>2. PICK q \in frontier :
        /\ q[2] \in settled \/ q[1] > dist[q[2]]
        /\ frontier' = frontier \ {q}
        /\ UNCHANGED <<job, start, goal, dist, prev, settled>>
  BY DEF SkipEntry
<1>3. QueueTrue'
  <2>1. ASSUME NEW v \in DOMAIN dist \ settled
        PROVE  <<dist[v], v>> \in frontier'
    <3>1. <<dist[v], v>> \in frontier /\ dist[v] \in Nat
      BY <1>1 DEF QueueTrue, SearchTypes
    <3>2. <<dist[v], v>> # q
      BY <1>2, <3>1
    <3> QED
      BY <1>2, <3>1, <3>2
  <2> QED
    BY <1>1, <1>2, <2>1 DEF QueueTrue
<1> QED
  BY <1>1, <1>2, <1>3, RestStays DEF SearchTrue

LEMMA SameSearch ==
  ASSUME SearchTrue, UNCHANGED <<job, start, goal, dist, prev, settled, frontier>>
  PROVE  SearchTrue'
<1>1. QueueTrue'
  BY DEF SearchTrue, QueueTrue
<1> QED
  BY <1>1, RestStays DEF SearchTrue

LEMMA PlanTrue ==
  ASSUME PlannerInv, job' = job, ~searching, NEW s, NEW g, Plan(s, g)
  PROVE  searching' => SearchTrue'
<1>1. ASSUME s # g, {s, g} \subseteq Vertices, searching' = TRUE,
             start' = s, goal' = g, dist' = [v \in {s} |-> 0], prev' = <<>>,
             settled' = {}, frontier' = {<<0, s>>}
      PROVE  SearchTrue'
  BY <1>1, OpenTrue DEF PlannerInv
<1>2. \/ ~searching'
      \/ /\ s # g /\ {s, g} \subseteq Vertices /\ searching' = TRUE
         /\ start' = s /\ goal' = g /\ dist' = [v \in {s} |-> 0] /\ prev' = <<>>
         /\ settled' = {} /\ frontier' = {<<0, s>>}
  BY DEF Plan, Fail
<1> QED
  BY <1>1, <1>2

LEMMA PlannerStep ==
  ASSUME PlannerInv, [Next]_vars
  PROVE  PlannerInv'
<1>1. job' = job
  BY DEF Next, PlannerNext, SlicerNext, RequestCallback, MalformedRequest,
         GoalRequestCallback, OdometryCallback, NextRequest, SkipEntry, SettleAndRelax,
         GoalSettled, NoPath, HearFailure, HearRoute, RefuseRoute, SliceSingleton,
         SliceEdge, PublishTasks, vars, plannerVars
<1>2. job' \in Jobs /\ Loadable(doc)'
  BY <1>1 DEF PlannerInv, doc
<1>3. CASE RequestCallback
  <2>1. ~searching /\ Plan(Request.start, Request.goal)
    BY <1>3 DEF RequestCallback, NextRequest
  <2> QED
    BY <1>1, <1>2, <2>1, PlanTrue DEF PlannerInv
<1>4. CASE GoalRequestCallback
  <2>1. /\ ~searching
        /\ \/ ~searching'
           \/ \E v : Plan(v, Request.goal)
    BY <1>4 DEF GoalRequestCallback, NextRequest, Fail
  <2> QED
    BY <1>1, <1>2, <2>1, PlanTrue DEF PlannerInv
<1>5. CASE MalformedRequest \/ OdometryCallback \/ GoalSettled \/ NoPath
  <2>1. ~searching'
    BY <1>5 DEF MalformedRequest, OdometryCallback, GoalSettled, NoPath, Fail
  <2> QED
    BY <1>2, <2>1 DEF PlannerInv
<1>6. CASE SkipEntry
  BY <1>2, <1>6, SkipTrue DEF PlannerInv
<1>7. CASE \E u \in Vertices : SettleAndRelax(u)
  BY <1>2, <1>7, RelaxTrue DEF PlannerInv
<1>8. CASE UNCHANGED plannerVars
  <2>1. /\ searching' = searching
        /\ UNCHANGED <<job, start, goal, dist, prev, settled, frontier>>
    BY <1>8 DEF plannerVars
  <2> QED
    BY <1>2, <2>1, SameSearch DEF PlannerInv
<1>9. SlicerNext \/ UNCHANGED vars => UNCHANGED plannerVars
  BY DEF SlicerNext, HearFailure, HearRoute, RefuseRoute, SliceSingleton,
         SliceEdge, PublishTasks, vars
<1> QED
  BY <1>3, <1>4, <1>5, <1>6, <1>7, <1>8, <1>9 DEF Next, PlannerNext

(* The queue, the distances and the predecessors of a search are true of     *)
(* the graph at every step, whatever requests came before it.                *)
THEOREM SearchCorrect == Spec => []PlannerInv
<1>1. Init => PlannerInv
  BY DEF Init, PlannerInit, PlannerInv, doc
<1>2. PlannerInv /\ [Next]_vars => PlannerInv'
  BY PlannerStep
<1> QED
  BY <1>1, <1>2, PTL DEF Spec

\* What PlanIsShortest asks of the new status.
IsAnswer(s) ==
  LET routes == IF {s.start, s.goal} \subseteq Vertices
                THEN SimpleRoutes(s.start, s.goal) ELSE {}
  IN  IF s.success
      THEN /\ IsRouteOf(s)
           /\ s.cost = CostOf(s.vertices)
           /\ \A p \in routes : s.cost <= CostOf(p)
      ELSE routes = {}

\* The fields of a failure, and of a success made of it.
LEMMA FailureIs ==
  ASSUME NEW s, NEW g
  PROVE  LET a == Failure(s, g)
         IN  a.success = FALSE /\ a.start = s /\ a.goal = g
BY DEF Failure, NoStatus

LEMMA SameVertexIs ==
  ASSUME NEW s, NEW g, NEW vs
  PROVE  LET a == [Failure(s, g) EXCEPT !.success = TRUE, !.vertices = vs]
         IN  /\ a.success = TRUE /\ a.start = s /\ a.goal = g
             /\ a.vertices = vs /\ a.edges = <<>> /\ a.cost = 0
BY DEF Failure, NoStatus

LEMMA SuccessIs ==
  ASSUME NEW s, NEW g, NEW vs, NEW es, NEW c
  PROVE  LET a == [Failure(s, g) EXCEPT
                     !.success = TRUE, !.vertices = vs, !.edges = es, !.cost = c]
         IN  /\ a.success = TRUE /\ a.start = s /\ a.goal = g
             /\ a.vertices = vs /\ a.edges = es /\ a.cost = c
BY DEF Failure, NoStatus

LEMMA RefusalAnswers ==
  ASSUME NEW s, NEW g, Fail(s, g),
         {s, g} \subseteq Vertices => SimpleRoutes(s, g) = {}
  PROVE  IsAnswer(status')
<1> DEFINE a == Failure(s, g)
<1>1. status' = a
  BY DEF Fail
<1>2. a.success = FALSE /\ a.start = s /\ a.goal = g
  BY FailureIs
<1> HIDE DEF a
<1>3. IsAnswer(a)
  BY <1>2 DEF IsAnswer
<1> QED
  BY <1>1, <1>3

LEMMA PlanAnswers ==
  ASSUME PlannerInv, NEW s, NEW g, Plan(s, g), status' # status
  PROVE  IsAnswer(status')
<1>1. CASE ~ ({s, g} \subseteq Vertices) /\ Fail(s, g)
  BY <1>1, RefusalAnswers
<1>2. CASE /\ s = g /\ s \in Vertices
           /\ status' = [Failure(s, g) EXCEPT !.success = TRUE, !.vertices = <<s>>]
  <2> DEFINE vs == <<s>>
             a == [Failure(s, g) EXCEPT !.success = TRUE, !.vertices = vs]
  <2>1. status' = a
    BY <1>2
  <2>2. /\ vs[1] = s /\ Len(vs) = 1 /\ Last(vs) = s /\ CostOf(vs) = 0
        /\ Len(<<>>) = 0 /\ \A i \in DOMAIN <<>> : FALSE
    BY <1>2, OneVertexWay DEF Last
  <2> HIDE DEF vs
  <2>3. /\ a.start = s /\ a.goal = g /\ a.success = TRUE /\ a.vertices = vs
        /\ a.edges = <<>> /\ a.cost = 0
    BY SameVertexIs
  <2> HIDE DEF a
  <2>4. IsRouteOf(a)
    BY <1>2, <2>2, <2>3 DEF IsRouteOf
  <2>5. ASSUME NEW p \in SimpleRoutes(s, g) PROVE a.cost <= CostOf(p)
    <3>1. CostsAlong(p)[Len(p)] \in Nat
      BY RoutesAreWays DEF PlannerInv
    <3> QED
      BY <2>3, <3>1 DEF CostOf
  <2>6. IsAnswer(a)
    BY <1>2, <2>2, <2>3, <2>4, <2>5 DEF IsAnswer
  <2> QED
    BY <2>1, <2>6
<1> QED
  BY <1>1, <1>2 DEF Plan

LEMMA GoalAnswers ==
  ASSUME PlannerInv, GoalSettled
  PROVE  IsAnswer(status')
<1>1. /\ searching /\ SearchTrue /\ SearchTypes /\ QueueTrue /\ WaysKnown
      /\ job \in Jobs /\ Loadable(doc)
  BY DEF PlannerInv, SearchTrue, GoalSettled
<1>2. PICK q \in frontier : IsTop(q) /\ q[2] = goal /\ q[1] <= dist[goal]
  BY DEF GoalSettled
<1>3. PICK way, trail : Guides(way, trail)
  BY <1>1 DEF WaysKnown
<1> DEFINE w == way[goal]
           t == trail[goal]
<1>4. goal \in DOMAIN dist
  BY <1>1, <1>2 DEF QueueTrue
<1>5. VertexChain[goal] = w /\ EdgeChain[goal] = t
  BY <1>1, <1>3, <1>4, ChainsAreWays
<1>6. /\ w \in Ways /\ w[1] = start /\ w[Len(w)] = goal /\ CostOf(w) = dist[goal]
      /\ t \in Seq(DOMAIN doc.edges) /\ Len(t) = Len(w) - 1
      /\ \A i \in 1..Len(t) : t[i] = EdgeBetween(doc, w[i], w[i + 1])
  BY <1>3, <1>4 DEF Guides
<1> HIDE DEF w, t
<1> DEFINE a == [Failure(start, goal) EXCEPT
                   !.success = TRUE, !.vertices = VertexChain[goal],
                   !.edges = EdgeChain[goal], !.cost = dist[goal]]
<1>7. /\ a.start = start /\ a.goal = goal /\ a.success = TRUE /\ a.vertices = w
      /\ a.edges = t /\ a.cost = dist[goal]
  <2>1. /\ a.start = start /\ a.goal = goal /\ a.success = TRUE
        /\ a.vertices = VertexChain[goal] /\ a.edges = EdgeChain[goal] /\ a.cost = dist[goal]
    BY SuccessIs
  <2> HIDE DEF a
  <2> QED
    BY <1>5, <2>1
<1>8. status' = a
  BY DEF GoalSettled
<1> HIDE DEF a
<1>9. IsRouteOf(a)
  <2>1. /\ w \in Seq(Vertices) /\ Len(w) \in Nat /\ Len(w) >= 1 /\ Last(w) = goal
        /\ \A i \in 1..(Len(w) - 1) : w[i + 1] \in Neighbours(doc, w[i])
    BY <1>6 DEF Ways, Last
  <2>2. ASSUME NEW i \in DOMAIN t
        PROVE  ValidateTraversal(doc.edges[t[i]], w[i], w[i + 1])
    <3>1. i \in 1..Len(t) /\ i \in 1..(Len(w) - 1) /\ i \in 1..Len(w)
      BY <1>6, <2>1
    <3>2. w[i] \in Vertices /\ w[i + 1] \in Neighbours(doc, w[i])
      BY <2>1, <3>1
    <3>3. Arc(doc, w[i], t[i], w[i + 1])
      BY <1>1, <1>6, <3>1, <3>2, Graph
    <3> QED
      BY <3>3 DEF Arc, ValidateTraversal
  <2> QED
    BY <1>6, <1>7, <2>1, <2>2 DEF IsRouteOf
<1>10. ASSUME NEW p \in SimpleRoutes(start, goal) PROVE a.cost <= CostOf(p)
  BY <1>1, <1>2, <1>7, NoneIsCheaper
<1>11. IsAnswer(a)
  BY <1>6, <1>7, <1>9, <1>10 DEF IsAnswer
<1> QED
  BY <1>8, <1>11

LEMMA AnswerStep ==
  ASSUME PlannerInv, [Next]_vars, status' # status
  PROVE  IsAnswer(status')
<1>1. ~ UNCHANGED plannerVars
  BY DEF plannerVars
<1>2. SlicerNext \/ UNCHANGED vars => UNCHANGED plannerVars
  BY DEF SlicerNext, HearFailure, HearRoute, RefuseRoute, SliceSingleton,
         SliceEdge, PublishTasks, vars
<1>3. PlannerNext
  BY <1>1, <1>2 DEF Next
<1>4. CASE RequestCallback
  BY <1>4, PlanAnswers DEF RequestCallback
<1>5. 0 \notin Vertices
  BY Graph DEF PlannerInv
<1>6. CASE MalformedRequest
  <2>1. Fail(0, 0)
    BY <1>6 DEF MalformedRequest
  <2> QED
    BY <1>5, <2>1, RefusalAnswers
<1>7. CASE GoalRequestCallback
  <2>1. Fail(0, Request.goal) \/ \E v : Plan(v, Request.goal)
    BY <1>7 DEF GoalRequestCallback
  <2>2. CASE Fail(0, Request.goal)
    BY <1>5, <2>2, RefusalAnswers
  <2> QED
    BY <2>1, <2>2, PlanAnswers
<1>8. CASE NoPath
  <2>1. searching /\ frontier = {} /\ Fail(start, goal)
    BY <1>8 DEF NoPath
  <2>2. SimpleRoutes(start, goal) = {}
    BY <2>1, NoneIsThere
  <2> QED
    BY <2>1, <2>2, RefusalAnswers
<1>9. CASE GoalSettled
  BY <1>9, GoalAnswers
<1>10. OdometryCallback \/ SkipEntry \/ (\E u \in Vertices : SettleAndRelax(u))
         => status' = status
  BY DEF OdometryCallback, SkipEntry, SettleAndRelax
<1> QED
  BY <1>3, <1>4, <1>6, <1>7, <1>8, <1>9, <1>10 DEF PlannerNext

(* Dijkstra's search as this node does it, with its stale entries and its    *)
(* early end, is right on every graph the loader lets through: the plan it   *)
(* publishes is a route, costs what it says and no route is cheaper; and     *)
(* where it fails there is none.                                             *)
THEOREM ShortestCorrect == Spec => PlanIsShortest
<1>1. ASSUME PlannerInv, [Next]_vars
      PROVE  [status' # status => IsAnswer(status')]_vars
  BY <1>1, AnswerStep
<1>2. [status' # status => IsAnswer(status')]_vars =>
        [status' # status =>
           LET s == status'
               routes == IF {s.start, s.goal} \subseteq Vertices
                         THEN SimpleRoutes(s.start, s.goal) ELSE {}
           IN  IF s.success
               THEN /\ IsRouteOf(s)
                    /\ s.cost = CostOf(s.vertices)
                    /\ \A p \in routes : s.cost <= CostOf(p)
               ELSE routes = {}]_vars
  BY DEF IsAnswer
<1> QED
  BY <1>1, <1>2, SearchCorrect, PTL DEF Spec, PlanIsShortest

-----------------------------------------------------------------------------
(* The slicer: sequences joined end to end *)

\* What the recursion of FlattenSeq(s) asks of a function on 1..n.
Joins(f, s, n) == f = [i \in 1..n |-> IF i = 1 THEN s[i] ELSE f[i - 1] \o s[i]]

\* There is a function as the recursion asks for.
LEMMA JoinsExist ==
  ASSUME NEW s, NEW n \in Nat
  PROVE  \E f : Joins(f, s, n)
<1> DEFINE H == {k \in 1..n : \E f : Joins(f, s, k)}
<1>1. 1 \in 1..n => 1 \in H
  <2> DEFINE f == [k \in 1..1 |-> s[1]]
  <2>1. Joins(f, s, 1)
    BY DEF Joins
  <2> QED
    BY <2>1
<1>2. ASSUME NEW k \in 1..(n - 1), k \in H
      PROVE  k + 1 \in H
  <2>1. PICK f : Joins(f, s, k)
    BY <1>2
  <2> DEFINE g == [l \in 1..(k + 1) |-> IF l = k + 1 THEN f[k] \o s[k + 1] ELSE f[l]]
  <2>2. Joins(g, s, k + 1)
    <3> DEFINE h == [l \in 1..(k + 1) |-> IF l = 1 THEN s[l] ELSE g[l - 1] \o s[l]]
    <3>1. ASSUME NEW l \in 1..(k + 1) PROVE g[l] = h[l]
      <4>1. CASE l = k + 1
        <5>1. l - 1 = k /\ k \in 1..(k + 1) /\ k # k + 1 /\ l # 1
          BY <4>1
        <5>2. h[l] = g[k] \o s[k + 1]
          BY <4>1, <5>1
        <5>3. g[k] = f[k] /\ g[l] = f[k] \o s[k + 1]
          BY <4>1, <5>1
        <5> QED
          BY <5>2, <5>3
      <4>2. CASE l # k + 1
        <5>1. l \in 1..k /\ g[l] = f[l]
          BY <4>2
        <5>2. f[l] = IF l = 1 THEN s[l] ELSE f[l - 1] \o s[l]
          BY <2>1, <5>1 DEF Joins
        <5>3. l # 1 => l - 1 \in 1..(k + 1) /\ l - 1 # k + 1
          BY <5>1
        <5>4. l # 1 => g[l - 1] = f[l - 1]
          BY <5>3
        <5> QED
          BY <5>1, <5>2, <5>4
      <4> QED
        BY <4>1, <4>2
    <3>2. g = h
      BY <3>1
    <3> QED
      BY <3>2 DEF Joins
  <2>3. k + 1 \in 1..n
    OBVIOUS
  <2> QED
    BY <2>2, <2>3
<1> HIDE DEF H
<1>3. H = 1..n
  <2>1. H \in SUBSET (1..n)
    BY DEF H
  <2> QED
    BY <1>1, <1>2, <2>1, AllPlaces
<1>4. CASE n = 0
  <2> DEFINE f == [k \in 1..0 |-> s]
  <2>1. Joins(f, s, 0)
    BY DEF Joins
  <2> QED
    BY <1>4, <2>1
<1>5. CASE n # 0
  <2>1. n \in H
    BY <1>3, <1>5
  <2> QED
    BY <2>1 DEF H
<1> QED
  BY <1>4, <1>5

\* FlattenSeq(s) comes about one sequence of s after the other.
LEMMA FlattenIs ==
  ASSUME NEW s, Len(s) \in Nat, Len(s) >= 1
  PROVE  \E f : /\ f[1] = s[1] /\ f[Len(s)] = FlattenSeq(s)
                /\ \A k \in 1..(Len(s) - 1) : f[k + 1] = f[k] \o s[k + 1]
<1> DEFINE n == Len(s)
           f == CHOOSE g : Joins(g, s, n)
<1>1. Joins(f, s, n)
  <2>1. \E g : Joins(g, s, n)
    BY JoinsExist
  <2> QED
    BY <2>1
<1>2. FlattenSeq(s) = f[n]
  BY DEF FlattenSeq, Joins
<1> HIDE DEF f
<1>3. \A i \in 1..n : f[i] = IF i = 1 THEN s[i] ELSE f[i - 1] \o s[i]
  BY <1>1 DEF Joins
<1>4. f[1] = s[1]
  BY <1>3
<1>5. ASSUME NEW k \in 1..(n - 1)
      PROVE  f[k + 1] = f[k] \o s[k + 1]
  <2>1. k + 1 \in 1..n /\ k + 1 # 1 /\ (k + 1) - 1 = k
    OBVIOUS
  <2> QED
    BY <1>3, <2>1
<1> QED
  BY <1>2, <1>4, <1>5

-----------------------------------------------------------------------------
(* The slicer: what the tasks drive *)

\* A plan that succeeded: a route that visits no vertex and takes no edge twice.
PlanTold(s) ==
  /\ s.vertices \in Seq(Vertices) /\ s.edges \in Seq(DOMAIN doc.edges)
  /\ Len(s.vertices) = Len(s.edges) + 1
  /\ s.vertices[1] = s.start /\ s.vertices[Len(s.vertices)] = s.goal
  /\ \A i, j \in 1..Len(s.edges) : s.edges[i] = s.edges[j] => i = j

Legs == Len(route.edges)

\* A place is a number of edges driven; this is the vertex reached.
PlaceAt(a) == route.vertices[a + 1]
AsksHeading(a) == doc.vertices[PlaceAt(a)].yaw

TaskFields == {"mode", "attributes", "waypoints", "edges", "slope", "alignLast"}

\* A task that drives the route from place a to place b, in one piece.
Drives(t, a, b) ==
  /\ DOMAIN t = TaskFields
  /\ b \in 0..Legs /\ a \in 0..b
  /\ t.edges \in Seq(DOMAIN doc.edges) /\ Len(t.edges) = b - a
  /\ \A j \in 1..(b - a) : t.edges[j] = route.edges[a + j]
  /\ t.waypoints \in Seq(Vertices) /\ Len(t.waypoints) >= 1
  /\ t.waypoints[1] = PlaceAt(a) /\ t.waypoints[Len(t.waypoints)] = PlaceAt(b)
  /\ \A i \in (a + 1)..(b - 1) : ~ MustCut(i)

\* Tasks that drive the route from its start to place e, cut where they must be.
Cutting(list, at, T, e) ==
  /\ list \in Seq(T) /\ at \in Seq(0..Legs) /\ Len(at) = Len(list) + 1
  /\ at[1] = 0 /\ at[Len(at)] = e
  /\ \A k \in 1..Len(list) : Drives(list[k], at[k], at[k + 1])
  /\ \A k \in 2..Len(list) : at[k] >= 1 /\ (at[k] < Legs => MustCut(at[k]))

\* Tasks as the loop makes them: each drives an edge and knows if it turns.
AsBuilt(list, at) ==
  \A k \in 1..Len(list) : at[k] < at[k + 1] /\ list[k].alignLast = AsksHeading(at[k + 1])

\* A task more.
LEMMA CuttingGoesOn ==
  ASSUME NEW list, NEW at, NEW T, NEW e, Cutting(list, at, T, e),
         NEW t, NEW b, Drives(t, e, b),
         Len(list) >= 1 => e >= 1 /\ (e < Legs => MustCut(e))
  PROVE  Cutting(Append(list, t), Append(at, b), T \cup {t}, b)
<1> DEFINE n == Len(list)
           new == Append(list, t)
           to == Append(at, b)
<1>1. list \in Seq(T \cup {t}) /\ at \in Seq(0..Legs) /\ b \in 0..Legs
  <2>1. list \in Seq(T)
    BY DEF Cutting
  <2>2. list \in Seq(T \cup {t})
    BY <2>1, SeqMonotonic
  <2> QED
    BY <2>2 DEF Cutting, Drives
<1>2. n \in Nat /\ Len(at) = n + 1 /\ at[1] = 0 /\ at[n + 1] = e
  BY DEF Cutting
<1>3. /\ new \in Seq(T \cup {t}) /\ Len(new) = n + 1 /\ new[n + 1] = t
      /\ \A k \in 1..n : new[k] = list[k]
  BY <1>1, <1>2
<1>4. /\ to \in Seq(0..Legs) /\ Len(to) = n + 2 /\ to[n + 2] = b
      /\ \A k \in 1..(n + 1) : to[k] = at[k]
  BY <1>1, <1>2
<1> HIDE DEF new, to
<1>5. ASSUME NEW k \in 1..(n + 1) PROVE Drives(new[k], to[k], to[k + 1])
  <2>1. CASE k = n + 1
    <3>1. to[k] = e /\ to[k + 1] = b /\ new[k] = t
      BY <1>2, <1>3, <1>4, <2>1
    <3> QED
      BY <3>1
  <2>2. CASE k # n + 1
    <3>1. k \in 1..n /\ k \in 1..(n + 1) /\ k + 1 \in 1..(n + 1)
      BY <1>2, <2>2
    <3>2. new[k] = list[k] /\ to[k] = at[k] /\ to[k + 1] = at[k + 1]
      BY <1>3, <1>4, <3>1
    <3> QED
      BY <3>1, <3>2 DEF Cutting
  <2> QED
    BY <2>1, <2>2
<1>6. ASSUME NEW k \in 2..(n + 1) PROVE to[k] >= 1 /\ (to[k] < Legs => MustCut(to[k]))
  <2>1. CASE k = n + 1
    <3>1. n >= 1 /\ to[k] = e
      BY <1>2, <1>4, <2>1
    <3> QED
      BY <3>1
  <2>2. CASE k # n + 1
    <3>1. k \in 2..n /\ k \in 1..(n + 1)
      BY <1>2, <2>2
    <3>2. to[k] = at[k]
      BY <1>4, <3>1
    <3> QED
      BY <3>1, <3>2 DEF Cutting
  <2> QED
    BY <2>1, <2>2
<1>7. Cutting(new, to, T \cup {t}, b)
  <2>1. /\ Len(to) = Len(new) + 1 /\ to[1] = 0 /\ to[Len(to)] = b
        /\ 1..Len(new) = 1..(n + 1) /\ 2..Len(new) = 2..(n + 1)
    BY <1>2, <1>3, <1>4
  <2> QED
    BY <1>3, <1>4, <1>5, <1>6, <2>1 DEF Cutting
<1> QED
  BY <1>7 DEF new, to

\* The tasks and places of a cutting are sequences, to whatever set one more belongs.
LEMMA CuttingIs ==
  ASSUME NEW list, NEW at, NEW T, NEW e, Cutting(list, at, T, e), NEW t, NEW b
  PROVE  /\ list \in Seq(T \cup {t}) /\ at \in Seq((0..Legs) \cup {b})
         /\ Len(list) \in Nat /\ Len(at) = Len(list) + 1
<1>1. list \in Seq(T) /\ at \in Seq(0..Legs) /\ Len(at) = Len(list) + 1
  BY DEF Cutting
<1>2. list \in Seq(T \cup {t}) /\ at \in Seq((0..Legs) \cup {b})
  BY <1>1, SeqMonotonic
<1> QED
  BY <1>1, <1>2

-----------------------------------------------------------------------------
(* The slicer: the alignments *)

\* A task of PID that ends at place b and turns to its heading there.
Turns(t, b) ==
  t.attributes.controller = "pid" /\ t.alignLast /\ t.waypoints[Len(t.waypoints)] = PlaceAt(b)

HeadingsServed(list, at) ==
  \A k \in 1..Len(list) :
    AsksHeading(at[k + 1]) => \E l \in 1..Len(list) : Turns(list[l], at[k + 1])

\* The list with its alignments so far; the goal is served by its last task.
Aligned(list, at, T, e) ==
  /\ Cutting(list, at, T, e) /\ HeadingsServed(list, at)
  /\ e = Legs /\ Len(list) >= 1 => list[Len(list)].attributes.controller = "pid"

LEMMA AlignmentDrives ==
  ASSUME PlanTold(route), NEW b \in 0..Legs
  PROVE  Drives(AlignmentTask(PlaceAt(b)), b, b)
<1> DEFINE v == PlaceAt(b)
           t == AlignmentTask(v)
<1>1. v \in Vertices
  BY DEF PlanTold, Legs, PlaceAt
<1> HIDE DEF v
<1>2. DOMAIN t = TaskFields /\ t.edges = <<>> /\ t.waypoints = <<v>>
  BY DEF AlignmentTask, TaskFields
<1>3. <<v>> \in Seq(Vertices) /\ Len(<<v>>) = 1 /\ <<v>>[1] = v
  BY <1>1
<1>4. <<>> \in Seq(DOMAIN doc.edges) /\ Len(<<>>) = 0
  OBVIOUS
<1>5. b - b = 0 /\ 1..(b - b) = {} /\ (b + 1)..(b - 1) = {} /\ b \in 0..b
  OBVIOUS
<1> HIDE DEF t
<1>6. Drives(t, b, b)
  BY <1>2, <1>3, <1>4, <1>5 DEF Drives, v
<1> QED
  BY <1>6 DEF t, v

\* What WithAlignment makes of a task.
LEMMA WithAlignmentIs ==
  ASSUME PlanTold(route), NEW t, NEW a, NEW b, Drives(t, a, b)
  PROVE  LET v == PlaceAt(b)
             u == [t EXCEPT !.alignLast = FALSE]
         IN  IF /\ t.attributes.controller # "pid"
                /\ v = route.goal \/ AsksHeading(b)
             THEN WithAlignment(t) = <<u, AlignmentTask(v)>> /\ Drives(u, a, b)
             ELSE WithAlignment(t) = <<t>>
<1> DEFINE v == PlaceAt(b)
           u == [t EXCEPT !.alignLast = FALSE]
<1>1. Last(t.waypoints) = v
  BY DEF Last, Drives
<1>2. /\ DOMAIN u = TaskFields /\ u.edges = t.edges /\ u.waypoints = t.waypoints
  BY DEF Drives, TaskFields
<1>3. Drives(u, a, b)
  BY <1>2 DEF Drives
<1> HIDE DEF u, v
<1>4. WithAlignment(t) = IF /\ t.attributes.controller # "pid"
                            /\ v = route.goal \/ doc.vertices[v].yaw
                         THEN <<u, AlignmentTask(v)>> ELSE <<t>>
  BY <1>1 DEF WithAlignment, u
<1>5. AsksHeading(b) = doc.vertices[v].yaw
  BY DEF AsksHeading, v
<1> QED
  BY <1>3, <1>4, <1>5 DEF u, v

LEMMA AlignedGoesOn ==
  ASSUME PlanTold(route), NEW list, NEW at, NEW T, NEW e, Aligned(list, at, T, e),
         NEW t, NEW b, Drives(t, e, b), t.alignLast = AsksHeading(b),
         Len(list) >= 1 => e >= 1 /\ (e < Legs => MustCut(e)),
         b >= 1, b < Legs => MustCut(b)
  PROVE  \E at1, T1 : /\ Aligned(list \o WithAlignment(t), at1, T1, b)
                      /\ Len(list \o WithAlignment(t)) >= 1
<1> DEFINE n == Len(list)
           v == PlaceAt(b)
           u == [t EXCEPT !.alignLast = FALSE]
           c == AlignmentTask(v)
<1>1. Cutting(list, at, T, e) /\ HeadingsServed(list, at) /\ list \in Seq(T) /\ n \in Nat
  BY DEF Aligned, Cutting
<1>2. b \in 0..Legs /\ v = route.vertices[b + 1] /\ t.waypoints[Len(t.waypoints)] = v
  BY DEF Drives, PlaceAt
<1>3. b = Legs => v = route.goal
  BY <1>2 DEF PlanTold, Legs
<1>4. CASE ~(t.attributes.controller # "pid" /\ (v = route.goal \/ AsksHeading(b)))
  <2>0. PICK new, to : new = Append(list, t) /\ to = Append(at, b)
    OBVIOUS
  <2>1. WithAlignment(t) = <<t>>
    BY <1>4, WithAlignmentIs
  <2>2. list \o WithAlignment(t) = new
    BY <1>1, <2>0, <2>1
  <2>cuts. Cutting(new, to, T \cup {t}, b)
    BY <1>1, <2>0, CuttingGoesOn
  <2>lengths. /\ list \in Seq(T \cup {t}) /\ at \in Seq((0..Legs) \cup {b})
        /\ n \in Nat /\ Len(at) = n + 1
    BY <1>1, CuttingIs
  <2>3. /\ Cutting(new, to, T \cup {t}, b) /\ Len(new) = n + 1
        /\ new[n + 1] = t /\ \A k \in 1..n : new[k] = list[k]
        /\ to[n + 2] = b /\ \A k \in 1..(n + 1) : to[k] = at[k]
    BY <2>0, <2>cuts, <2>lengths
  <2>4. ASSUME NEW k \in 1..(n + 1), AsksHeading(to[k + 1])
        PROVE  \E l \in 1..(n + 1) : Turns(new[l], to[k + 1])
    <3>1. CASE k = n + 1
      <4>1. to[k + 1] = b /\ new[n + 1] = t /\ n + 1 \in 1..(n + 1)
        BY <1>1, <2>3, <3>1
      <4>2. t.attributes.controller = "pid" /\ t.alignLast
        BY <1>4, <2>4, <4>1
      <4>3. Turns(t, b)
        BY <1>2, <4>2 DEF Turns
      <4> QED
        BY <4>1, <4>3
    <3>2. CASE k # n + 1
      <4>1. k \in 1..n /\ k + 1 \in 1..(n + 1)
        BY <1>1, <3>2
      <4>2. to[k + 1] = at[k + 1]
        BY <2>3, <4>1
      <4>3. PICK l \in 1..n : Turns(list[l], at[k + 1])
        BY <1>1, <2>4, <4>1, <4>2 DEF HeadingsServed
      <4>4. l \in 1..(n + 1) /\ new[l] = list[l]
        BY <1>1, <2>3, <4>3
      <4> QED
        BY <4>2, <4>3, <4>4
    <3> QED
      BY <3>1, <3>2
  <2>5. HeadingsServed(new, to)
    BY <2>3, <2>4 DEF HeadingsServed
  <2>6. b = Legs => new[Len(new)].attributes.controller = "pid"
    BY <1>3, <1>4, <2>3
  <2>7. Aligned(new, to, T \cup {t}, b) /\ Len(new) >= 1
    BY <1>1, <2>3, <2>5, <2>6 DEF Aligned
  <2> QED
    BY <2>2, <2>7
<1>5. CASE t.attributes.controller # "pid" /\ (v = route.goal \/ AsksHeading(b))
  <2>0. PICK mid, via, new, to :
          /\ mid = Append(list, u) /\ via = Append(at, b)
          /\ new = Append(mid, c) /\ to = Append(via, b)
    OBVIOUS
  <2>1. WithAlignment(t) = <<u, c>> /\ Drives(u, e, b)
    BY <1>5, WithAlignmentIs
  <2>2. Drives(c, b, b)
    BY <1>2, AlignmentDrives
  <2>3. /\ c.attributes.controller = "pid" /\ c.waypoints = <<v>>
        /\ c.alignLast = AsksHeading(b)
    BY DEF AlignmentTask, AsksHeading
  <2> HIDE DEF u, c
  <2>4. list \o WithAlignment(t) = new
    <3>1. list \in Seq(T \cup {u, c}) /\ u \in T \cup {u, c} /\ c \in T \cup {u, c}
      BY <1>1, SeqMonotonic
    <3> QED
      BY <2>0, <2>1, <3>1
  <2>cuts. Cutting(mid, via, T \cup {u}, b)
    BY <1>1, <2>0, <2>1, CuttingGoesOn
  <2>lengths. /\ list \in Seq(T \cup {u}) /\ at \in Seq((0..Legs) \cup {b})
        /\ n \in Nat /\ Len(at) = n + 1
    BY <1>1, CuttingIs
  <2>5. /\ Cutting(mid, via, T \cup {u}, b) /\ Len(mid) = n + 1
        /\ mid[n + 1] = u /\ \A k \in 1..n : mid[k] = list[k]
        /\ via[n + 2] = b /\ \A k \in 1..(n + 1) : via[k] = at[k]
    BY <2>0, <2>cuts, <2>lengths
  <2>cutsMore. Cutting(new, to, (T \cup {u}) \cup {c}, b)
    BY <2>0, <2>2, <2>5, CuttingGoesOn
  <2>lengthsMore. /\ mid \in Seq((T \cup {u}) \cup {c}) /\ via \in Seq((0..Legs) \cup {b})
        /\ Len(mid) \in Nat /\ Len(via) = Len(mid) + 1
    BY <2>cuts, CuttingIs
  <2>6. /\ Cutting(new, to, (T \cup {u}) \cup {c}, b) /\ Len(new) = n + 2
        /\ new[n + 2] = c /\ \A k \in 1..(n + 1) : new[k] = mid[k]
        /\ to[n + 3] = b /\ \A k \in 1..(n + 2) : to[k] = via[k]
    <3>1. /\ Len(mid) \in Nat /\ Len(new) = Len(mid) + 1 /\ new[Len(mid) + 1] = c
          /\ \A k \in 1..Len(mid) : new[k] = mid[k]
          /\ to[Len(mid) + 2] = b /\ \A k \in 1..(Len(mid) + 1) : to[k] = via[k]
          /\ Cutting(new, to, (T \cup {u}) \cup {c}, b)
      BY <2>0, <2>cutsMore, <2>lengthsMore
    <3>2. (n + 1) + 1 = n + 2 /\ (n + 1) + 2 = n + 3
      BY <1>1
    <3> QED
      BY <2>5, <3>1, <3>2
  <2>7. ASSUME NEW k \in 1..(n + 2), AsksHeading(to[k + 1])
        PROVE  \E l \in 1..(n + 2) : Turns(new[l], to[k + 1])
    <3>1. CASE k = n + 1 \/ k = n + 2
      <4>1. to[k + 1] = b /\ new[n + 2] = c /\ n + 2 \in 1..(n + 2)
        <5>1. n + 2 \in 1..(n + 2) /\ (k + 1 = n + 2 \/ k + 1 = n + 3)
          BY <1>1, <3>1
        <5> QED
          BY <2>5, <2>6, <5>1
      <4>2. c.alignLast
        BY <2>3, <2>7, <4>1
      <4>3. <<v>>[Len(<<v>>)] = v
        OBVIOUS
      <4>4. Turns(c, b)
        BY <2>3, <4>2, <4>3 DEF Turns
      <4> QED
        BY <4>1, <4>4
    <3>2. CASE k # n + 1 /\ k # n + 2
      <4>1. k \in 1..n /\ k + 1 \in 1..(n + 1) /\ k + 1 \in 1..(n + 2)
        BY <1>1, <3>2
      <4>2. to[k + 1] = at[k + 1]
        BY <2>5, <2>6, <4>1
      <4>3. PICK l \in 1..n : Turns(list[l], at[k + 1])
        BY <1>1, <2>7, <4>1, <4>2 DEF HeadingsServed
      <4>4. l \in 1..(n + 2) /\ l \in 1..(n + 1) /\ new[l] = list[l]
        <5>1. l \in 1..(n + 2) /\ l \in 1..(n + 1)
          BY <1>1, <4>3
        <5> QED
          BY <2>5, <2>6, <4>3, <5>1
      <4> QED
        BY <4>2, <4>3, <4>4
    <3> QED
      BY <3>1, <3>2
  <2>8. HeadingsServed(new, to)
    BY <2>6, <2>7 DEF HeadingsServed
  <2>9. new[Len(new)].attributes.controller = "pid"
    BY <2>3, <2>6
  <2>10. Aligned(new, to, (T \cup {u}) \cup {c}, b) /\ Len(new) >= 1
    BY <1>1, <2>6, <2>8, <2>9 DEF Aligned
  <2> QED
    BY <2>4, <2>10
<1> QED
  BY <1>4, <1>5

\* The list with the alignments drives the same places.
LEMMA ExpandAligns ==
  ASSUME PlanTold(route), NEW list, NEW at, NEW T, Cutting(list, at, T, Legs), AsBuilt(list, at),
         Len(list) >= 1
  PROVE  \E at1, T1 : Aligned(Expand(list), at1, T1, Legs) /\ Len(Expand(list)) >= 1
<1> DEFINE n == Len(list)
           s == [k \in DOMAIN list |-> WithAlignment(list[k])]
<1>1. /\ n \in Nat /\ n >= 1 /\ list \in Seq(T) /\ at \in Seq(0..Legs) /\ Len(at) = n + 1
      /\ at[1] = 0 /\ at[n + 1] = Legs
      /\ \A k \in 1..n : Drives(list[k], at[k], at[k + 1])
      /\ \A k \in 1..n : at[k] < at[k + 1] /\ list[k].alignLast = AsksHeading(at[k + 1])
  BY DEF Cutting, AsBuilt
<1>2. Len(s) = n /\ \A k \in 1..n : s[k] = WithAlignment(list[k])
  <2>1. DOMAIN list = 1..n
    BY <1>1
  <2>2. s = [k \in 1..n |-> WithAlignment(list[k])]
    BY <2>1
  <2> HIDE DEF s
  <2> QED
    BY <1>1, <2>2
<1>3. Expand(list) = FlattenSeq(s)
  BY DEF Expand
<1> HIDE DEF s
<1>4. PICK f : /\ f[1] = s[1] /\ f[n] = FlattenSeq(s)
               /\ \A k \in 1..(n - 1) : f[k + 1] = f[k] \o s[k + 1]
  <2>1. Len(s) = n /\ Len(s) \in Nat /\ Len(s) >= 1
    BY <1>1, <1>2
  <2> HIDE DEF n
  <2>2. \E f : /\ f[1] = s[1] /\ f[Len(s)] = FlattenSeq(s)
               /\ \A k \in 1..(Len(s) - 1) : f[k + 1] = f[k] \o s[k + 1]
    BY <2>1, FlattenIs
  <2> QED
    BY <2>1, <2>2
<1>5. ASSUME NEW k \in 1..n
      PROVE  at[k + 1] >= 1 /\ (at[k + 1] < Legs => MustCut(at[k + 1]))
  <2>1. k \in 1..Len(at) /\ k + 1 \in 1..Len(at)
    BY <1>1
  <2>2. at[k] \in Nat /\ at[k + 1] \in Nat /\ at[k] < at[k + 1]
    <3>1. at \in Seq(0..Legs)
      BY <1>1
    <3>2. at[k] \in 0..Legs /\ at[k + 1] \in 0..Legs
      BY <2>1, <3>1, ElementOfSeq
    <3>3. at[k] < at[k + 1]
      BY <1>1
    <3> QED
      BY <3>2, <3>3
  <2>3. at[k + 1] >= 1
    BY <2>2
  <2>4. ASSUME at[k + 1] < Legs PROVE MustCut(at[k + 1])
    <3>1. k # n
      BY <1>1, <2>2, <2>4
    <3>2. k + 1 \in 2..n
      BY <1>1, <3>1
    <3> QED
      BY <2>4, <3>2 DEF Cutting
  <2> QED
    BY <2>3, <2>4
<1> DEFINE H == {k \in 1..n : \E at1, T1 : Aligned(f[k], at1, T1, at[k + 1]) /\ Len(f[k]) >= 1}
<1>6. 1 \in H
  <2>1. Aligned(<<>>, <<0>>, {}, 0)
    <3>1. /\ <<>> \in Seq({}) /\ Len(<<>>) = 0 /\ Len(<<0>>) = 1 /\ <<0>>[1] = 0
          /\ <<0>> \in Seq(0..Legs)
      <4>1. 0 \in 0..Legs
        BY DEF PlanTold, Legs
      <4> QED
        BY <4>1
    <3>2. \A k : k \notin 1..0 /\ k \notin 2..0
      OBVIOUS
    <3>3. Cutting(<<>>, <<0>>, {}, 0)
      BY <3>1, <3>2 DEF Cutting
    <3> QED
      BY <3>1, <3>2, <3>3 DEF Aligned, HeadingsServed
  <2>2. 1 \in 1..n /\ 1 + 1 = 2 /\ ~(Len(<<>>) >= 1)
    BY <1>1
  <2>3. Drives(list[1], 0, at[2]) /\ list[1].alignLast = AsksHeading(at[2])
    BY <1>1, <2>2
  <2>4. at[2] >= 1 /\ (at[2] < Legs => MustCut(at[2]))
    BY <1>5, <2>2
  <2>5. \E at1, T1 : /\ Aligned(<<>> \o WithAlignment(list[1]), at1, T1, at[2])
                     /\ Len(<<>> \o WithAlignment(list[1])) >= 1
    BY <2>1, <2>2, <2>3, <2>4, AlignedGoesOn
  <2>6. <<>> \o WithAlignment(list[1]) = WithAlignment(list[1])
    <3>1. \E x : WithAlignment(list[1]) = <<x>> \/ \E y : WithAlignment(list[1]) = <<x, y>>
      BY <2>3, WithAlignmentIs
    <3> QED
      BY <3>1
  <2>7. f[1] = WithAlignment(list[1])
    BY <1>2, <1>4, <2>2
  <2> QED
    BY <2>2, <2>5, <2>6, <2>7
<1>7. ASSUME NEW k \in 1..(n - 1), k \in H
      PROVE  k + 1 \in H
  <2>1. PICK at1, T1 : Aligned(f[k], at1, T1, at[k + 1]) /\ Len(f[k]) >= 1
    BY <1>7
  <2>2. k \in 1..n /\ k + 1 \in 1..n
    BY <1>1
  <2>3. /\ Drives(list[k + 1], at[k + 1], at[(k + 1) + 1])
        /\ list[k + 1].alignLast = AsksHeading(at[(k + 1) + 1])
    BY <1>1, <2>2
  <2>4. /\ at[k + 1] >= 1 /\ (at[k + 1] < Legs => MustCut(at[k + 1]))
        /\ at[(k + 1) + 1] >= 1 /\ (at[(k + 1) + 1] < Legs => MustCut(at[(k + 1) + 1]))
    BY <1>5, <2>2
  <2>5. \E at2, T2 : /\ Aligned(f[k] \o WithAlignment(list[k + 1]), at2, T2, at[(k + 1) + 1])
                     /\ Len(f[k] \o WithAlignment(list[k + 1])) >= 1
    BY <2>1, <2>3, <2>4, AlignedGoesOn
  <2>6. f[k + 1] = f[k] \o WithAlignment(list[k + 1])
    BY <1>2, <1>4, <2>2
  <2> QED
    BY <2>2, <2>5, <2>6
<1> HIDE DEF H
<1>8. H = 1..n
  <2>1. H \in SUBSET (1..n)
    BY DEF H
  <2> QED
    BY <1>1, <1>6, <1>7, <2>1, AllPlaces
<1>9. n \in H
  BY <1>1, <1>8
<1> QED
  BY <1>1, <1>3, <1>4, <1>9 DEF H

-----------------------------------------------------------------------------
(* The slicer: the tasks that are published *)

\* The last pass keeps what a task drives.
LEMMA NumberedIs ==
  ASSUME NEW T, NEW list \in Seq(T), NEW out, out = Numbered(list)
  PROVE  /\ Len(out) = Len(list) /\ DOMAIN out = 1..Len(list)
         /\ \A k \in 1..Len(list) :
              /\ out[k].edges = list[k].edges /\ out[k].waypoints = list[k].waypoints
              /\ out[k].attributes = list[k].attributes /\ out[k].mode = list[k].mode
              /\ out[k].alignGoal = (k = Len(list) \/ list[k].alignLast)
              /\ \/ out[k].stops
                 \/ /\ k < Len(list)
                    /\ out[k].mode = "normal" /\ out[k + 1].mode = "normal"
                    /\ out[k].attributes.controller = out[k + 1].attributes.controller
<1> DEFINE n == Len(list)
           Entry(k) ==
             LET task == list[k]
                 isGoal == k = Len(list)
                 business == task.mode # "normal"
                 switches ==
                   /\ ~isGoal
                   /\ \/ task.attributes.controller # list[k + 1].attributes.controller
                      \/ list[k + 1].mode # "normal"
             IN  [mode |-> task.mode, attributes |-> task.attributes,
                  waypoints |-> task.waypoints, edges |-> task.edges,
                  slope |-> task.slope, isGoal |-> isGoal,
                  policy |-> Policy(task, isGoal),
                  tolerance |-> IF isGoal \/ business THEN "goal" ELSE "pass",
                  alignGoal |-> isGoal \/ task.alignLast,
                  stops |-> isGoal \/ business \/ switches]
<1>1. n \in Nat /\ DOMAIN list = 1..n
  OBVIOUS
<1>2. out = [k \in 1..n |-> Entry(k)]
  BY <1>1 DEF Numbered
<1>3. ASSUME NEW k \in 1..n
      PROVE  /\ out[k].edges = list[k].edges /\ out[k].waypoints = list[k].waypoints
             /\ out[k].attributes = list[k].attributes /\ out[k].mode = list[k].mode
             /\ out[k].alignGoal = (k = n \/ list[k].alignLast)
             /\ out[k].stops =
                  \/ k = n
                  \/ list[k].mode # "normal"
                  \/ /\ k # n
                     /\ \/ list[k].attributes.controller # list[k + 1].attributes.controller
                        \/ list[k + 1].mode # "normal"
  <2>1. out[k] = Entry(k)
    BY <1>2, <1>3
  <2>2. /\ out[k].edges = list[k].edges /\ out[k].waypoints = list[k].waypoints
        /\ out[k].attributes = list[k].attributes /\ out[k].mode = list[k].mode
    BY <2>1
  <2>3. out[k].alignGoal = (k = n \/ list[k].alignLast)
    <3>1. out[k].alignGoal = Entry(k).alignGoal
      BY <2>1
    <3>2. Entry(k).alignGoal = (k = n \/ list[k].alignLast)
      OBVIOUS
    <3> QED
      BY <3>1, <3>2
  <2>4. out[k].stops =
          \/ k = n
          \/ list[k].mode # "normal"
          \/ /\ k # n
             /\ \/ list[k].attributes.controller # list[k + 1].attributes.controller
                \/ list[k + 1].mode # "normal"
    <3>1. out[k].stops = Entry(k).stops
      BY <2>1
    <3>2. Entry(k).stops =
            \/ k = n
            \/ list[k].mode # "normal"
            \/ /\ k # n
               /\ \/ list[k].attributes.controller # list[k + 1].attributes.controller
                  \/ list[k + 1].mode # "normal"
      OBVIOUS
    <3> QED
      BY <3>1, <3>2
  <2> QED
    BY <2>2, <2>3, <2>4
<1> HIDE DEF Entry, n
<1>4. Len(out) = n /\ DOMAIN out = 1..n
  BY <1>1, <1>2
<1>5. ASSUME NEW k \in 1..n
      PROVE  \/ out[k].stops
             \/ /\ k < n
                /\ out[k].mode = "normal" /\ out[k + 1].mode = "normal"
                /\ out[k].attributes.controller = out[k + 1].attributes.controller
  <2>1. CASE k = n
    BY <1>3, <2>1
  <2>2. CASE k # n
    <3>1. k + 1 \in 1..n /\ k < n
      BY <1>1, <2>2
    <3>2. out[k + 1].mode = list[k + 1].mode /\ out[k + 1].attributes = list[k + 1].attributes
      BY <1>3, <3>1
    <3>3. /\ out[k].mode = list[k].mode /\ out[k].attributes = list[k].attributes
          /\ out[k].stops =
               \/ k = n
               \/ list[k].mode # "normal"
               \/ /\ k # n
                  /\ \/ list[k].attributes.controller # list[k + 1].attributes.controller
                     \/ list[k + 1].mode # "normal"
      BY <1>3, Zenon
    <3>4. CASE \/ list[k].mode # "normal" \/ list[k + 1].mode # "normal"
               \/ list[k].attributes.controller # list[k + 1].attributes.controller
      <4>1. out[k].stops
        BY <2>2, <3>3, <3>4, Zenon
      <4> QED
        BY <4>1
    <3>5. CASE /\ list[k].mode = "normal" /\ list[k + 1].mode = "normal"
               /\ list[k].attributes.controller = list[k + 1].attributes.controller
      BY <3>1, <3>2, <3>3, <3>5, Zenon
    <3> QED
      BY <3>4, <3>5, Zenon
  <2> QED
    BY <2>1, <2>2
<1> QED
  BY <1>3, <1>4, <1>5 DEF n

\* What a cutting of the whole route says of its places, as numbers.
LEMMA PlacesAre ==
  ASSUME PlanTold(route), NEW list, NEW at, NEW T, Cutting(list, at, T, Legs), Len(list) >= 1
  PROVE  /\ Len(list) \in Nat /\ Legs \in Nat /\ at[1] = 0 /\ at[Len(list) + 1] = Legs
         /\ \A k \in 1..(Len(list) + 1) : at[k] \in 0..Legs
         /\ \A k \in 1..Len(list) : at[k] <= at[k + 1]
         /\ \A k, l \in 1..(Len(list) + 1) : k <= l => at[k] <= at[l]
         /\ \A i \in 1..Legs : \E k \in 1..Len(list) : at[k] < i /\ i <= at[k + 1]
<1> DEFINE n == Len(list)
<1>1. /\ n \in Nat /\ Legs \in Nat /\ at \in Seq(0..Legs) /\ Len(at) = n + 1
      /\ at[1] = 0 /\ at[n + 1] = Legs
  BY DEF Cutting, PlanTold, Legs
<1>2. ASSUME NEW k \in 1..(n + 1) PROVE at[k] \in 0..Legs
  <2>1. k \in 1..Len(at)
    BY <1>1
  <2> QED
    BY <1>1, <2>1, ElementOfSeq
<1>3. ASSUME NEW k \in 1..n PROVE at[k] <= at[k + 1]
  <2>1. Drives(list[k], at[k], at[k + 1]) /\ k + 1 \in 1..(n + 1)
    BY <1>1 DEF Cutting
  <2>2. at[k] \in 0..at[k + 1]
    BY <2>1 DEF Drives
  <2>3. at[k + 1] \in 0..Legs
    BY <1>2, <2>1
  <2> QED
    BY <1>1, <2>2, <2>3
<1> HIDE DEF n
<1>4. ASSUME NEW k \in 1..(n + 1)
      PROVE  \A l \in 1..(n + 1) : k <= l => at[k] <= at[l]
  <2> DEFINE H == {l \in 1..(n + 1) : k <= l => at[k] <= at[l]}
  <2>1. 1 \in H
    <3>1. k <= 1 => k = 1
      BY <1>1
    <3>2. at[k] <= at[k] /\ 1 \in 1..(n + 1)
      BY <1>1, <1>2
    <3> QED
      BY <3>1, <3>2
  <2>2. ASSUME NEW l \in 1..((n + 1) - 1), l \in H PROVE l + 1 \in H
    <3>1. l \in 1..n /\ l \in 1..(n + 1) /\ l + 1 \in 1..(n + 1)
      BY <1>1
    <3>2. at[l] <= at[l + 1] /\ at[l] \in Nat /\ at[l + 1] \in Nat /\ at[k] \in Nat
      BY <1>1, <1>2, <1>3, <3>1
    <3>3. CASE k <= l
      BY <2>2, <3>1, <3>2, <3>3
    <3>4. CASE ~(k <= l)
      <4>1. k <= l + 1 => k = l + 1
        BY <3>1, <3>4
      <4> QED
        BY <3>1, <3>2, <4>1
    <3> QED
      BY <3>3, <3>4
  <2> HIDE DEF H
  <2>3. H = 1..(n + 1)
    <3>1. H \in SUBSET (1..(n + 1)) /\ n + 1 \in Nat
      BY <1>1 DEF H
    <3> QED
      BY <2>1, <2>2, <3>1, AllPlaces
  <2> QED
    BY <2>3 DEF H
<1>5. ASSUME NEW i \in 1..Legs
      PROVE  \E k \in 1..n : at[k] < i /\ i <= at[k + 1]
  <2> DEFINE S == {k \in 1..n : i <= at[k + 1]}
  <2>1. n \in 1..n /\ i <= Legs
    BY <1>1 DEF n
  <2>2. S \in SUBSET Nat /\ S # {}
    <3>1. n \in S
      BY <1>1, <2>1
    <3> QED
      BY <3>1
  <2>3. PICK k \in S : \A l \in S : k <= l
    <3> HIDE DEF S
    <3> QED
      BY <2>2, LeastOf
  <2>4. k \in 1..n /\ i <= at[k + 1] /\ k \in 1..(n + 1)
    BY <1>1, <2>3
  <2>5. at[k] < i
    <3>1. CASE k = 1
      BY <1>1, <3>1
    <3>2. CASE k # 1
      <4>1. k - 1 \in 1..n /\ (k - 1) + 1 = k /\ ~(k <= k - 1)
        BY <1>1, <2>4, <3>2
      <4>2. ~(i <= at[k])
        BY <2>3, <4>1
      <4>3. at[k] \in 0..Legs
        BY <1>2, <2>4
      <4> QED
        BY <1>1, <4>2, <4>3
    <3> QED
      BY <3>1, <3>2
  <2> QED
    BY <2>4, <2>5
<1> QED
  BY <1>1, <1>2, <1>3, <1>4, <1>5 DEF n

\* The edges of the tasks, joined, are the edges of the route.
LEMMA JoinedIs ==
  ASSUME PlanTold(route), NEW list, NEW at, NEW T, Cutting(list, at, T, Legs), Len(list) >= 1,
         NEW s, Len(s) = Len(list), \A k \in 1..Len(list) : s[k] = list[k].edges
  PROVE  FlattenSeq(s) = route.edges
<1> DEFINE n == Len(list)
           D == DOMAIN doc.edges
<1>1. /\ n \in Nat /\ n >= 1 /\ Legs \in Nat /\ at[1] = 0 /\ at[n + 1] = Legs
      /\ \A k \in 1..(n + 1) : at[k] \in 0..Legs
      /\ \A k \in 1..n : at[k] <= at[k + 1]
  BY PlacesAre
<1>2. \A k \in 1..n : /\ s[k] \in Seq(D) /\ Len(s[k]) = at[k + 1] - at[k]
                      /\ \A j \in 1..(at[k + 1] - at[k]) : s[k][j] = route.edges[at[k] + j]
  <2> SUFFICES ASSUME NEW k \in 1..n
               PROVE  /\ s[k] \in Seq(D) /\ Len(s[k]) = at[k + 1] - at[k]
                      /\ \A j \in 1..(at[k + 1] - at[k]) : s[k][j] = route.edges[at[k] + j]
    OBVIOUS
  <2>1. Drives(list[k], at[k], at[k + 1]) /\ s[k] = list[k].edges
    BY DEF Cutting
  <2> QED
    BY <2>1 DEF Drives
<1>3. PICK f : /\ f[1] = s[1] /\ f[n] = FlattenSeq(s)
               /\ \A k \in 1..(n - 1) : f[k + 1] = f[k] \o s[k + 1]
  <2>1. Len(s) = n /\ Len(s) \in Nat /\ Len(s) >= 1
    BY <1>1
  <2> HIDE DEF n
  <2>2. \E f : /\ f[1] = s[1] /\ f[Len(s)] = FlattenSeq(s)
               /\ \A k \in 1..(Len(s) - 1) : f[k + 1] = f[k] \o s[k + 1]
    BY <2>1, FlattenIs
  <2> QED
    BY <2>1, <2>2
<1> DEFINE H == {k \in 1..n : /\ f[k] \in Seq(D) /\ Len(f[k]) = at[k + 1]
                              /\ \A j \in 1..at[k + 1] : f[k][j] = route.edges[j]}
<1> HIDE DEF n, D
<1>4. 1 \in H
  <2>1. 1 \in 1..n /\ at[1 + 1] \in Nat /\ at[1 + 1] - at[1] = at[1 + 1]
    <3>1. 1 + 1 \in 1..(n + 1) /\ 1 \in 1..n
      BY <1>1
    <3>2. at[1 + 1] \in 0..Legs
      BY <1>1, <3>1
    <3> QED
      BY <1>1, <3>1, <3>2
  <2>2. /\ s[1] \in Seq(D) /\ Len(s[1]) = at[1 + 1]
        /\ \A j \in 1..at[1 + 1] : s[1][j] = route.edges[at[1] + j]
    BY <1>2, <2>1
  <2>3. \A j \in 1..at[1 + 1] : at[1] + j = j
    BY <1>1
  <2> QED
    BY <1>3, <2>1, <2>2, <2>3
<1>5. ASSUME NEW k \in 1..(n - 1), k \in H PROVE k + 1 \in H
  <2> DEFINE a == at[k + 1]
             b == at[(k + 1) + 1]
  <2>1. k + 1 \in 1..n /\ k + 1 \in 1..(n + 1) /\ (k + 1) + 1 \in 1..(n + 1) /\ k \in 1..n
    BY <1>1
  <2>2. a \in Nat /\ b \in Nat /\ a <= b
    <3>1. a \in 0..Legs /\ b \in 0..Legs /\ a <= b
      BY <1>1, <2>1
    <3> QED
      BY <1>1, <3>1
  <2>3. /\ f[k] \in Seq(D) /\ Len(f[k]) = a /\ \A j \in 1..a : f[k][j] = route.edges[j]
    BY <1>5
  <2>4. /\ s[k + 1] \in Seq(D) /\ Len(s[k + 1]) = b - a
        /\ \A j \in 1..(b - a) : s[k + 1][j] = route.edges[a + j]
    BY <1>2, <2>1
  <2>5. f[k + 1] = f[k] \o s[k + 1]
    BY <1>3
  <2> HIDE DEF a, b, H
  <2>6. /\ f[k + 1] \in Seq(D) /\ Len(f[k + 1]) = a + (b - a)
        /\ \A j \in 1..(a + (b - a)) :
             f[k + 1][j] = IF j <= a THEN f[k][j] ELSE s[k + 1][j - a]
    <3> DEFINE x == f[k]
               y == s[k + 1]
    <3>1. x \in Seq(D) /\ y \in Seq(D) /\ Len(x) = a /\ Len(y) = b - a /\ f[k + 1] = x \o y
      BY <2>3, <2>4, <2>5
    <3> HIDE DEF x, y
    <3>2. /\ x \o y \in Seq(D) /\ Len(x \o y) = Len(x) + Len(y)
          /\ \A j \in 1..(Len(x) + Len(y)) :
               (x \o y)[j] = IF j <= Len(x) THEN x[j] ELSE y[j - Len(x)]
      <4>1. x \in Seq(D) /\ y \in Seq(D)
        BY <3>1
      <4>2. x \o y \in Seq(D)
        BY <4>1, ConcatProperties
      <4>3. Len(x \o y) = Len(x) + Len(y)
        BY <4>1, ConcatProperties
      <4>4. \A j \in 1..(Len(x) + Len(y)) :
               (x \o y)[j] = IF j <= Len(x) THEN x[j] ELSE y[j - Len(x)]
        BY <4>1, ConcatProperties
      <4> QED
        BY <4>2, <4>3, <4>4
    <3>3. /\ x \o y \in Seq(D) /\ Len(x \o y) = a + (b - a)
          /\ \A j \in 1..(a + (b - a)) :
               (x \o y)[j] = IF j <= a THEN x[j] ELSE y[j - a]
      BY <3>1, <3>2
    <3> QED
      BY <3>1, <3>3 DEF x, y
  <2>7. a + (b - a) = b
    BY <2>2
  <2>8. ASSUME NEW j \in 1..b PROVE f[k + 1][j] = route.edges[j]
    <3>1. CASE j <= a
      <4>1. j \in 1..a
        BY <2>2, <3>1
      <4> QED
        BY <2>3, <2>6, <2>7, <3>1, <4>1
    <3>2. CASE ~(j <= a)
      <4>1. j - a \in 1..(b - a) /\ a + (j - a) = j
        BY <2>2, <3>2
      <4>2. s[k + 1][j - a] = route.edges[a + (j - a)]
        BY <2>4, <4>1
      <4> QED
        BY <2>6, <2>7, <3>2, <4>1, <4>2
    <3> QED
      BY <3>1, <3>2
  <2> QED
    BY <2>1, <2>6, <2>7, <2>8 DEF H, b
<1> HIDE DEF H
<1>6. H = 1..n
  <2>1. H \in SUBSET (1..n)
    BY DEF H
  <2> QED
    BY <1>1, <1>4, <1>5, <2>1, AllPlaces
<1>7. n \in H
  BY <1>1, <1>6
<1>8. /\ f[n] \in Seq(D) /\ Len(f[n]) = Legs
      /\ \A j \in 1..Legs : f[n][j] = route.edges[j]
  BY <1>1, <1>7 DEF H
<1>9. route.edges \in Seq(D) /\ Len(route.edges) = Legs
  BY DEF PlanTold, Legs, D
<1>10. f[n] = route.edges
  BY <1>8, <1>9, SeqEqual
<1> QED
  BY <1>3, <1>10

\* The task an edge belongs to.
LEMMA TaskOfIs ==
  ASSUME PlanTold(route), NEW list, NEW at, NEW T, Cutting(list, at, T, Legs), Len(list) >= 1,
         NEW out, DOMAIN out = 1..Len(list), \A k \in 1..Len(list) : out[k].edges = list[k].edges,
         NEW i \in 1..Legs, NEW k \in 1..Len(list), at[k] < i, i <= at[k + 1]
  PROVE  TaskOf(out, route.edges[i]) = k
<1> DEFINE n == Len(list)
           id == route.edges[i]
<1>1. /\ n \in Nat /\ Legs \in Nat
      /\ \A l \in 1..(n + 1) : at[l] \in 0..Legs
      /\ \A l, m \in 1..(n + 1) : l <= m => at[l] <= at[m]
  BY PlacesAre
<1>2. ASSUME NEW l \in 1..n
      PROVE  /\ out[l].edges \in Seq(DOMAIN doc.edges) /\ Len(out[l].edges) = at[l + 1] - at[l]
             /\ \A j \in 1..(at[l + 1] - at[l]) : out[l].edges[j] = route.edges[at[l] + j]
             /\ at[l] \in Nat /\ at[l + 1] \in Nat /\ at[l + 1] <= Legs
  <2>1. Drives(list[l], at[l], at[l + 1])
    BY DEF Cutting
  <2>2. l \in 1..(n + 1) /\ l + 1 \in 1..(n + 1)
    BY <1>1
  <2>3. at[l] \in 0..Legs /\ at[l + 1] \in 0..Legs
    BY <1>1, <2>2
  <2>4. at[l] \in Nat /\ at[l + 1] \in Nat /\ at[l + 1] <= Legs
    BY <1>1, <2>3
  <2>5. out[l].edges = list[l].edges
    OBVIOUS
  <2>6. /\ list[l].edges \in Seq(DOMAIN doc.edges) /\ Len(list[l].edges) = at[l + 1] - at[l]
        /\ \A j \in 1..(at[l + 1] - at[l]) : list[l].edges[j] = route.edges[at[l] + j]
    BY <2>1 DEF Drives
  <2> QED
    BY <2>4, <2>5, <2>6
<1>3. id \in ToSet(out[k].edges)
  <2>1. i - at[k] \in 1..(at[k + 1] - at[k]) /\ at[k] + (i - at[k]) = i
    <3>1. at[k] \in Nat /\ at[k + 1] \in Nat /\ i \in Nat
      BY <1>1, <1>2
    <3> QED
      BY <3>1
  <2>2. out[k].edges[i - at[k]] = id
    BY <1>2, <2>1
  <2>3. i - at[k] \in DOMAIN out[k].edges
    <3>1. i - at[k] \in 1..Len(out[k].edges)
      BY <1>2, <2>1
    <3> QED
      BY <1>2, <3>1
  <2> QED
    BY <2>2, <2>3 DEF ToSet
<1>4. ASSUME NEW l \in 1..n, id \in ToSet(out[l].edges) PROVE l = k
  <2>1. PICK j \in DOMAIN out[l].edges : out[l].edges[j] = id
    BY <1>4 DEF ToSet
  <2>2. j \in 1..(at[l + 1] - at[l])
    <3>1. DOMAIN out[l].edges = 1..Len(out[l].edges)
      BY <1>2
    <3> QED
      BY <1>2, <2>1, <3>1
  <2>3. out[l].edges[j] = route.edges[at[l] + j]
    BY <1>2, <2>2
  <2>4. at[l] + j \in 1..Legs /\ at[l] < at[l] + j /\ at[l] + j <= at[l + 1]
    <3> DEFINE a == at[l]
               b == at[l + 1]
    <3>1. a \in Nat /\ b \in Nat /\ b <= Legs /\ j \in 1..(b - a) /\ Legs \in Nat
      BY <1>1, <1>2, <2>2
    <3> HIDE DEF a, b
    <3>2. a + j \in 1..Legs /\ a < a + j /\ a + j <= b
      BY <3>1
    <3> QED
      BY <3>2 DEF a, b
  <2>5. at[l] + j = i
    BY <2>1, <2>3, <2>4 DEF PlanTold, Legs
  <2>6. at[l] < i /\ i <= at[l + 1]
    BY <2>4, <2>5
  <2>7. k + 1 \in 1..(n + 1) /\ l + 1 \in 1..(n + 1) /\ k \in 1..(n + 1) /\ l \in 1..(n + 1)
    BY <1>1
  <2>8. at[k] \in Nat /\ at[k + 1] \in Nat /\ at[l] \in Nat /\ at[l + 1] \in Nat
    BY <1>2
  <2>9. CASE l < k
    <3>1. at[l + 1] <= at[k]
      <4>1. l + 1 <= k
        BY <1>1, <2>9
      <4> QED
        BY <1>1, <2>7, <4>1
    <3> QED
      BY <2>6, <2>8, <3>1
  <2>10. CASE k < l
    <3>1. at[k + 1] <= at[l]
      <4>1. k + 1 <= l
        BY <1>1, <2>10
      <4> QED
        BY <1>1, <2>7, <4>1
    <3> QED
      BY <2>6, <2>8, <3>1
  <2> QED
    BY <1>1, <2>9, <2>10
<1> HIDE DEF id
<1>5. TaskOf(out, id) = k
  <2>1. \A l \in DOMAIN out : id \in ToSet(out[l].edges) <=> l = k
    BY <1>3, <1>4
  <2> QED
    BY <2>1 DEF TaskOf
<1> QED
  BY <1>5 DEF id

\* What TasksServeTheRoute asks of the published tasks.
RightTasks(list) ==
  LET driven == FlattenSeq([k \in DOMAIN list |-> list[k].edges])
      n == Len(route.vertices)
  IN  /\ driven = route.edges
      /\ list[1].waypoints[1] = route.start
      /\ \A k \in 1..(Len(list) - 1) :
             Last(list[k].waypoints) = list[k + 1].waypoints[1]
      /\ \A i \in 1..(Len(driven) - 1) :
             TaskOf(list, driven[i]) # TaskOf(list, driven[i + 1]) <=> MustCut(i)
      /\ \A i \in 1..n :
             i = n \/ (i > 1 /\ doc.vertices[route.vertices[i]].yaw) =>
             \E t \in ToSet(list) :
                /\ Last(t.waypoints) = route.vertices[i]
                /\ t.attributes.controller = "pid"
                /\ t.alignGoal
      /\ \A k \in DOMAIN list :
             \/ list[k].stops
             \/ /\ k < Len(list)
                /\ list[k].mode = "normal" /\ list[k + 1].mode = "normal"
                /\ list[k].attributes.controller = list[k + 1].attributes.controller

\* The route is cut between two edges exactly where it must be.
LEMMA CutsAreRight ==
  ASSUME PlanTold(route), NEW list, NEW at, NEW T, Cutting(list, at, T, Legs), Len(list) >= 1,
         NEW i \in 1..(Legs - 1), NEW k \in 1..Len(list), at[k] < i, i <= at[k + 1],
         NEW l \in 1..Len(list), at[l] < i + 1, i + 1 <= at[l + 1]
  PROVE  /\ (k # l <=> MustCut(i))
         /\ MustCut(i) => at[k + 1] = i
<1> DEFINE n == Len(list)
<1>1. /\ n \in Nat /\ Legs \in Nat
      /\ \A a \in 1..(n + 1) : at[a] \in 0..Legs
      /\ \A a, b \in 1..(n + 1) : a <= b => at[a] <= at[b]
  BY PlacesAre
<1>2. k \in 1..(n + 1) /\ k + 1 \in 1..(n + 1) /\ l \in 1..(n + 1) /\ l + 1 \in 1..(n + 1)
  BY <1>1
<1>3. at[k] \in Nat /\ at[k + 1] \in Nat /\ at[l] \in Nat /\ at[l + 1] \in Nat
  <2>1. {at[k], at[k + 1], at[l], at[l + 1]} \subseteq 0..Legs
    BY <1>1, <1>2
  <2> QED
    BY <1>1, <2>1
<1>4. ASSUME i < at[k + 1] PROVE ~MustCut(i)
  <2>1. Drives(list[k], at[k], at[k + 1])
    BY DEF Cutting
  <2>2. i \in (at[k] + 1)..(at[k + 1] - 1)
    BY <1>3, <1>4
  <2> QED
    BY <2>1, <2>2 DEF Drives
<1>5. CASE k = l
  <2>1. i < at[k + 1]
    BY <1>3, <1>5
  <2> QED
    BY <1>4, <1>5, <2>1
<1>6. CASE l < k
  <2>1. l + 1 <= k
    BY <1>1, <1>6
  <2>2. at[l + 1] <= at[k]
    BY <1>1, <1>2, <2>1
  <2> QED
    BY <1>3, <2>2
<1>7. CASE k < l
  <2>1. k + 1 <= l /\ l \in 2..n
    BY <1>1, <1>7
  <2>2. at[k + 1] <= at[l]
    BY <1>1, <1>2, <2>1
  <2>3. at[l] = i /\ at[k + 1] = i
    BY <1>3, <2>2
  <2>4. i < Legs
    BY <1>1
  <2>5. MustCut(i)
    BY <2>1, <2>3, <2>4 DEF Cutting
  <2> QED
    BY <1>7, <2>3, <2>5
<1> QED
  BY <1>1, <1>5, <1>6, <1>7

\* At a place where the route must be cut, and at its end, a task ends.
LEMMA HeadingsAreServed ==
  ASSUME PlanTold(route), NEW list, NEW at, NEW T, Aligned(list, at, T, Legs), Len(list) >= 1,
         NEW i \in 0..Legs, i = Legs \/ (i >= 1 /\ AsksHeading(i))
  PROVE  \E k \in 1..Len(list) :
           /\ list[k].waypoints[Len(list[k].waypoints)] = PlaceAt(i)
           /\ list[k].attributes.controller = "pid"
           /\ k = Len(list) \/ list[k].alignLast
<1> DEFINE n == Len(list)
<1>1. /\ Cutting(list, at, T, Legs) /\ HeadingsServed(list, at)
      /\ list[n].attributes.controller = "pid"
  BY DEF Aligned
<1>2. /\ n \in Nat /\ Legs \in Nat /\ at[n + 1] = Legs
      /\ \A a \in 1..(n + 1) : at[a] \in 0..Legs
      /\ \A j \in 1..Legs : \E k \in 1..n : at[k] < j /\ j <= at[k + 1]
  BY <1>1, PlacesAre
<1>3. CASE i = Legs
  <2>1. n \in 1..n
    BY <1>2
  <2>2. Drives(list[n], at[n], at[n + 1])
    BY <1>1, <2>1 DEF Cutting
  <2>3. list[n].waypoints[Len(list[n].waypoints)] = PlaceAt(i)
    BY <1>2, <1>3, <2>2 DEF Drives
  <2> QED
    BY <1>1, <2>1, <2>3
<1>4. CASE i # Legs
  <2>1. i \in 1..(Legs - 1) /\ i \in 1..Legs /\ i + 1 \in 1..Legs /\ AsksHeading(i)
    BY <1>2, <1>4
  <2>2. MustCut(i)
    BY <2>1 DEF MustCut, AsksHeading, PlaceAt
  <2>3. PICK k \in 1..n : at[k] < i /\ i <= at[k + 1]
    BY <1>2, <2>1
  <2>4. PICK l \in 1..n : at[l] < i + 1 /\ i + 1 <= at[l + 1]
    BY <1>2, <2>1
  <2>5. at[k + 1] = i
    BY <1>1, <2>1, <2>2, <2>3, <2>4, CutsAreRight
  <2>6. PICK m \in 1..n : Turns(list[m], i)
    BY <1>1, <2>1, <2>3, <2>5 DEF HeadingsServed
  <2> QED
    BY <2>6 DEF Turns
<1> QED
  BY <1>3, <1>4

LEMMA TasksAreRight ==
  ASSUME PlanTold(route), NEW list, NEW at, NEW T, Aligned(list, at, T, Legs), Len(list) >= 1
  PROVE  RightTasks(Numbered(list))
<1> DEFINE n == Len(list)
           out == Numbered(list)
           s == [k \in DOMAIN out |-> out[k].edges]
<1>1. /\ Cutting(list, at, T, Legs) /\ list \in Seq(T) /\ n \in Nat
  BY DEF Aligned, Cutting
<1>2. /\ Len(out) = n /\ DOMAIN out = 1..n
      /\ \A k \in 1..n :
           /\ out[k].edges = list[k].edges /\ out[k].waypoints = list[k].waypoints
           /\ out[k].attributes = list[k].attributes /\ out[k].mode = list[k].mode
           /\ out[k].alignGoal = (k = n \/ list[k].alignLast)
           /\ \/ out[k].stops
              \/ /\ k < n
                 /\ out[k].mode = "normal" /\ out[k + 1].mode = "normal"
                 /\ out[k].attributes.controller = out[k + 1].attributes.controller
  BY <1>1, NumberedIs
<1> HIDE DEF out
<1>3. FlattenSeq(s) = route.edges
  <2>1. s = [k \in 1..n |-> out[k].edges]
    BY <1>2
  <2> HIDE DEF s
  <2>2. Len(s) = n /\ \A k \in 1..n : s[k] = list[k].edges
    <3> HIDE DEF n
    <3>1. n \in Nat /\ \A k \in 1..n : out[k].edges = list[k].edges
      BY <1>1, <1>2
    <3>2. Len(s) = n
      BY <2>1, <3>1
    <3> QED
      BY <2>1, <3>1, <3>2
  <2> QED
    BY <1>1, <2>2, JoinedIs
<1>4. /\ Legs \in Nat /\ at[1] = 0
      /\ \A i \in 1..Legs : \E k \in 1..n : at[k] < i /\ i <= at[k + 1]
  BY <1>1, PlacesAre
<1>5. ASSUME NEW k \in 1..n
      PROVE  /\ Len(out[k].waypoints) >= 1 /\ out[k].waypoints[1] = PlaceAt(at[k])
             /\ Last(out[k].waypoints) = PlaceAt(at[k + 1])
  <2>1. Drives(list[k], at[k], at[k + 1]) /\ out[k].waypoints = list[k].waypoints
    BY <1>1, <1>2 DEF Cutting
  <2> QED
    BY <2>1 DEF Drives, Last
<1>6. out[1].waypoints[1] = route.start
  <2>1. 1 \in 1..n /\ PlaceAt(0) = route.start
    BY <1>1 DEF PlaceAt, PlanTold
  <2> QED
    BY <1>4, <1>5, <2>1
<1>7. ASSUME NEW k \in 1..(n - 1)
      PROVE  Last(out[k].waypoints) = out[k + 1].waypoints[1]
  <2>1. k \in 1..n /\ k + 1 \in 1..n
    BY <1>1
  <2> QED
    BY <1>5, <2>1
<1>8. ASSUME NEW i \in 1..(Legs - 1)
      PROVE  TaskOf(out, route.edges[i]) # TaskOf(out, route.edges[i + 1]) <=> MustCut(i)
  <2>1. i \in 1..Legs /\ i + 1 \in 1..Legs
    BY <1>4
  <2>2. PICK k \in 1..n : at[k] < i /\ i <= at[k + 1]
    BY <1>4, <2>1
  <2>3. PICK l \in 1..n : at[l] < i + 1 /\ i + 1 <= at[l + 1]
    BY <1>4, <2>1
  <2>4. TaskOf(out, route.edges[i]) = k /\ TaskOf(out, route.edges[i + 1]) = l
    <3>1. DOMAIN out = 1..n /\ \A m \in 1..n : out[m].edges = list[m].edges
      BY <1>2
    <3>2. TaskOf(out, route.edges[i]) = k
      BY <1>1, <2>1, <2>2, <3>1, TaskOfIs
    <3> DEFINE j == i + 1
    <3>3. j \in 1..Legs /\ at[l] < j /\ j <= at[l + 1]
      BY <2>1, <2>3
    <3> HIDE DEF j
    <3>4. TaskOf(out, route.edges[j]) = l
      BY <1>1, <3>1, <3>3, TaskOfIs
    <3> QED
      BY <3>2, <3>4 DEF j
  <2>5. k # l <=> MustCut(i)
    BY <1>1, <2>2, <2>3, CutsAreRight
  <2> QED
    BY <2>4, <2>5
<1>9. ASSUME NEW i \in 1..Len(route.vertices),
             i = Len(route.vertices) \/ (i > 1 /\ doc.vertices[route.vertices[i]].yaw)
      PROVE  \E t \in ToSet(out) :
               /\ Last(t.waypoints) = route.vertices[i]
               /\ t.attributes.controller = "pid"
               /\ t.alignGoal
  <2>1. /\ Len(route.vertices) = Legs + 1 /\ i - 1 \in 0..Legs /\ (i - 1) + 1 = i
        /\ i > 1 => i - 1 >= 1
    BY <1>4 DEF PlanTold, Legs
  <2>2. i - 1 = Legs \/ (i - 1 >= 1 /\ AsksHeading(i - 1))
    BY <1>4, <1>9, <2>1 DEF AsksHeading, PlaceAt
  <2>3. PICK k \in 1..n :
          /\ list[k].waypoints[Len(list[k].waypoints)] = PlaceAt(i - 1)
          /\ list[k].attributes.controller = "pid"
          /\ k = n \/ list[k].alignLast
    BY <2>1, <2>2, HeadingsAreServed
  <2>4. /\ Last(out[k].waypoints) = route.vertices[i]
        /\ out[k].attributes.controller = "pid"
        /\ out[k].alignGoal
    BY <1>2, <2>1, <2>3 DEF Last, PlaceAt
  <2>5. out[k] \in ToSet(out)
    BY <1>2 DEF ToSet
  <2> QED
    BY <2>4, <2>5
<1> HIDE DEF s
<1>10. Len(route.edges) = Legs
  BY DEF Legs
<1>11. RightTasks(out)
  <2>1. \A i \in 1..(Len(FlattenSeq(s)) - 1) :
          TaskOf(out, FlattenSeq(s)[i]) # TaskOf(out, FlattenSeq(s)[i + 1]) <=> MustCut(i)
    BY <1>3, <1>8, <1>10
  <2>2. \A k \in 1..(Len(out) - 1) : Last(out[k].waypoints) = out[k + 1].waypoints[1]
    BY <1>2, <1>7
  <2>3. \A k \in DOMAIN out :
          \/ out[k].stops
          \/ /\ k < Len(out)
             /\ out[k].mode = "normal" /\ out[k + 1].mode = "normal"
             /\ out[k].attributes.controller = out[k + 1].attributes.controller
    BY <1>2
  <2> QED
    BY <1>3, <1>6, <1>9, <2>1, <2>2, <2>3, Zenon DEF RightTasks, s
<1> QED
  BY <1>11 DEF out

-----------------------------------------------------------------------------
(* The slicer: its loop over the edges *)

\* The task in hand drives the places from e to i, and may go on at i.
InHand(c, e, i) ==
  /\ Drives(c, e, i) /\ e < i /\ c.alignLast = AsksHeading(i)
  /\ doc.edges[route.edges[i]].obstacle # 4
  /\ BusinessMode(doc.vertices[route.vertices[i]].type,
                  doc.vertices[route.vertices[i + 1]].type) = "normal"
  /\ i < Legs => ~ EndsTask(PlaceAt(i))

\* The tasks cut so far and the task in hand, if any, drive the first i edges.
Driven(list, hand, i) ==
  \E at, T, e :
    /\ Cutting(list, at, T, e) /\ AsBuilt(list, at)
    /\ Len(list) >= 1 => e >= 1
    /\ e >= 1 /\ e < Legs => MustCut(e)
    /\ \/ hand = <<>> /\ e = i
       \/ \E c : hand = <<c>> /\ InHand(c, e, i)

SliceInv ==
  /\ status.success => PlanTold(status)
  /\ slicing =>
       /\ PlanTold(route) /\ Legs >= 1 /\ index \in 0..Legs
       /\ before = IF index = 0 THEN <<>> ELSE <<Attributes(doc.edges[route.edges[index]])>>
       /\ Driven(cut, current, index)

\* Tasks go on as they were built.
LEMMA BuiltGoesOn ==
  ASSUME NEW list, NEW at, NEW T, NEW e, Cutting(list, at, T, e), AsBuilt(list, at),
         Len(list) >= 1 => e >= 1, e >= 1 /\ e < Legs => MustCut(e),
         NEW t, NEW b, Drives(t, e, b), e < b, t.alignLast = AsksHeading(b)
  PROVE  \E to : /\ Cutting(Append(list, t), to, T \cup {t}, b)
                 /\ AsBuilt(Append(list, t), to)
                 /\ Len(Append(list, t)) >= 1 /\ b >= 1
<1> DEFINE n == Len(list)
<1>0. PICK new, to : new = Append(list, t) /\ to = Append(at, b)
  OBVIOUS
<1>1. Cutting(new, to, T \cup {t}, b)
  BY <1>0, CuttingGoesOn
<1>2. /\ list \in Seq(T \cup {t}) /\ at \in Seq((0..Legs) \cup {b})
      /\ n \in Nat /\ Len(at) = n + 1
  BY CuttingIs
<1>3. /\ Len(new) = n + 1 /\ new[n + 1] = t /\ \A k \in 1..n : new[k] = list[k]
      /\ to[n + 2] = b /\ \A k \in 1..(n + 1) : to[k] = at[k]
  BY <1>0, <1>2
<1>4. at[n + 1] = e
  BY <1>2 DEF Cutting
<1>5. ASSUME NEW k \in 1..(n + 1)
      PROVE  to[k] < to[k + 1] /\ new[k].alignLast = AsksHeading(to[k + 1])
  <2>1. CASE k = n + 1
    <3>1. to[k] = e /\ to[k + 1] = b /\ new[k] = t
      BY <1>2, <1>3, <1>4, <2>1
    <3> QED
      BY <3>1
  <2>2. CASE k # n + 1
    <3>1. k \in 1..n /\ k \in 1..(n + 1) /\ k + 1 \in 1..(n + 1)
      BY <1>2, <2>2
    <3>2. new[k] = list[k] /\ to[k] = at[k] /\ to[k + 1] = at[k + 1]
      BY <1>3, <3>1
    <3> QED
      BY <3>1, <3>2 DEF AsBuilt
  <2> QED
    BY <2>1, <2>2
<1>6. AsBuilt(new, to)
  BY <1>3, <1>5 DEF AsBuilt
<1>7. b >= 1
  BY DEF Drives
<1>8. Len(new) >= 1
  BY <1>2, <1>3
<1> QED
  BY <1>0, <1>1, <1>6, <1>7, <1>8

\* With the task in hand the tasks cut so far drive what is driven.
LEMMA AllDriven ==
  ASSUME PlanTold(route), NEW list, NEW hand, NEW i \in 0..Legs, Driven(list, hand, i)
  PROVE  \E at, T : /\ Cutting(list \o hand, at, T, i) /\ AsBuilt(list \o hand, at)
                    /\ Len(list \o hand) >= 1 <=> i >= 1
<1>1. PICK at, T, e :
        /\ Cutting(list, at, T, e) /\ AsBuilt(list, at)
        /\ Len(list) >= 1 => e >= 1
        /\ e >= 1 /\ e < Legs => MustCut(e)
        /\ \/ hand = <<>> /\ e = i
           \/ \E c : hand = <<c>> /\ InHand(c, e, i)
  BY DEF Driven
<1>2. list \in Seq(T) /\ Len(list) \in Nat
  BY <1>1 DEF Cutting
<1>3. CASE hand = <<>> /\ e = i
  <2>1. list \o hand = list
    BY <1>2, <1>3
  <2>2. ~ (Len(list) >= 1) => i = 0
    <3>1. ~ (Len(list) >= 1) => Len(at) = 1
      BY <1>1, <1>2 DEF Cutting
    <3> QED
      BY <1>1, <1>3, <3>1 DEF Cutting
  <2> QED
    BY <1>1, <1>3, <2>1, <2>2
<1>4. CASE \E c : hand = <<c>> /\ InHand(c, e, i)
  <2>1. PICK c : hand = <<c>> /\ InHand(c, e, i)
    BY <1>4
  <2>2. Drives(c, e, i) /\ e < i /\ c.alignLast = AsksHeading(i)
    BY <2>1 DEF InHand
  <2>3. PICK to : /\ Cutting(Append(list, c), to, T \cup {c}, i)
                  /\ AsBuilt(Append(list, c), to)
                  /\ Len(Append(list, c)) >= 1 /\ i >= 1
    BY <1>1, <2>2, BuiltGoesOn
  <2>4. list \o hand = Append(list, c)
    <3>1. list \in Seq(T \cup {c})
      BY <1>2, SeqMonotonic
    <3> QED
      BY <2>1, <3>1
  <2> QED
    BY <2>3, <2>4
<1> QED
  BY <1>1, <1>3, <1>4

\* An edge more, as a task of its own.
LEMMA NewTaskDrives ==
  ASSUME PlanTold(route), index \in 0..(Legs - 1), NEW mode, NEW a
  PROVE  LET t == NewTask(mode, a, From, To, route.edges[index + 1])
         IN  Drives(t, index, index + 1) /\ t.alignLast = AsksHeading(index + 1)
<1> DEFINE id == route.edges[index + 1]
           t == NewTask(mode, a, From, To, id)
<1>1. Legs \in Nat /\ index + 1 \in 1..Legs /\ index \in 0..(index + 1) /\ index + 1 \in 0..Legs
  BY DEF PlanTold, Legs
<1>2. From = PlaceAt(index) /\ To = PlaceAt(index + 1)
  BY <1>1 DEF From, To, PlaceAt
<1>3. id \in DOMAIN doc.edges /\ From \in Vertices /\ To \in Vertices
  <2>1. /\ route.vertices \in Seq(Vertices) /\ route.edges \in Seq(DOMAIN doc.edges)
        /\ Len(route.vertices) = Legs + 1 /\ Len(route.edges) = Legs
    BY DEF PlanTold, Legs
  <2>2. /\ index + 1 \in 1..Len(route.vertices) /\ index + 2 \in 1..Len(route.vertices)
        /\ index + 1 \in 1..Len(route.edges)
    BY <1>1, <2>1
  <2>3. id \in DOMAIN doc.edges
    BY <2>1, <2>2, ElementOfSeq
  <2>4. route.vertices[index + 1] \in Vertices /\ route.vertices[index + 2] \in Vertices
    BY <2>1, <2>2, ElementOfSeq
  <2> QED
    BY <2>3, <2>4 DEF From, To
<1>4. /\ DOMAIN t = TaskFields /\ t.edges = <<id>> /\ t.waypoints = <<From, To>>
      /\ t.alignLast = doc.vertices[To].yaw
  BY DEF NewTask, TaskFields
<1> HIDE DEF t, id
<1>5. /\ <<id>> \in Seq(DOMAIN doc.edges) /\ Len(<<id>>) = 1 /\ <<id>>[1] = id
      /\ <<From, To>> \in Seq(Vertices) /\ Len(<<From, To>>) = 2
      /\ <<From, To>>[1] = From /\ <<From, To>>[2] = To
  <2>1. \A S, x, y : x \in S /\ y \in S =>
          /\ <<x>> \in Seq(S) /\ Len(<<x>>) = 1 /\ <<x>>[1] = x
          /\ <<x, y>> \in Seq(S) /\ Len(<<x, y>>) = 2
          /\ <<x, y>>[1] = x /\ <<x, y>>[2] = y
    OBVIOUS
  <2> QED
    BY <1>3, <2>1
<1>6. (index + 1) - index = 1 /\ (index + 1)..((index + 1) - 1) = {}
  BY <1>1
<1>7. \A j \in 1..1 : t.edges[j] = route.edges[index + j]
  BY <1>4, <1>5 DEF id
<1>8. Drives(t, index, index + 1)
  BY <1>1, <1>2, <1>4, <1>5, <1>6, <1>7 DEF Drives
<1>9. t.alignLast = AsksHeading(index + 1)
  BY <1>2, <1>4 DEF AsksHeading
<1> QED
  BY <1>8, <1>9 DEF t, id

\* An edge more in the task in hand.
LEMMA ExtendedDrives ==
  ASSUME PlanTold(route), index \in 0..(Legs - 1), NEW c, NEW e, Drives(c, e, index),
         e < index, ~ MustCut(index)
  PROVE  LET t == Extended(c, To, route.edges[index + 1])
         IN  Drives(t, e, index + 1) /\ t.alignLast = AsksHeading(index + 1)
<1> DEFINE id == route.edges[index + 1]
           t == Extended(c, To, id)
           m == index - e
<1>1. /\ Legs \in Nat /\ index + 1 \in 1..Legs /\ e \in 0..(index + 1) /\ index + 1 \in 0..Legs
      /\ index \in Nat /\ e \in Nat
  BY DEF PlanTold, Legs, Drives
<1>2. To = PlaceAt(index + 1)
  BY <1>1 DEF To, PlaceAt
<1>3. id \in DOMAIN doc.edges /\ To \in Vertices
  BY <1>1 DEF PlanTold, Legs, To
<1>4. PICK es, ws : es = Append(c.edges, id) /\ ws = Append(c.waypoints, To)
  OBVIOUS
<1>5. /\ DOMAIN t = TaskFields /\ t.edges = es /\ t.waypoints = ws
      /\ t.alignLast = doc.vertices[To].yaw
  BY <1>4 DEF Extended, Drives, TaskFields
<1> HIDE DEF t, id
<1>6. /\ c.edges \in Seq(DOMAIN doc.edges) /\ Len(c.edges) = m /\ m \in Nat
      /\ \A j \in 1..m : c.edges[j] = route.edges[e + j]
      /\ c.waypoints \in Seq(Vertices) /\ Len(c.waypoints) >= 1 /\ Len(c.waypoints) \in Nat
      /\ c.waypoints[1] = PlaceAt(e)
  BY <1>1 DEF Drives
<1> HIDE DEF m
<1>7. /\ es \in Seq(DOMAIN doc.edges) /\ Len(es) = m + 1 /\ es[m + 1] = id
      /\ \A j \in 1..m : es[j] = c.edges[j]
  <2>1. PICK x : x = c.edges
    OBVIOUS
  <2>2. x \in Seq(DOMAIN doc.edges) /\ Len(x) = m /\ m \in Nat /\ es = Append(x, id)
    BY <1>4, <1>6, <2>1
  <2>3. /\ es \in Seq(DOMAIN doc.edges) /\ Len(es) = m + 1 /\ es[m + 1] = id
        /\ \A j \in 1..m : es[j] = x[j]
    BY <1>3, <2>2
  <2> QED
    BY <2>1, <2>3
<1>8. /\ ws \in Seq(Vertices) /\ Len(ws) = Len(c.waypoints) + 1 /\ ws[Len(ws)] = To
      /\ ws[1] = c.waypoints[1]
  BY <1>3, <1>4, <1>6, AppendProperties
<1>9. (index + 1) - e = m + 1 /\ e + (m + 1) = index + 1
  BY <1>1 DEF m
<1>10. ASSUME NEW j \in 1..(m + 1) PROVE es[j] = route.edges[e + j]
  <2>1. j = m + 1 \/ j \in 1..m
    BY <1>6
  <2> QED
    BY <1>6, <1>7, <1>9, <2>1 DEF id
<1>11. ASSUME NEW j \in (e + 1)..((index + 1) - 1) PROVE ~ MustCut(j)
  <2>1. j = index \/ j \in (e + 1)..(index - 1)
    BY <1>1
  <2> QED
    BY <2>1 DEF Drives
<1>12. Drives(t, e, index + 1)
  <2>1. t.edges \in Seq(DOMAIN doc.edges) /\ Len(t.edges) = (index + 1) - e
    BY <1>5, <1>7, <1>9
  <2>2. \A j \in 1..((index + 1) - e) : t.edges[j] = route.edges[e + j]
    BY <1>5, <1>9, <1>10
  <2>3. /\ t.waypoints \in Seq(Vertices) /\ Len(t.waypoints) >= 1
        /\ t.waypoints[1] = PlaceAt(e) /\ t.waypoints[Len(t.waypoints)] = PlaceAt(index + 1)
    BY <1>2, <1>5, <1>6, <1>8
  <2> QED
    BY <1>1, <1>5, <1>11, <2>1, <2>2, <2>3 DEF Drives
<1>13. t.alignLast = AsksHeading(index + 1)
  BY <1>2, <1>5 DEF AsksHeading
<1> QED
  BY <1>12, <1>13 DEF t, id

\* What is said of a route stays true while the route and the document stay.
LEMMA SameRoute ==
  ASSUME UNCHANGED <<job, route>>
  PROVE  /\ Legs' = Legs /\ \A s : PlanTold(s)' <=> PlanTold(s)
         /\ \A list, hand, i : Driven(list, hand, i)' <=> Driven(list, hand, i)
         /\ \A i : MustCut(i)' <=> MustCut(i)
<1>1. doc' = doc /\ Vertices' = Vertices /\ route' = route /\ Legs' = Legs
  BY DEF doc, Vertices, Legs
<1>2. \A s : PlanTold(s)' <=> PlanTold(s)
  BY <1>1 DEF PlanTold
<1>3. \A a : PlaceAt(a)' = PlaceAt(a) /\ (AsksHeading(a)' <=> AsksHeading(a))
  BY <1>1 DEF PlaceAt, AsksHeading
<1>4. \A i : MustCut(i)' <=> MustCut(i)
  BY <1>1 DEF MustCut
<1>5. ASSUME NEW t, NEW a, NEW b PROVE Drives(t, a, b)' <=> Drives(t, a, b)
  <2>1. (\A i \in (a + 1)..(b - 1) : ~ MustCut(i))' <=> \A i \in (a + 1)..(b - 1) : ~ MustCut(i)
    BY <1>4
  <2>2. PlaceAt(a)' = PlaceAt(a) /\ PlaceAt(b)' = PlaceAt(b)
    BY <1>3
  <2> HIDE DEF PlaceAt, MustCut, Legs, Vertices, doc
  <2> QED
    BY <1>1, <2>1, <2>2 DEF Drives
<1>6. \A list, at, T, e : Cutting(list, at, T, e)' <=> Cutting(list, at, T, e)
  BY <1>1, <1>4, <1>5 DEF Cutting
<1>7. \A list, at : AsBuilt(list, at)' <=> AsBuilt(list, at)
  BY <1>3 DEF AsBuilt
<1>8. ASSUME NEW c, NEW e, NEW i PROVE InHand(c, e, i)' <=> InHand(c, e, i)
  <2>1. \A v : EndsTask(v)' <=> EndsTask(v)
    BY <1>1 DEF EndsTask, IsMandatoryCorner
  <2>2. EndsTask(PlaceAt(i))' <=> EndsTask(PlaceAt(i))
    BY <1>3, <2>1
  <2>3. \A x, y : BusinessMode(x, y)' = BusinessMode(x, y)
    BY DEF BusinessMode
  <2> HIDE DEF doc, Legs, PlaceAt, AsksHeading, EndsTask, BusinessMode, Drives
  <2> QED
    BY <1>1, <1>3, <1>5, <2>2, <2>3 DEF InHand
<1>9. \A list, hand, i : Driven(list, hand, i)' <=> Driven(list, hand, i)
  BY <1>1, <1>4, <1>6, <1>7, <1>8 DEF Driven
<1> QED
  BY <1>1, <1>2, <1>4, <1>9

\* The edge in hand and the one before it.
LEMMA HandIs ==
  ASSUME PlanTold(route), index \in 0..(Legs - 1)
  PROVE  /\ Legs \in Nat /\ index + 1 \in 1..Legs /\ index + 1 \in 0..Legs /\ index \in 0..Legs
         /\ From = PlaceAt(index) /\ To = PlaceAt(index + 1)
         /\ From = route.vertices[index + 1] /\ To = route.vertices[(index + 1) + 1]
         /\ Edge = doc.edges[route.edges[index + 1]]
<1>1. Legs \in Nat /\ index + 1 \in 1..Legs /\ (index + 1) + 1 = index + 2
  BY DEF PlanTold, Legs
<1> QED
  BY <1>1 DEF From, To, Edge, PlaceAt

\* A singleton is cut off on both sides.
LEMMA SingletonCuts ==
  ASSUME PlanTold(route), index \in 0..(Legs - 1), IsSingleton
  PROVE  /\ index >= 1 => MustCut(index)
         /\ index + 1 < Legs => MustCut(index + 1)
<1>1. /\ From = route.vertices[index + 1] /\ To = route.vertices[(index + 1) + 1]
      /\ Edge = doc.edges[route.edges[index + 1]] /\ index \in Nat
      /\ (index + 1) + 1 = index + 2
  BY HandIs
<1>2. \/ BusinessMode(doc.vertices[route.vertices[index + 1]].type,
                      doc.vertices[route.vertices[(index + 1) + 1]].type) # "normal"
      \/ doc.edges[route.edges[index + 1]].obstacle = 4
  BY <1>1 DEF IsSingleton, EdgeMode
<1>3. MustCut(index)
  BY <1>1, <1>2 DEF MustCut
<1>4. MustCut(index + 1)
  BY <1>1, <1>2 DEF MustCut
<1> QED
  BY <1>3, <1>4

LEMMA SingletonKeeps ==
  ASSUME SliceInv, SliceSingleton
  PROVE  SliceInv'
<1>1. /\ slicing /\ index < Legs /\ IsSingleton /\ slicing' /\ index' = index + 1
      /\ current' = <<>> /\ before' = <<Attributes(Edge)>>
      /\ UNCHANGED <<job, route, status>>
  BY DEF SliceSingleton, InLoop, Legs, plannerVars
<1>2. /\ PlanTold(route) /\ Legs >= 1 /\ index \in 0..Legs
      /\ Driven(cut, current, index) /\ (status.success => PlanTold(status))
  BY <1>1 DEF SliceInv
<1>3. Legs \in Nat /\ index \in 0..(Legs - 1)
  BY <1>1, <1>2 DEF PlanTold, Legs
<1>4. /\ index + 1 \in 1..Legs /\ index + 1 \in 0..Legs
      /\ Edge = doc.edges[route.edges[index + 1]]
  BY <1>2, <1>3, HandIs
<1> DEFINE t == NewTask(EdgeMode, Attributes(Edge), From, To, route.edges[index + 1])
           b == index + 1
           list == cut \o current
<1>5. Drives(t, index, b) /\ t.alignLast = AsksHeading(b)
  BY <1>2, <1>3, NewTaskDrives
<1>6. cut' = list \o <<t>>
  BY DEF SliceSingleton
<1> HIDE DEF t
<1>7. PICK at, T : /\ Cutting(list, at, T, index) /\ AsBuilt(list, at)
                   /\ Len(list) >= 1 <=> index >= 1
  BY <1>2, AllDriven
<1> HIDE DEF list
<1>8. (index >= 1 => MustCut(index)) /\ (b < Legs => MustCut(b))
  BY <1>1, <1>2, <1>3, SingletonCuts
<1>9. index < b
  BY <1>3
<1>10. \E to : /\ Cutting(Append(list, t), to, T \cup {t}, b)
               /\ AsBuilt(Append(list, t), to) /\ Len(Append(list, t)) >= 1 /\ b >= 1
  BY <1>5, <1>7, <1>8, <1>9, BuiltGoesOn
<1>11. cut' = Append(list, t)
  <2>1. list \in Seq(T \cup {t})
    BY <1>7, CuttingIs
  <2> QED
    BY <1>6, <2>1
<1> HIDE DEF b
<1>12. Driven(cut', current', b)
  BY <1>1, <1>8, <1>10, <1>11 DEF Driven
<1>13. Driven(cut, current, index)'
  BY <1>1, <1>12, SameRoute DEF b
<1>14. PlanTold(route)' /\ Legs' = Legs /\ (status.success => PlanTold(status))'
  BY <1>1, <1>2, SameRoute
<1>15. (before = IF index = 0 THEN <<>> ELSE <<Attributes(doc.edges[route.edges[index]])>>)'
  <2>1. index' # 0 /\ doc' = doc
    BY <1>1, <1>3 DEF doc
  <2>2. before' = <<Attributes(doc'.edges[route'.edges[index']])>>
    BY <1>1, <1>4, <2>1
  <2>3. \A e : Attributes(e)' = Attributes(e)
    BY DEF Attributes, ResolveController
  <2> QED
    BY <2>1, <2>2, <2>3
<1>16. (index \in 0..Legs)' /\ (Legs >= 1)'
  BY <1>1, <1>2, <1>4, <1>14
<1> QED
  BY <1>1, <1>13, <1>14, <1>15, <1>16 DEF SliceInv

\* Nothing cuts the route before an edge that the task in hand takes.
LEMMA NothingCuts ==
  ASSUME SliceInv, slicing, index \in 0..(Legs - 1), ~ IsSingleton, NEW c, NEW e, InHand(c, e, index),
         ~ (before # <<>> /\ before # <<Attributes(Edge)>>)
  PROVE  ~ MustCut(index)
<1>1. PlanTold(route) /\ before = IF index = 0 THEN <<>> ELSE <<Attributes(doc.edges[route.edges[index]])>>
  BY DEF SliceInv
<1>2. /\ From = route.vertices[index + 1] /\ To = route.vertices[(index + 1) + 1]
      /\ Edge = doc.edges[route.edges[index + 1]] /\ index \in Nat /\ index < Legs
      /\ From = PlaceAt(index) /\ (index + 1) + 1 = index + 2 /\ index \in 0..Legs
  <2>1. Legs \in Nat
    BY <1>1 DEF PlanTold, Legs
  <2> QED
    BY <1>1, <2>1, HandIs
<1>3. index >= 1
  BY <1>2 DEF InHand, Drives
<1>4. before # <<>>
  BY <1>1, <1>2, <1>3
<1>5. <<Attributes(doc.edges[route.edges[index]])>> = <<Attributes(Edge)>>
  BY <1>1, <1>2, <1>3, <1>4
<1>6. Attributes(doc.edges[route.edges[index]]) = Attributes(doc.edges[route.edges[index + 1]])
  BY <1>2, <1>5
<1>7. /\ doc.edges[route.edges[index]].obstacle # 4
      /\ BusinessMode(doc.vertices[route.vertices[index]].type,
                      doc.vertices[route.vertices[index + 1]].type) = "normal"
      /\ ~ EndsTask(From)
  BY <1>2 DEF InHand
<1>8. /\ doc.edges[route.edges[index + 1]].obstacle # 4
      /\ BusinessMode(doc.vertices[route.vertices[index + 1]].type,
                      doc.vertices[route.vertices[index + 2]].type) = "normal"
  BY <1>2 DEF IsSingleton, EdgeMode
<1>9. /\ ~ (doc.vertices[route.vertices[index + 1]].corner
              /\ doc.vertices[route.vertices[index + 1]].mustPass # "no")
      /\ ~ doc.vertices[route.vertices[index + 1]].yaw
  BY <1>2, <1>7 DEF EndsTask, IsMandatoryCorner
<1> QED
  BY <1>2, <1>6, <1>7, <1>8, <1>9 DEF MustCut

\* The task that takes the edge, and the tasks cut before it.
LEMMA EdgeTaken ==
  ASSUME SliceInv, SliceEdge
  PROVE  \E kept, at, T, e, t :
           /\ Cutting(kept, at, T, e) /\ AsBuilt(kept, at)
           /\ Len(kept) >= 1 => e >= 1
           /\ e >= 1 /\ e < Legs => MustCut(e)
           /\ Drives(t, e, index + 1) /\ e < index + 1 /\ t.alignLast = AsksHeading(index + 1)
           /\ LET ends == EndsTask(To) /\ index + 1 < Len(route.edges)
              IN  /\ cut' = IF ends THEN Append(kept, t) ELSE kept
                  /\ current' = IF ends THEN <<>> ELSE <<t>>
<1> DEFINE id == route.edges[index + 1]
           differs == before # <<>> /\ before # <<Attributes(Edge)>>
           starts == current = <<>> \/ differs
           new == NewTask("normal", Attributes(Edge), From, To, id)
           longer == Extended(current[1], To, id)
           ends == EndsTask(To) /\ index + 1 < Len(route.edges)
           list == cut \o current
<1>1. slicing /\ index < Legs /\ ~ IsSingleton
  BY DEF SliceEdge, InLoop, Legs
<1>2. /\ PlanTold(route) /\ index \in 0..Legs /\ Driven(cut, current, index)
      /\ before = IF index = 0 THEN <<>> ELSE <<Attributes(doc.edges[route.edges[index]])>>
  BY <1>1 DEF SliceInv
<1>3. Legs \in Nat /\ index \in 0..(Legs - 1) /\ index \in Nat /\ index < index + 1
  BY <1>1, <1>2 DEF PlanTold, Legs
<1>4. PICK at, T, e :
        /\ Cutting(cut, at, T, e) /\ AsBuilt(cut, at)
        /\ Len(cut) >= 1 => e >= 1
        /\ e >= 1 /\ e < Legs => MustCut(e)
        /\ \/ current = <<>> /\ e = index
           \/ \E c : current = <<c>> /\ InHand(c, e, index)
  BY <1>2 DEF Driven
<1>5. CASE starts
  <2>1. /\ cut' = IF ends THEN Append(list, new) ELSE list
        /\ current' = IF ends THEN <<>> ELSE <<new>>
    BY <1>5 DEF SliceEdge
  <2>2. Drives(new, index, index + 1) /\ new.alignLast = AsksHeading(index + 1)
    BY <1>2, <1>3, NewTaskDrives
  <2> HIDE DEF new, list
  <2>3. PICK to, S : /\ Cutting(list, to, S, index) /\ AsBuilt(list, to)
                     /\ Len(list) >= 1 <=> index >= 1
    BY <1>2, AllDriven DEF list
  <2>4. ASSUME index >= 1 PROVE MustCut(index)
    <3>1. CASE current = <<>> /\ e = index
      BY <1>1, <1>4, <2>4, <3>1
    <3>2. CASE differs
      <4>1. before = <<Attributes(doc.edges[route.edges[index]])>>
        BY <1>2, <2>4, <3>2
      <4>2. Edge = doc.edges[route.edges[index + 1]]
        BY DEF Edge
      <4>3. Attributes(doc.edges[route.edges[index]]) # Attributes(doc.edges[route.edges[index + 1]])
        BY <3>2, <4>1, <4>2
      <4> QED
        BY <4>3 DEF MustCut
    <3>3. current = <<>> => e = index
      <4>1. \A c : <<c>> # <<>>
        OBVIOUS
      <4> QED
        BY <1>4, <4>1
    <3> QED
      BY <1>5, <3>1, <3>2, <3>3
  <2> HIDE DEF ends
  <2>5. /\ Cutting(list, to, S, index) /\ AsBuilt(list, to)
        /\ Len(list) >= 1 => index >= 1
        /\ index >= 1 /\ index < Legs => MustCut(index)
        /\ Drives(new, index, index + 1) /\ index < index + 1
        /\ new.alignLast = AsksHeading(index + 1)
        /\ cut' = IF ends THEN Append(list, new) ELSE list
        /\ current' = IF ends THEN <<>> ELSE <<new>>
    BY <1>3, <2>1, <2>2, <2>3, <2>4
  <2> QED
    BY <2>5 DEF ends
<1>6. CASE ~ starts
  <2>1. PICK c : current = <<c>> /\ InHand(c, e, index)
    BY <1>4, <1>6
  <2>2. /\ cut' = IF ends THEN Append(cut, longer) ELSE cut
        /\ current' = IF ends THEN <<>> ELSE <<longer>>
    BY <1>6 DEF SliceEdge
  <2>3. Drives(c, e, index) /\ e < index
    BY <2>1 DEF InHand
  <2>4. ~ MustCut(index)
    BY <1>1, <1>3, <1>6, <2>1, NothingCuts
  <2>5. PICK t : t = Extended(c, To, id)
    OBVIOUS
  <2>6. Drives(t, e, index + 1) /\ t.alignLast = AsksHeading(index + 1)
    BY <1>2, <1>3, <2>3, <2>4, <2>5, ExtendedDrives
  <2>7. longer = t
    BY <2>1, <2>5
  <2>8. e < index + 1
    BY <1>3, <2>3 DEF Drives
  <2> HIDE DEF longer, ends, starts
  <2>9. /\ Cutting(cut, at, T, e) /\ AsBuilt(cut, at)
        /\ Len(cut) >= 1 => e >= 1
        /\ e >= 1 /\ e < Legs => MustCut(e)
        /\ Drives(t, e, index + 1) /\ e < index + 1
        /\ t.alignLast = AsksHeading(index + 1)
        /\ cut' = IF ends THEN Append(cut, t) ELSE cut
        /\ current' = IF ends THEN <<>> ELSE <<t>>
    BY <1>4, <2>2, <2>6, <2>7, <2>8
  <2> QED
    BY <2>9 DEF ends
<1> QED
  BY <1>5, <1>6

LEMMA EdgeKeeps ==
  ASSUME SliceInv, SliceEdge
  PROVE  SliceInv'
<1>1. /\ slicing /\ index < Legs /\ ~ IsSingleton /\ slicing' /\ index' = index + 1
      /\ before' = <<Attributes(Edge)>> /\ UNCHANGED <<job, route, status>>
  BY DEF SliceEdge, InLoop, Legs, plannerVars
<1>2. /\ PlanTold(route) /\ Legs >= 1 /\ index \in 0..Legs
      /\ (status.success => PlanTold(status))
  BY <1>1 DEF SliceInv
<1>3. Legs \in Nat /\ index \in 0..(Legs - 1) /\ index \in Nat
  BY <1>1, <1>2 DEF PlanTold, Legs
<1> DEFINE b == index + 1
           ends == EndsTask(To) /\ b < Len(route.edges)
<1>4. /\ b \in 1..Legs /\ b \in 0..Legs /\ To = PlaceAt(b)
      /\ From = route.vertices[b] /\ To = route.vertices[b + 1]
      /\ Edge = doc.edges[route.edges[b]]
  BY <1>2, <1>3, HandIs
<1>5. PICK kept, at, T, e, t :
        /\ Cutting(kept, at, T, e) /\ AsBuilt(kept, at)
        /\ Len(kept) >= 1 => e >= 1
        /\ e >= 1 /\ e < Legs => MustCut(e)
        /\ Drives(t, e, b) /\ e < b /\ t.alignLast = AsksHeading(b)
        /\ cut' = IF ends THEN Append(kept, t) ELSE kept
        /\ current' = IF ends THEN <<>> ELSE <<t>>
  BY EdgeTaken
<1>6. /\ doc.edges[route.edges[b]].obstacle # 4
      /\ BusinessMode(doc.vertices[route.vertices[b]].type,
                      doc.vertices[route.vertices[b + 1]].type) = "normal"
  BY <1>1, <1>4 DEF IsSingleton, EdgeMode
<1> HIDE DEF b
<1>7. Driven(cut', current', b)
  <2>1. CASE ends
    <3>1. \E to : /\ Cutting(Append(kept, t), to, T \cup {t}, b)
                  /\ AsBuilt(Append(kept, t), to) /\ Len(Append(kept, t)) >= 1 /\ b >= 1
      BY <1>5, BuiltGoesOn
    <3>2. MustCut(b)
      BY <1>4, <2>1 DEF MustCut, EndsTask, IsMandatoryCorner
    <3>3. cut' = Append(kept, t) /\ current' = <<>>
      BY <1>5, <2>1
    <3> HIDE DEF ends
    <3> QED
      BY <3>1, <3>2, <3>3 DEF Driven
  <2>2. CASE ~ ends
    <3>1. InHand(t, e, b)
      BY <1>4, <1>5, <1>6, <2>2 DEF InHand, Legs
    <3>2. cut' = kept /\ current' = <<t>>
      BY <1>5, <2>2
    <3> HIDE DEF ends
    <3> QED
      BY <1>5, <3>1, <3>2 DEF Driven
  <2> QED
    BY <2>1, <2>2
<1>8. Driven(cut, current, index)'
  BY <1>1, <1>7, SameRoute DEF b
<1>9. PlanTold(route)' /\ Legs' = Legs /\ (status.success => PlanTold(status))'
  BY <1>1, <1>2, SameRoute
<1>10. (before = IF index = 0 THEN <<>> ELSE <<Attributes(doc.edges[route.edges[index]])>>)'
  <2>1. index' # 0 /\ doc' = doc
    BY <1>1, <1>3 DEF doc
  <2>2. before' = <<Attributes(doc'.edges[route'.edges[index']])>>
    BY <1>1, <1>4, <2>1 DEF b
  <2>3. \A x : Attributes(x)' = Attributes(x)
    BY DEF Attributes, ResolveController
  <2> QED
    BY <2>1, <2>2, <2>3
<1>11. (index \in 0..Legs)' /\ (Legs >= 1)'
  BY <1>1, <1>2, <1>4, <1>9 DEF b
<1> QED
  BY <1>1, <1>8, <1>9, <1>10, <1>11 DEF SliceInv

\* The half of SliceInv on the callback stays true while it waits.
LEMMA SliceRests ==
  ASSUME SliceInv, UNCHANGED <<job, route, slicing, index, current, before, cut>>,
         (status.success => PlanTold(status))'
  PROVE  SliceInv'
<1>1. CASE ~ slicing
  BY <1>1 DEF SliceInv
<1>2. CASE slicing
  <2>1. /\ PlanTold(route) /\ Legs >= 1 /\ index \in 0..Legs /\ Driven(cut, current, index)
        /\ before = IF index = 0 THEN <<>> ELSE <<Attributes(doc.edges[route.edges[index]])>>
    BY <1>2 DEF SliceInv
  <2>2. PlanTold(route)' /\ Driven(cut, current, index)' /\ Legs' = Legs
    BY <2>1, SameRoute
  <2>3. (before = IF index = 0 THEN <<>> ELSE <<Attributes(doc.edges[route.edges[index]])>>)'
    <3>1. doc' = doc
      BY DEF doc
    <3>2. \A e : Attributes(e)' = Attributes(e)
      BY DEF Attributes, ResolveController
    <3> QED
      BY <2>1, <3>1, <3>2
  <2> QED
    BY <2>1, <2>2, <2>3 DEF SliceInv
<1> QED
  BY <1>1, <1>2

\* A plan that was told stays one.
LEMMA SamePlan ==
  ASSUME job' = job
  PROVE  \A s : PlanTold(s)' <=> PlanTold(s)
BY DEF PlanTold, Vertices, doc

LEMMA HearRouteKeeps ==
  ASSUME SliceInv, HearRoute
  PROVE  SliceInv'
<1>1. /\ ~ slicing /\ route' = status /\ UNCHANGED <<job, status>> /\ status.success
  BY DEF HearRoute, plannerVars
<1>2. PlanTold(status) /\ PlanTold(route)' /\ (status.success => PlanTold(status))'
  BY <1>1, SamePlan DEF SliceInv
<1>3. CASE Len(status.vertices) = 1
  <2>1. ~ slicing'
    BY <1>1, <1>3 DEF HearRoute
  <2> QED
    BY <1>2, <2>1 DEF SliceInv
<1>4. CASE Len(status.vertices) # 1
  <2>1. index' = 0 /\ current' = <<>> /\ before' = <<>> /\ cut' = <<>>
    BY <1>4 DEF HearRoute
  <2>2. Driven(cut, current, index)'
    <3>1. /\ <<>> \in Seq({}) /\ Len(<<>>) = 0 /\ Len(<<0>>) = 1 /\ <<0>>[1] = 0
          /\ <<0>> \in Seq(0..Legs')
      <4>1. 0 \in 0..Legs'
        BY <1>2 DEF PlanTold, Legs
      <4> QED
        BY <4>1
    <3>2. \A k : k \notin 1..0 /\ k \notin 2..0
      OBVIOUS
    <3>3. Cutting(<<>>, <<0>>, {}, 0)'
      BY <3>1, <3>2 DEF Cutting
    <3>4. AsBuilt(<<>>, <<0>>)'
      BY <3>1, <3>2 DEF AsBuilt
    <3>5. Driven(<<>>, <<>>, 0)'
      BY <3>1, <3>3, <3>4 DEF Driven
    <3> QED
      BY <2>1, <3>5
  <2>3. (Legs >= 1)' /\ (index \in 0..Legs)'
    BY <1>1, <1>2, <1>4, <2>1 DEF PlanTold, Legs
  <2> QED
    BY <1>2, <2>1, <2>2, <2>3 DEF SliceInv
<1> QED
  BY <1>3, <1>4

\* What TasksServeTheRoute asks of a step that publishes tasks.
TasksServe ==
  LET list == tasks'.list
      driven == FlattenSeq([k \in DOMAIN list |-> list[k].edges])
      n == Len(route'.vertices)
  IN  /\ tasks'.request = route'.request
      /\ driven = route'.edges
      /\ list[1].waypoints[1] = route'.start
      /\ \A k \in 1..(Len(list) - 1) :
             Last(list[k].waypoints) = list[k + 1].waypoints[1]
      /\ \A i \in 1..(Len(driven) - 1) :
             TaskOf(list, driven[i]) # TaskOf(list, driven[i + 1]) <=> MustCut(i)'
      /\ \A i \in 1..n :
             i = n \/ (i > 1 /\ doc.vertices[route'.vertices[i]].yaw) =>
             \E t \in ToSet(list) :
                /\ Last(t.waypoints) = route'.vertices[i]
                /\ t.attributes.controller = "pid"
                /\ t.alignGoal
      /\ \A k \in DOMAIN list :
             \/ list[k].stops
             \/ /\ k < Len(list)
                /\ list[k].mode = "normal" /\ list[k + 1].mode = "normal"
                /\ list[k].attributes.controller = list[k + 1].attributes.controller

LEMMA PublishServes ==
  ASSUME SliceInv, PublishTasks
  PROVE  TasksServe
<1>1. /\ slicing /\ index = Legs /\ UNCHANGED <<job, route>>
      /\ tasks' = [request |-> route.request, list |-> Numbered(Expand(cut \o current))]
  BY DEF PublishTasks, Legs, plannerVars
<1>2. PlanTold(route) /\ Legs >= 1 /\ Legs \in 0..Legs /\ Driven(cut, current, Legs)
  BY <1>1 DEF SliceInv
<1> DEFINE all == cut \o current
           list == Expand(all)
<1>3. PICK at, T : /\ Cutting(all, at, T, Legs) /\ AsBuilt(all, at)
                   /\ Len(all) >= 1 <=> Legs >= 1
  BY <1>2, AllDriven
<1> HIDE DEF all
<1>4. PICK at1, T1 : Aligned(list, at1, T1, Legs) /\ Len(list) >= 1
  BY <1>2, <1>3, ExpandAligns
<1> HIDE DEF list
<1>5. RightTasks(Numbered(list))
  BY <1>2, <1>4, TasksAreRight
<1>6. tasks'.request = route.request /\ tasks'.list = Numbered(list)
  BY <1>1 DEF list, all
<1>7. route' = route /\ \A i : MustCut(i)' <=> MustCut(i)
  BY <1>1, SameRoute
<1>8. PICK out : out = Numbered(list)
  OBVIOUS
<1>9. RightTasks(out) /\ tasks'.list = out
  BY <1>5, <1>6, <1>8
<1> DEFINE joins == FlattenSeq([k \in DOMAIN out |-> out[k].edges])
           told == FlattenSeq([k \in DOMAIN tasks'.list |-> tasks'.list[k].edges])
<1>10. told = joins
  BY <1>9
<1>11. joins = route.edges
  BY <1>9 DEF RightTasks
<1>12. told = route'.edges
  BY <1>7, <1>10, <1>11
<1>13. \A i \in 1..(Len(told) - 1) :
         TaskOf(tasks'.list, told[i]) # TaskOf(tasks'.list, told[i + 1]) <=> MustCut(i)'
  <2>1. \A i \in 1..(Len(joins) - 1) :
          TaskOf(out, joins[i]) # TaskOf(out, joins[i + 1]) <=> MustCut(i)
    BY <1>9 DEF RightTasks
  <2> HIDE DEF joins, told
  <2> QED
    BY <1>7, <1>9, <1>10, <2>1
<1> HIDE DEF joins, told
<1>14. /\ tasks'.list[1].waypoints[1] = route'.start
       /\ \A k \in 1..(Len(tasks'.list) - 1) :
              Last(tasks'.list[k].waypoints) = tasks'.list[k + 1].waypoints[1]
  BY <1>7, <1>9 DEF RightTasks
<1>15. \A i \in 1..Len(route'.vertices) :
         i = Len(route'.vertices) \/ (i > 1 /\ doc.vertices[route'.vertices[i]].yaw) =>
         \E t \in ToSet(tasks'.list) :
            /\ Last(t.waypoints) = route'.vertices[i]
            /\ t.attributes.controller = "pid"
            /\ t.alignGoal
  BY <1>7, <1>9 DEF RightTasks
<1>16. \A k \in DOMAIN tasks'.list :
         \/ tasks'.list[k].stops
         \/ /\ k < Len(tasks'.list)
            /\ tasks'.list[k].mode = "normal" /\ tasks'.list[k + 1].mode = "normal"
            /\ tasks'.list[k].attributes.controller = tasks'.list[k + 1].attributes.controller
  BY <1>9 DEF RightTasks
<1> QED
  BY <1>6, <1>7, <1>12, <1>13, <1>14, <1>15, <1>16, Zenon DEF TasksServe, told

\* The one task of a route of one vertex.
LEMMA OneVertexServes ==
  ASSUME SliceInv, HearRoute, Len(status.vertices) = 1
  PROVE  TasksServe
<1> DEFINE g == status.goal
           t == SameVertexTask(g)
           one == <<t>>
           out == Numbered(one)
           s == [k \in DOMAIN out |-> out[k].edges]
<1>1. /\ route' = status /\ status.success
      /\ tasks' = [request |-> status.request, list |-> out]
  BY DEF HearRoute
<1>2. PlanTold(status)
  BY <1>1 DEF SliceInv
<1>3. /\ status.edges = <<>> /\ status.vertices[1] = status.start /\ status.vertices[1] = g
      /\ status.start = g
  BY <1>2 DEF PlanTold
<1>4. t.edges = <<>> /\ t.waypoints = <<g>> /\ t.attributes.controller = "pid"
  BY DEF SameVertexTask, AlignmentTask
<1> HIDE DEF g, t
<1>5. one \in Seq({t}) /\ Len(one) = 1 /\ one[1] = t
  OBVIOUS
<1> HIDE DEF one
<1>6. /\ Len(out) = Len(one) /\ DOMAIN out = 1..Len(one)
      /\ \A k \in 1..Len(one) :
           /\ out[k].edges = one[k].edges /\ out[k].waypoints = one[k].waypoints
           /\ out[k].attributes = one[k].attributes /\ out[k].mode = one[k].mode
           /\ out[k].alignGoal = (k = Len(one) \/ one[k].alignLast)
           /\ \/ out[k].stops
              \/ /\ k < Len(one)
                 /\ out[k].mode = "normal" /\ out[k + 1].mode = "normal"
                 /\ out[k].attributes.controller = out[k + 1].attributes.controller
  BY <1>5, NumberedIs
<1> HIDE DEF out
<1>7. /\ DOMAIN out = {1} /\ Len(out) = 1 /\ out[1].edges = <<>> /\ out[1].waypoints = <<g>>
      /\ out[1].attributes.controller = "pid" /\ out[1].alignGoal /\ out[1].stops
  <2>1. /\ DOMAIN out = 1..1 /\ Len(out) = 1
        /\ out[1].edges = t.edges /\ out[1].waypoints = t.waypoints
        /\ out[1].attributes = t.attributes
        /\ out[1].alignGoal = (1 = 1 \/ one[1].alignLast)
        /\ out[1].stops \/ 1 < 1
    <3>1. 1 \in 1..Len(one) /\ Len(one) = 1 /\ one[1] = t
      BY <1>5
    <3> QED
      BY <1>6, <3>1
  <2>2. out[1].alignGoal /\ out[1].stops
    <3>1. ~ (1 < 1)
      OBVIOUS
    <3>2. out[1].alignGoal
      BY <2>1, Zenon
    <3> QED
      BY <2>1, <3>1, <3>2, Zenon
  <2>3. DOMAIN out = {1}
    BY <2>1
  <2> QED
    BY <1>4, <2>1, <2>2, <2>3
<1>8. FlattenSeq(s) = <<>>
  <2>1. s = [k \in 1..1 |-> out[k].edges]
    BY <1>7
  <2> HIDE DEF s
  <2>2. Len(s) = 1 /\ s[1] = <<>>
    BY <1>7, <2>1
  <2>3. Len(s) \in Nat /\ Len(s) >= 1
    BY <2>2
  <2>4. PICK f : /\ f[1] = s[1] /\ f[Len(s)] = FlattenSeq(s)
                 /\ \A k \in 1..(Len(s) - 1) : f[k + 1] = f[k] \o s[k + 1]
    BY <2>3, FlattenIs
  <2> QED
    BY <2>2, <2>4
<1> HIDE DEF s
<1>9. out[1] \in ToSet(out) /\ Last(out[1].waypoints) = g /\ out[1].waypoints[1] = g
  BY <1>7 DEF ToSet, Last
<1>10. /\ tasks'.request = route'.request /\ tasks'.list = out
       /\ route'.edges = <<>> /\ route'.start = g /\ Len(route'.vertices) = 1
       /\ route'.vertices[1] = g
  BY <1>1, <1>3
<1>11. 1..(Len(out) - 1) = {} /\ 1..(Len(<<>>) - 1) = {} /\ 1..1 = {1}
  BY <1>7
<1> QED
  BY <1>7, <1>8, <1>9, <1>10, <1>11 DEF TasksServe, s

-----------------------------------------------------------------------------
(* The slicer behind the planner *)

\* The edges of a way that visits no vertex twice are told apart by their ends.
LEMMA FreshEdges ==
  ASSUME job \in Jobs, Loadable(doc), NEW w \in Ways, Fresh(w), NEW t, Len(t) = Len(w) - 1,
         \A i \in 1..Len(t) : t[i] = EdgeBetween(doc, w[i], w[i + 1])
  PROVE  \A i, j \in 1..Len(t) : t[i] = t[j] => i = j
<1>1. /\ w \in Seq(Vertices) /\ Len(w) \in Nat /\ Len(w) >= 1
      /\ \A i \in 1..(Len(w) - 1) : w[i + 1] \in Neighbours(doc, w[i])
      /\ \A i, j \in 1..Len(w) : w[i] = w[j] => i = j
  BY DEF Ways, Fresh
<1>2. ASSUME NEW i \in 1..Len(t)
      PROVE  /\ i \in 1..Len(w) /\ i + 1 \in 1..Len(w)
             /\ {w[i], w[i + 1]} = {doc.edges[t[i]].first, doc.edges[t[i]].second}
  <2>1. i \in 1..Len(w) /\ i + 1 \in 1..Len(w) /\ i \in 1..(Len(w) - 1)
    BY <1>1
  <2>2. w[i] \in Vertices /\ w[i + 1] \in Neighbours(doc, w[i])
    BY <1>1, <2>1
  <2>3. Arc(doc, w[i], t[i], w[i + 1])
    BY <2>2, Graph
  <2> QED
    BY <2>1, <2>3 DEF Arc
<1>3. ASSUME NEW i \in 1..Len(t), NEW j \in 1..Len(t), t[i] = t[j]
      PROVE  i = j
  <2>1. {w[i], w[i + 1]} = {w[j], w[j + 1]}
    BY <1>2, <1>3
  <2>2. /\ i \in 1..Len(w) /\ i + 1 \in 1..Len(w)
        /\ j \in 1..Len(w) /\ j + 1 \in 1..Len(w)
    BY <1>2
  <2>3. (i = j \/ i = j + 1) /\ (i + 1 = j \/ i + 1 = j + 1)
    <3>1. (w[i] = w[j] \/ w[i] = w[j + 1]) /\ (w[i + 1] = w[j] \/ w[i + 1] = w[j + 1])
      BY <2>1
    <3> QED
      BY <1>1, <2>2, <3>1
  <2> QED
    BY <2>2, <2>3
<1> QED
  BY <1>3

\* The plan that is told when the goal is settled.
LEMMA GoalTold ==
  ASSUME PlannerInv, GoalSettled
  PROVE  PlanTold(status')
<1>1. /\ searching /\ SearchTrue /\ QueueTrue /\ WaysKnown /\ job \in Jobs /\ Loadable(doc)
  BY DEF PlannerInv, SearchTrue, GoalSettled
<1>2. PICK q \in frontier : q[2] = goal
  BY DEF GoalSettled
<1>3. PICK way, trail : Guides(way, trail)
  BY <1>1 DEF WaysKnown
<1> DEFINE w == way[goal]
           t == trail[goal]
<1>4. goal \in DOMAIN dist
  BY <1>1, <1>2 DEF QueueTrue
<1>5. VertexChain[goal] = w /\ EdgeChain[goal] = t
  BY <1>1, <1>3, <1>4, ChainsAreWays
<1>6. /\ w \in Ways /\ w[1] = start /\ w[Len(w)] = goal /\ Fresh(w)
      /\ t \in Seq(DOMAIN doc.edges) /\ Len(t) = Len(w) - 1
      /\ \A i \in 1..Len(t) : t[i] = EdgeBetween(doc, w[i], w[i + 1])
  BY <1>3, <1>4 DEF Guides
<1> HIDE DEF w, t
<1> DEFINE a == [Failure(start, goal) EXCEPT
                   !.success = TRUE, !.vertices = VertexChain[goal],
                   !.edges = EdgeChain[goal], !.cost = dist[goal]]
<1>7. a.start = start /\ a.goal = goal /\ a.vertices = w /\ a.edges = t
  <2>1. /\ a.start = start /\ a.goal = goal
        /\ a.vertices = VertexChain[goal] /\ a.edges = EdgeChain[goal]
    BY SuccessIs
  <2> HIDE DEF a
  <2> QED
    BY <1>5, <2>1
<1>8. status' = a
  BY DEF GoalSettled
<1> HIDE DEF a
<1>9. \A i, j \in 1..Len(t) : t[i] = t[j] => i = j
  BY <1>1, <1>6, FreshEdges
<1>10. w \in Seq(Vertices) /\ Len(w) = Len(t) + 1
  BY <1>6 DEF Ways
<1>11. PlanTold(a)
  BY <1>6, <1>7, <1>9, <1>10 DEF PlanTold
<1> QED
  BY <1>8, <1>11

LEMMA PlanTells ==
  ASSUME NEW s, NEW g, Plan(s, g), status' # status, status'.success
  PROVE  PlanTold(status')
<1>1. CASE ~ ({s, g} \subseteq Vertices) /\ Fail(s, g)
  <2>1. status' = Failure(s, g)
    BY <1>1 DEF Fail
  <2> QED
    BY <2>1, FailureIs
<1>2. CASE /\ s = g /\ s \in Vertices
           /\ status' = [Failure(s, g) EXCEPT !.success = TRUE, !.vertices = <<s>>]
  <2> DEFINE vs == <<s>>
             a == [Failure(s, g) EXCEPT !.success = TRUE, !.vertices = vs]
  <2>1. status' = a
    BY <1>2
  <2>2. vs \in Seq(Vertices) /\ Len(vs) = 1 /\ vs[1] = s
    BY <1>2
  <2> HIDE DEF vs
  <2>3. a.start = s /\ a.goal = g /\ a.vertices = vs /\ a.edges = <<>>
    BY SameVertexIs
  <2> HIDE DEF a
  <2>4. <<>> \in Seq(DOMAIN doc.edges) /\ Len(<<>>) = 0 /\ 1..0 = {}
    OBVIOUS
  <2>5. /\ a.vertices \in Seq(Vertices) /\ a.edges \in Seq(DOMAIN doc.edges)
        /\ Len(a.vertices) = 1 /\ Len(a.edges) = 0 /\ 1..Len(a.edges) = {}
        /\ a.vertices[1] = s /\ a.start = s /\ a.goal = s
    BY <1>2, <2>2, <2>3, <2>4
  <2>6. PlanTold(a)
    BY <2>5 DEF PlanTold
  <2> QED
    BY <2>1, <2>6
<1> QED
  BY <1>1, <1>2 DEF Plan

\* Whatever the planner does, the status it latches is a plan or a failure.
LEMMA StatusKeeps ==
  ASSUME PlannerInv, SliceInv, [Next]_vars
  PROVE  (status.success => PlanTold(status))'
<1>1. job' = job
  BY DEF Next, PlannerNext, SlicerNext, RequestCallback, MalformedRequest,
         GoalRequestCallback, OdometryCallback, NextRequest, SkipEntry, SettleAndRelax,
         GoalSettled, NoPath, HearFailure, HearRoute, RefuseRoute, SliceSingleton,
         SliceEdge, PublishTasks, vars, plannerVars
<1>2. status.success => PlanTold(status)
  BY DEF SliceInv
<1>3. SUFFICES ASSUME status' # status, status'.success
               PROVE  PlanTold(status')
  BY <1>1, <1>2, SamePlan
<1>4. \A s, g : ~ Fail(s, g)
  <2> SUFFICES ASSUME NEW s, NEW g, Fail(s, g) PROVE FALSE
    OBVIOUS
  <2>1. status' = Failure(s, g)
    BY DEF Fail
  <2> QED
    BY <1>3, <2>1, FailureIs
<1>5. SlicerNext \/ UNCHANGED vars => UNCHANGED plannerVars
  BY DEF SlicerNext, HearFailure, HearRoute, RefuseRoute, SliceSingleton,
         SliceEdge, PublishTasks, vars
<1>6. PlannerNext
  BY <1>3, <1>5 DEF Next, plannerVars
<1>7. CASE RequestCallback
  BY <1>3, <1>7, PlanTells DEF RequestCallback
<1>8. CASE GoalRequestCallback
  <2>1. \E v : Plan(v, Request.goal)
    BY <1>4, <1>8 DEF GoalRequestCallback
  <2> QED
    BY <1>3, <2>1, PlanTells
<1>9. CASE GoalSettled
  BY <1>9, GoalTold
<1>10. ~ MalformedRequest /\ ~ NoPath
  BY <1>4 DEF MalformedRequest, NoPath
<1>11. OdometryCallback \/ SkipEntry \/ (\E u \in Vertices : SettleAndRelax(u))
         => status' = status
  BY DEF OdometryCallback, SkipEntry, SettleAndRelax
<1> QED
  BY <1>3, <1>6, <1>7, <1>8, <1>9, <1>10, <1>11 DEF PlannerNext

LEMMA SliceStep ==
  ASSUME PlannerInv, SliceInv, [Next]_vars
  PROVE  SliceInv'
<1>1. (status.success => PlanTold(status))'
  BY StatusKeeps
<1>2. CASE PlannerNext /\ UNCHANGED slicerVars
  <2>1. UNCHANGED <<job, route, slicing, index, current, before, cut>>
    BY <1>2 DEF PlannerNext, RequestCallback, MalformedRequest, GoalRequestCallback,
                OdometryCallback, NextRequest, SkipEntry, SettleAndRelax, GoalSettled,
                NoPath, slicerVars
  <2> QED
    BY <1>1, <2>1, SliceRests
<1>3. CASE HearFailure \/ UNCHANGED vars
  <2>1. UNCHANGED <<job, route, slicing, index, current, before, cut>>
    BY <1>3 DEF HearFailure, vars, plannerVars, slicerVars
  <2> QED
    BY <1>1, <2>1, SliceRests
<1>4. CASE RefuseRoute \/ PublishTasks
  <2>1. ~ slicing'
    BY <1>4 DEF RefuseRoute, PublishTasks
  <2> QED
    BY <1>1, <2>1 DEF SliceInv
<1> QED
  BY <1>2, <1>3, <1>4, HearRouteKeeps, SingletonKeeps, EdgeKeeps DEF Next, SlicerNext

\* The tasks change by what a status of one vertex and the last pass publish.
LEMMA TasksStep ==
  ASSUME SliceInv, [Next]_vars, tasks' # tasks
  PROVE  TasksServe
<1>1. HearRoute \/ PublishTasks
  BY DEF Next, SlicerNext, HearFailure, RefuseRoute, SliceSingleton, SliceEdge, vars,
         slicerVars
<1>2. HearRoute => Len(status.vertices) = 1
  BY DEF HearRoute
<1> QED
  BY <1>1, <1>2, OneVertexServes, PublishServes

(* Whatever plan the slicer takes and whenever it takes it, the tasks it     *)
(* publishes drive the planned edges in their order, each once, are cut      *)
(* exactly where the attributes, a business pair, a grid edge, a mandatory   *)
(* corner or a heading demand it, turn to every heading asked for under PID, *)
(* and stop where another controller or a business task comes next.          *)
THEOREM TasksCorrect == Spec => TasksServeTheRoute
<1>1. Init => SliceInv
  BY DEF Init, PlannerInit, SlicerInit, SliceInv, NoStatus
<1>2. PlannerInv /\ SliceInv /\ [Next]_vars => SliceInv'
  BY SliceStep
<1>3. ASSUME SliceInv, [Next]_vars
      PROVE  [tasks' # tasks => TasksServe]_vars
  BY <1>3, TasksStep
<1>4. [tasks' # tasks => TasksServe]_vars =>
        [tasks' # tasks =>
           LET list == tasks'.list
               driven == FlattenSeq([k \in DOMAIN list |-> list[k].edges])
               n == Len(route'.vertices)
           IN  /\ tasks'.request = route'.request
               /\ driven = route'.edges
               /\ list[1].waypoints[1] = route'.start
               /\ \A k \in 1..(Len(list) - 1) :
                      Last(list[k].waypoints) = list[k + 1].waypoints[1]
               /\ \A i \in 1..(Len(driven) - 1) :
                      TaskOf(list, driven[i]) # TaskOf(list, driven[i + 1])
                          <=> MustCut(i)'
               /\ \A i \in 1..n :
                      i = n \/ (i > 1 /\ doc.vertices[route'.vertices[i]].yaw) =>
                      \E t \in ToSet(list) :
                         /\ Last(t.waypoints) = route'.vertices[i]
                         /\ t.attributes.controller = "pid"
                         /\ t.alignGoal
               /\ \A k \in DOMAIN list :
                      \/ list[k].stops
                      \/ /\ k < Len(list)
                         /\ list[k].mode = "normal" /\ list[k + 1].mode = "normal"
                         /\ list[k].attributes.controller
                              = list[k + 1].attributes.controller]_vars
  BY DEF TasksServe
<1> QED
  BY <1>1, <1>2, <1>3, <1>4, SearchCorrect, PTL DEF Spec, TasksServeTheRoute

-----------------------------------------------------------------------------
(* The builder of nav2_route3d *)

Form(g) ==
  g = [edges |-> g.edges, lookup |-> g.lookup, next |-> g.next, real |-> g.real, fake |-> g.fake]

LEMMA EmptyIs ==
  ASSUME NEW S
  PROVE  LET g == EmptyGraph(S)
         IN  /\ Form(g) /\ DOMAIN g.edges = {} /\ DOMAIN g.lookup = {} /\ g.next = 1
             /\ g.real = [n \in S |-> {}] /\ g.fake = [n \in S |-> {}]
             /\ g.edges = [x \in {} |-> 0] /\ g.lookup = [x \in {} |-> 0]
BY DEF EmptyGraph, Form

\* What joins new nodes under a new number is in the graph afterwards.
LEMMA AddedIs ==
  ASSUME NEW g, Form(g), NEW id, NEW e, KeyOf(e) \notin DOMAIN g.lookup,
         id \notin DOMAIN g.edges
  PROVE  LET h == addEdge(g, id, e)
         IN  /\ Form(h) /\ h.edges = With(g.edges, id, e)
             /\ h.lookup = With(g.lookup, KeyOf(e), id)
             /\ h.next = LargerOf(g.next, id + 1) /\ h.fake = g.fake
             /\ h.real = [n \in DOMAIN g.real |->
                            IF n = e.start THEN g.real[n] \cup {e.end}
                            ELSE IF n = e.end /\ e.both THEN g.real[n] \cup {e.start}
                            ELSE g.real[n]]
<1> DEFINE es == With(g.edges, id, e)
           ls == With(g.lookup, KeyOf(e), id)
           nx == LargerOf(g.next, id + 1)
           rs == [n \in DOMAIN g.real |->
                            IF n = e.start THEN g.real[n] \cup {e.end}
                            ELSE IF n = e.end /\ e.both THEN g.real[n] \cup {e.start}
                            ELSE g.real[n]]
           h == addEdge(g, id, e)
<1>1. h = [g EXCEPT !.edges = es, !.lookup = ls, !.next = nx, !.real = rs]
  BY DEF addEdge
<1> HIDE DEF h, es, ls, nx, rs
<1>2. h = [edges |-> es, lookup |-> ls, next |-> nx, real |-> rs, fake |-> g.fake]
  BY <1>1 DEF Form
<1>3. Form(h) /\ h.edges = es /\ h.lookup = ls /\ h.next = nx /\ h.real = rs /\ h.fake = g.fake
  BY <1>2 DEF Form
<1> QED
  BY <1>3 DEF h, es, ls, nx, rs

LEMMA MarkedIs ==
  ASSUME NEW g, Form(g), NEW a, NEW others
  PROVE  LET h == markFakeNeighbors(g, a, others)
         IN  /\ Form(h) /\ h.edges = g.edges /\ h.lookup = g.lookup /\ h.next = g.next
             /\ h.real = g.real
             /\ h.fake = [n \in DOMAIN g.fake |->
                            IF n = a THEN g.fake[n] \cup others
                            ELSE IF n \in others THEN g.fake[n] \cup {a} ELSE g.fake[n]]
<1> DEFINE fs == [n \in DOMAIN g.fake |->
                            IF n = a THEN g.fake[n] \cup others
                            ELSE IF n \in others THEN g.fake[n] \cup {a} ELSE g.fake[n]]
           h == markFakeNeighbors(g, a, others)
<1>1. h = [g EXCEPT !.fake = fs]
  BY DEF markFakeNeighbors
<1> HIDE DEF h, fs
<1>2. h = [edges |-> g.edges, lookup |-> g.lookup, next |-> g.next, real |-> g.real, fake |-> fs]
  BY <1>1 DEF Form
<1>3. /\ Form(h) /\ h.edges = g.edges /\ h.lookup = g.lookup /\ h.next = g.next
      /\ h.real = g.real /\ h.fake = fs
  BY <1>2 DEF Form
<1> QED
  BY <1>3 DEF h, fs

LEMMA WithIs ==
  ASSUME NEW f, NEW x, NEW y
  PROVE  /\ DOMAIN With(f, x, y) = DOMAIN f \cup {x} /\ With(f, x, y)[x] = y
         /\ \A z \in DOMAIN f \ {x} : With(f, x, y)[z] = f[z]
BY DEF With

\* The number of every edge below the next one is taken.
EdgesNumbered(g) ==
  /\ Form(g) /\ DOMAIN g.edges = 1..(g.next - 1)
  /\ g.edges = [id \in DOMAIN g.edges |-> g.edges[id]]
  /\ g.lookup = [key \in {KeyOf(g.edges[id]) : id \in DOMAIN g.edges} |-> g.lookup[key]]

GraphTrue(g) == GraphOK(g) /\ IndexMatches(g) /\ NeighboursMatch(g) /\ EdgesNumbered(g)

\* What is fake is among anchors, and goes both ways.
FakesKnown ==
  \A a, b \in Places3D(scene) :
    b \in graph.fake[a] =>
      a \in scene.anchors /\ b \in scene.anchors /\ a \in graph.fake[b] /\ b \notin graph.real[a]

Decided == \A a \in done : scene.near[a] \ {a} \subseteq graph.real[a] \cup graph.fake[a]

\* The chain reaches the poses that are joined, and nothing else is there yet.
ChainGrows ==
  built = "chain" =>
    /\ done = {} /\ \A n \in Places3D(scene) : graph.fake[n] = {}
    /\ \A id \in DOMAIN graph.edges :
         graph.edges[id].source = Chained /\ graph.edges[id].start < joined
           /\ graph.edges[id].end < joined

\* The anchor whose turn it is comes next, and what it sees is open yet.
TurnTrue ==
  /\ built = "connecting" =>
       /\ anchor \in scene.anchors \ done
       /\ \A b \in scene.anchors \ done : anchor <= b
       /\ visible \subseteq scene.near[anchor] \ {anchor}
       /\ visible \cap (graph.real[anchor] \cup graph.fake[anchor]) = {}
       /\ scene.near[anchor] \ {anchor}
            \subseteq graph.real[anchor] \cup graph.fake[anchor] \cup visible
       /\ shortcut_count = countShortcutEdges(anchor)
  /\ built # "connecting" => visible = {} /\ anchor = NoAnchor

\* Whoever joined itself to others had its turn.
StartersHadTurns ==
  \A id \in DOMAIN graph.edges :
    graph.edges[id].source = Shortcut =>
      graph.edges[id].start \in done \cup (IF built = "connecting" THEN {anchor} ELSE {})

\* What was read of the file is as it was written.
ReadSoFar ==
  built = "saved" =>
    /\ unread \subseteq DOMAIN graph.edges
    /\ Form(loaded) /\ loaded.real = graph.real /\ loaded.fake = graph.fake
    /\ DOMAIN loaded.edges = DOMAIN graph.edges \ unread
    /\ loaded.edges = [id \in DOMAIN graph.edges \ unread |-> graph.edges[id]]
    /\ loaded.lookup = [key \in {KeyOf(graph.edges[id]) : id \in DOMAIN graph.edges \ unread} |->
                          graph.lookup[key]]
    /\ loaded.next \in Nat \ {0} /\ loaded.next <= graph.next
    /\ \A id \in DOMAIN loaded.edges : id < loaded.next

BuilderInv ==
  /\ BuilderTypeOK /\ GraphTrue(graph) /\ FakesKnown /\ Decided /\ ChainGrows /\ TurnTrue
  /\ StartersHadTurns /\ QuotaKept /\ ReadSoFar

LEMMA KeySame ==
  ASSUME NEW e, NEW f, e.both = TRUE, f.both = TRUE,
         {e.start, e.end, f.start, f.end} \subseteq Nat
  PROVE  KeyOf(e) = KeyOf(f) <=> {e.start, e.end} = {f.start, f.end}
BY DEF KeyOf, edgeKey

LEMMA EdgeFields ==
  ASSUME NEW g, GraphOK(g), NEW id \in DOMAIN g.edges, scene \in Scenes
  PROVE  /\ g.edges[id].start \in Places3D(scene) /\ g.edges[id].end \in Places3D(scene)
         /\ g.edges[id].both = TRUE /\ g.edges[id].source \in {Chained, Shortcut}
         /\ g.edges[id].start \in Nat /\ g.edges[id].end \in Nat
<1>1. g.edges[id] \in [start : Places3D(scene), end : Places3D(scene), both : {TRUE},
                       source : {Chained, Shortcut}]
  BY DEF GraphOK, Edges3D
<1>2. Places3D(scene) \subseteq Nat
  BY ScenesAssumption DEF Places3D
<1> QED
  BY <1>1, <1>2

\* Two nodes that are no neighbours are joined under the next number.
LEMMA JoinKeeps ==
  ASSUME scene \in Scenes, NEW g, GraphTrue(g),
         NEW a \in Places3D(scene), NEW b \in Places3D(scene), a # b, b \notin g.real[a],
         NEW source \in {Chained, Shortcut}
  PROVE  LET e == Between(a, b, source)
             h == addEdge(g, g.next, e)
         IN  /\ GraphTrue(h) /\ h.fake = g.fake /\ h.next = g.next + 1
             /\ h.edges[g.next] = e /\ DOMAIN h.edges = DOMAIN g.edges \cup {g.next}
             /\ g.next \notin DOMAIN g.edges
             /\ \A id \in DOMAIN g.edges : h.edges[id] = g.edges[id]
             /\ \A n \in Places3D(scene) :
                  h.real[n] = g.real[n] \cup (IF n = a THEN {b} ELSE IF n = b THEN {a} ELSE {})
<1> DEFINE e == Between(a, b, source)
           h == addEdge(g, g.next, e)
<1>1. /\ GraphOK(g) /\ IndexMatches(g) /\ NeighboursMatch(g) /\ EdgesNumbered(g)
      /\ Form(g) /\ g.next \in Nat \ {0} /\ DOMAIN g.edges = 1..(g.next - 1)
      /\ g.real \in [Places3D(scene) -> SUBSET Places3D(scene)]
      /\ g.fake \in [Places3D(scene) -> SUBSET Places3D(scene)]
  BY DEF GraphTrue, GraphOK, EdgesNumbered
<1>2. e = [start |-> a, end |-> b, both |-> TRUE, source |-> source]
  BY DEF Between
<1> HIDE DEF e
<1>3. /\ e.start = a /\ e.end = b /\ e.both = TRUE /\ e.source = source
      /\ e \in [start : Places3D(scene), end : Places3D(scene), both : {TRUE},
                source : {Chained, Shortcut}]
  BY <1>2
<1>4. {a, b} \subseteq Nat
  BY ScenesAssumption DEF Places3D
<1>5. \A id \in DOMAIN g.edges : KeyOf(g.edges[id]) # KeyOf(e)
  <2> SUFFICES ASSUME NEW id \in DOMAIN g.edges, KeyOf(g.edges[id]) = KeyOf(e)
               PROVE  FALSE
    OBVIOUS
  <2>1. /\ g.edges[id].both = TRUE /\ g.edges[id].start \in Nat
        /\ g.edges[id].end \in Nat
    BY <1>1, EdgeFields, Zenon
  <2> DEFINE f == g.edges[id]
  <2> HIDE DEF f
  <2>3. {f.start, f.end} = {e.start, e.end}
    <3>1. f.both = TRUE /\ {f.start, f.end} \subseteq Nat /\ KeyOf(f) = KeyOf(e)
      BY <2>1 DEF f
    <3>2. {f.start, f.end, e.start, e.end} \subseteq Nat
      BY <1>3, <1>4, <3>1
    <3> QED
      BY <1>3, <3>1, <3>2, KeySame
  <2>4. {g.edges[id].start, g.edges[id].end} = {a, b}
    BY <1>3, <2>3 DEF f
  <2>2. g.edges[id] \in Edges3D(g)
    BY DEF Edges3D
  <2> QED
    BY <1>1, <2>2, <2>4 DEF NeighboursMatch
<1>6. KeyOf(e) \notin DOMAIN g.lookup
  BY <1>1, <1>5 DEF IndexMatches
<1>7. g.next \notin DOMAIN g.edges
  BY <1>1
<1>8. /\ Form(h) /\ h.edges = With(g.edges, g.next, e)
      /\ h.lookup = With(g.lookup, KeyOf(e), g.next)
      /\ h.next = LargerOf(g.next, g.next + 1) /\ h.fake = g.fake
      /\ h.real = [n \in DOMAIN g.real |->
                     IF n = e.start THEN g.real[n] \cup {e.end}
                     ELSE IF n = e.end /\ e.both THEN g.real[n] \cup {e.start}
                     ELSE g.real[n]]
  BY <1>1, <1>6, <1>7, AddedIs
<1> HIDE DEF h
<1>9. /\ DOMAIN h.edges = DOMAIN g.edges \cup {g.next} /\ h.edges[g.next] = e
      /\ \A id \in DOMAIN g.edges : h.edges[id] = g.edges[id]
      /\ h.edges = [id \in DOMAIN h.edges |-> h.edges[id]]
  BY <1>7, <1>8 DEF With
<1>10. /\ DOMAIN h.lookup = DOMAIN g.lookup \cup {KeyOf(e)} /\ h.lookup[KeyOf(e)] = g.next
       /\ \A key \in DOMAIN g.lookup : h.lookup[key] = g.lookup[key]
       /\ h.lookup = [key \in DOMAIN h.lookup |-> h.lookup[key]]
  BY <1>6, <1>8 DEF With
<1>11. h.next = g.next + 1
  BY <1>1, <1>8 DEF LargerOf
<1>12. /\ h.real \in [Places3D(scene) -> SUBSET Places3D(scene)]
       /\ \A n \in Places3D(scene) :
            h.real[n] = g.real[n] \cup (IF n = a THEN {b} ELSE IF n = b THEN {a} ELSE {})
  BY <1>1, <1>3, <1>8
<1>13. Edges3D(h) = Edges3D(g) \cup {e}
  BY <1>9 DEF Edges3D
<1>14. KeyOf(e) \in NodePairs
  BY <1>3 DEF KeyOf, edgeKey, NodePairs
<1>15. GraphOK(h)
  <2>1. DOMAIN h.edges \subseteq 1..(h.next - 1) /\ h.next \in Nat \ {0}
    BY <1>1, <1>9, <1>11
  <2>2. Edges3D(h) \subseteq [start : Places3D(scene), end : Places3D(scene), both : {TRUE},
                           source : {Chained, Shortcut}]
    BY <1>1, <1>3, <1>13 DEF GraphOK
  <2>3. DOMAIN h.lookup \subseteq NodePairs
    BY <1>1, <1>10, <1>14 DEF GraphOK
  <2> QED
    BY <1>1, <1>8, <1>12, <2>1, <2>2, <2>3 DEF GraphOK
<1>16. IndexMatches(h)
  <2>1. ASSUME NEW id \in DOMAIN h.edges
        PROVE  LET f == h.edges[id]
               IN  f.start # f.end /\ KeyOf(f) \in DOMAIN h.lookup /\ h.lookup[KeyOf(f)] = id
    <3>1. CASE id = g.next
      BY <1>3, <1>9, <1>10, <3>1
    <3>2. CASE id # g.next
      <4>1. id \in DOMAIN g.edges /\ h.edges[id] = g.edges[id]
        BY <1>9, <3>2
      <4>2. /\ g.edges[id].start # g.edges[id].end /\ KeyOf(g.edges[id]) \in DOMAIN g.lookup
            /\ g.lookup[KeyOf(g.edges[id])] = id
        BY <1>1, <4>1 DEF IndexMatches
      <4> QED
        BY <1>10, <4>1, <4>2
    <3> QED
      BY <3>1, <3>2
  <2>2. ASSUME NEW key \in DOMAIN h.lookup
        PROVE  h.lookup[key] \in DOMAIN h.edges /\ KeyOf(h.edges[h.lookup[key]]) = key
    <3>1. CASE key = KeyOf(e)
      BY <1>9, <1>10, <3>1
    <3>2. CASE key # KeyOf(e)
      <4>1. key \in DOMAIN g.lookup /\ h.lookup[key] = g.lookup[key]
        BY <1>10, <3>2
      <4>2. g.lookup[key] \in DOMAIN g.edges /\ KeyOf(g.edges[g.lookup[key]]) = key
        BY <1>1, <4>1 DEF IndexMatches
      <4> QED
        BY <1>9, <4>1, <4>2
    <3> QED
      BY <3>1, <3>2
  <2> QED
    BY <2>1, <2>2 DEF IndexMatches
<1>17. NeighboursMatch(h)
  <2> SUFFICES ASSUME NEW c \in Places3D(scene), NEW d \in Places3D(scene)
               PROVE  d \in h.real[c] <=> \E f \in Edges3D(h) : {f.start, f.end} = {c, d}
    BY DEF NeighboursMatch
  <2>1. d \in g.real[c] <=> \E f \in Edges3D(g) : {f.start, f.end} = {c, d}
    BY <1>1 DEF NeighboursMatch
  <2>2. {e.start, e.end} = {c, d} <=> (c = a /\ d = b) \/ (c = b /\ d = a)
    BY <1>3
  <2>3. d \in h.real[c] <=> d \in g.real[c] \/ (c = a /\ d = b) \/ (c = b /\ d = a)
    BY <1>12
  <2> QED
    BY <1>13, <2>1, <2>2, <2>3
<1>18. EdgesNumbered(h)
  <2>1. DOMAIN h.edges = 1..(h.next - 1)
    BY <1>1, <1>9, <1>11
  <2>2. DOMAIN h.lookup = {KeyOf(h.edges[id]) : id \in DOMAIN h.edges}
    BY <1>16 DEF IndexMatches
  <2> QED
    BY <1>8, <1>9, <1>10, <2>1, <2>2 DEF EdgesNumbered
<1> QED
  BY <1>7, <1>8, <1>9, <1>11, <1>12, <1>15, <1>16, <1>17, <1>18 DEF GraphTrue, h, e

\* What is marked changes nothing else.
LEMMA MarkKeeps ==
  ASSUME scene \in Scenes, NEW g, GraphTrue(g),
         NEW a \in Places3D(scene), NEW others \in SUBSET Places3D(scene)
  PROVE  LET h == markFakeNeighbors(g, a, others)
         IN  /\ GraphTrue(h) /\ h.edges = g.edges /\ h.real = g.real /\ h.next = g.next
             /\ \A n \in Places3D(scene) :
                  h.fake[n] = g.fake[n] \cup (IF n = a THEN others ELSE IF n \in others THEN {a} ELSE {})
<1> DEFINE h == markFakeNeighbors(g, a, others)
<1>1. /\ GraphOK(g) /\ IndexMatches(g) /\ NeighboursMatch(g) /\ EdgesNumbered(g) /\ Form(g)
      /\ g.fake \in [Places3D(scene) -> SUBSET Places3D(scene)]
  BY DEF GraphTrue, GraphOK, EdgesNumbered
<1>2. /\ Form(h) /\ h.edges = g.edges /\ h.lookup = g.lookup /\ h.next = g.next
      /\ h.real = g.real
      /\ h.fake = [n \in DOMAIN g.fake |->
                     IF n = a THEN g.fake[n] \cup others
                     ELSE IF n \in others THEN g.fake[n] \cup {a} ELSE g.fake[n]]
  BY <1>1, MarkedIs
<1> HIDE DEF h
<1>3. /\ h.fake \in [Places3D(scene) -> SUBSET Places3D(scene)]
      /\ \A n \in Places3D(scene) :
           h.fake[n] = g.fake[n] \cup (IF n = a THEN others ELSE IF n \in others THEN {a} ELSE {})
  BY <1>1, <1>2
<1>4. Edges3D(h) = Edges3D(g)
  BY <1>2 DEF Edges3D
<1>5. GraphOK(h)
  BY <1>1, <1>2, <1>3, <1>4 DEF GraphOK
<1>6. IndexMatches(h)
  BY <1>1, <1>2 DEF IndexMatches
<1>7. NeighboursMatch(h)
  BY <1>1, <1>2, <1>4 DEF NeighboursMatch
<1>8. EdgesNumbered(h)
  <2>1. \A id \in DOMAIN g.edges : KeyOf(h.edges[id]) = KeyOf(g.edges[id])
    BY <1>2
  <2>2. {KeyOf(h.edges[id]) : id \in DOMAIN h.edges}
          = {KeyOf(g.edges[id]) : id \in DOMAIN g.edges}
    BY <1>2, <2>1
  <2> QED
    BY <1>1, <1>2, <2>2, Zenon DEF EdgesNumbered
<1> QED
  BY <1>2, <1>3, <1>5, <1>6, <1>7, <1>8 DEF GraphTrue, h

LEMMA SceneIs ==
  ASSUME scene \in Scenes
  PROVE  /\ scene.poses \in Nat /\ scene.anchors \subseteq Places3D(scene)
         /\ Places3D(scene) = 0..(scene.poses - 1) /\ Places3D(scene) \subseteq Nat
         /\ \A a \in scene.anchors : scene.near[a] \subseteq scene.anchors
         /\ \A a, b \in scene.anchors : a \in scene.near[b] <=> b \in scene.near[a]
<1>1. /\ scene.poses \in Nat /\ scene.anchors \subseteq Places3D(scene)
      /\ scene.near \in [scene.anchors -> SUBSET scene.anchors]
      /\ \A a, b \in scene.anchors : a \in scene.near[b] <=> b \in scene.near[a]
  BY ScenesAssumption
<1>2. Places3D(scene) = 0..(scene.poses - 1)
  BY DEF Places3D
<1>3. Places3D(scene) \subseteq Nat
  BY <1>1, <1>2
<1>4. \A a \in scene.anchors : scene.near[a] \subseteq scene.anchors
  BY <1>1
<1> QED
  BY <1>1, <1>2, <1>3, <1>4

\* Neighbours are neighbours of each other.
LEMMA RealBothWays ==
  ASSUME NEW g, NeighboursMatch(g), NEW a \in Places3D(scene), NEW b \in Places3D(scene)
  PROVE  a \in g.real[b] <=> b \in g.real[a]
<1>1. {a, b} = {b, a}
  OBVIOUS
<1> QED
  BY <1>1 DEF NeighboursMatch

LEMMA PrunedIn ==
  ASSUME NEW a, NEW S, NEW kept \in Pruned(a, S)
  PROVE  kept \subseteq S
<1>1. \A k, T : \A some \in NearestOf(a, T, k) : some \subseteq T
  BY DEF NearestOf
<1>2. PICK some \in SUBSET {b \in S : Distance3D(a, b) >= MinShortcut} :
        kept \in NearestOf(a, some, RayBudget)
  BY DEF Pruned
<1> QED
  BY <1>1, <1>2

\* What counts the shortcuts of a node looks at the edges alone.
LEMMA SameCount ==
  ASSUME graph'.edges = graph.edges
  PROVE  \A n : countShortcutEdges(n)' = countShortcutEdges(n)
BY DEF countShortcutEdges, outgoingEdges

\* The shortcuts of a node, and their number.
Shortcuts(n) == {id \in outgoingEdges(graph, n) : graph.edges[id].source = Shortcut}

LEMMA ShortcutsFinite ==
  ASSUME GraphOK(graph)
  PROVE  \A n : IsFiniteSet(Shortcuts(n)) /\ Shortcuts(n) \subseteq DOMAIN graph.edges
<1>1. graph.next \in Nat \ {0} /\ DOMAIN graph.edges \subseteq 1..(graph.next - 1)
  BY DEF GraphOK
<1>2. IsFiniteSet(1..(graph.next - 1))
  <2>1. 1 \in Int /\ graph.next - 1 \in Int
    BY <1>1
  <2> QED
    BY <2>1, FS_Interval
<1> QED
  BY <1>1, <1>2, FS_Subset DEF Shortcuts, outgoingEdges

LEMMA CountIsNat ==
  ASSUME GraphOK(graph)
  PROVE  \A n : countShortcutEdges(n) \in Nat
<1>1. \A n : countShortcutEdges(n) = Cardinality(Shortcuts(n))
  BY DEF countShortcutEdges, Shortcuts
<1> QED
  BY <1>1, ShortcutsFinite, FS_CardinalityType

LEMMA InvParts ==
  ASSUME BuilderInv
  PROVE  /\ scene \in Scenes /\ GraphTrue(graph) /\ GraphOK(graph) /\ NeighboursMatch(graph)
         /\ BuilderTypeOK /\ FakesKnown /\ Decided /\ ChainGrows /\ TurnTrue
         /\ StartersHadTurns /\ QuotaKept /\ ReadSoFar
BY DEF BuilderInv, BuilderTypeOK, GraphTrue

LEMMA SameScene ==
  ASSUME scene' = scene, GraphTrue(graph')
  PROVE  GraphTrue(graph)'
BY DEF GraphTrue, GraphOK, IndexMatches, NeighboursMatch, EdgesNumbered, Edges3D, Places3D, NodePairs

LEMMA JoinNextKeeps ==
  ASSUME BuilderInv, JoinNext
  PROVE  BuilderInv'
<1>1. /\ built = "chain" /\ joined < scene.poses /\ joined' = joined + 1
      /\ graph' = addEdge(graph, graph.next, Between(joined - 1, joined, Chained))
      /\ UNCHANGED <<scene, built, done, anchor, visible, shortcut_count, loaded, unread>>
  BY DEF JoinNext
<1>2. /\ BuilderTypeOK /\ GraphTrue(graph) /\ FakesKnown /\ ChainGrows /\ TurnTrue
      /\ GraphOK(graph) /\ NeighboursMatch(graph) /\ scene \in Scenes
  BY InvParts
<1> DEFINE a == joined - 1
           b == joined
<1>3. a \in Places3D(scene) /\ b \in Places3D(scene) /\ a # b
  <2>1. joined \in Nat \ {0}
    BY <1>2 DEF BuilderTypeOK
  <2> QED
    BY <1>1, <1>2, <2>1, SceneIs
<1>4. b \notin graph.real[a]
  <2> SUFFICES ASSUME b \in graph.real[a] PROVE FALSE
    OBVIOUS
  <2>1. PICK e \in Edges3D(graph) : {e.start, e.end} = {a, b}
    BY <1>2, <1>3 DEF NeighboursMatch
  <2>2. e.start < joined /\ e.end < joined
    BY <1>1, <1>2, <2>1 DEF ChainGrows, Edges3D
  <2>3. e.start = joined \/ e.end = joined
    BY <2>1
  <2>4. joined \in Nat
    BY <1>2 DEF BuilderTypeOK
  <2> QED
    BY <2>2, <2>3, <2>4
<1> DEFINE source == Chained
           e == Between(a, b, source)
<1>5. Chained \in {Chained, Shortcut}
  OBVIOUS
<1> HIDE DEF a, b
<1>6. /\ GraphTrue(graph') /\ graph'.fake = graph.fake
      /\ graph'.edges[graph.next] = e
      /\ DOMAIN graph'.edges = DOMAIN graph.edges \cup {graph.next}
      /\ graph.next \notin DOMAIN graph.edges
      /\ \A id \in DOMAIN graph.edges : graph'.edges[id] = graph.edges[id]
  <2>1. graph' = addEdge(graph, graph.next, Between(a, b, Chained))
    BY <1>1 DEF a, b
  <2> QED
    BY <1>2, <1>3, <1>4, <1>5, <2>1, JoinKeeps
<1>7. GraphTrue(graph)'
  BY <1>1, <1>6, SameScene
<1>8. BuilderTypeOK'
  <2>1. GraphOK(graph)'
    BY <1>7 DEF GraphTrue
  <2>2. joined' \in Nat \ {0} /\ unread' \subseteq DOMAIN graph'.edges
    BY <1>1, <1>2, <1>6 DEF BuilderTypeOK
  <2> QED
    BY <1>1, <1>2, <2>1, <2>2 DEF BuilderTypeOK
<1>9. FakesKnown'
  BY <1>1, <1>2, <1>6 DEF FakesKnown, ChainGrows
<1>10. ChainGrows'
  <2>1. e.source = Chained /\ e.start < joined' /\ e.end < joined'
    BY <1>1, <1>2 DEF Between, a, b, BuilderTypeOK
  <2>2. ASSUME NEW id \in DOMAIN graph.edges
        PROVE  /\ graph.edges[id].source = Chained /\ graph.edges[id].start < joined'
               /\ graph.edges[id].end < joined'
    <3>1. /\ graph.edges[id].source = Chained /\ graph.edges[id].start < joined
          /\ graph.edges[id].end < joined
      BY <1>1, <1>2 DEF ChainGrows
    <3>2. graph.edges[id].start \in Nat /\ graph.edges[id].end \in Nat /\ joined \in Nat
      BY <1>2, EdgeFields DEF BuilderTypeOK
    <3> QED
      BY <1>1, <3>1, <3>2
  <2>3. done' = {} /\ \A n \in Places3D(scene) : graph'.fake[n] = {}
    BY <1>1, <1>2, <1>6 DEF ChainGrows
  <2> QED
    BY <1>1, <1>6, <2>1, <2>2, <2>3 DEF ChainGrows
<1>11. \A id \in DOMAIN graph'.edges : graph'.edges[id].source = Chained
  BY <1>1, <1>10 DEF ChainGrows
<1>12. StartersHadTurns' /\ QuotaKept'
  BY <1>11 DEF StartersHadTurns, QuotaKept, Chained, Shortcut
<1>13. Decided'
  BY <1>1, <1>10 DEF Decided, ChainGrows
<1>14. TurnTrue'
  BY <1>1, <1>2 DEF TurnTrue
<1>15. ReadSoFar'
  BY <1>1 DEF ReadSoFar
<1> QED
  BY <1>7, <1>8, <1>9, <1>10, <1>12, <1>13, <1>14, <1>15 DEF BuilderInv

\* Nothing but the stage is changed.
LEMMA SameGraphKeeps ==
  ASSUME BuilderInv, UNCHANGED <<scene, graph>>
  PROVE  GraphTrue(graph)' /\ FakesKnown' /\ GraphOK(graph)'
<1>1. GraphTrue(graph)'
  <2>1. GraphTrue(graph')
    BY Zenon DEF BuilderInv
  <2> QED
    BY <2>1, SameScene
<1>2. FakesKnown'
  BY DEF BuilderInv, FakesKnown
<1> QED
  BY <1>1, <1>2 DEF GraphTrue

LEMMA ChainCompleteKeeps ==
  ASSUME BuilderInv, ChainComplete
  PROVE  BuilderInv'
<1>1. /\ built = "chain" /\ built' = "anchors"
      /\ UNCHANGED <<scene, graph, joined, done, anchor, visible, shortcut_count, loaded, unread>>
  BY DEF ChainComplete
<1>2. GraphTrue(graph)' /\ FakesKnown' /\ GraphOK(graph)'
  BY <1>1, SameGraphKeeps
<1>3. \A id \in DOMAIN graph.edges : graph.edges[id].source = Chained
  BY <1>1 DEF BuilderInv, ChainGrows
<1>4. BuilderTypeOK'
  BY <1>1, <1>2 DEF BuilderInv, BuilderTypeOK
<1>5. Decided' /\ ChainGrows' /\ TurnTrue' /\ ReadSoFar'
  BY <1>1 DEF BuilderInv, Decided, ChainGrows, TurnTrue, ReadSoFar
<1>6. StartersHadTurns' /\ QuotaKept'
  BY <1>1, <1>3 DEF StartersHadTurns, QuotaKept, Chained, Shortcut
<1> QED
  BY <1>2, <1>4, <1>5, <1>6 DEF BuilderInv

LEMMA ProcessPoseKeeps ==
  ASSUME BuilderInv, NEW a \in scene.anchors, processPose(a)
  PROVE  BuilderInv'
<1>1. /\ built = "anchors" /\ a \notin done /\ \A b \in scene.anchors \ done : a <= b
      /\ built' = "connecting" /\ anchor' = a /\ shortcut_count' = countShortcutEdges(a)
      /\ UNCHANGED <<scene, joined, done, loaded, unread>>
  BY DEF processPose
<1>2. /\ BuilderTypeOK /\ GraphTrue(graph) /\ GraphOK(graph) /\ NeighboursMatch(graph)
      /\ FakesKnown /\ Decided /\ StartersHadTurns /\ QuotaKept /\ scene \in Scenes
  BY InvParts
<1> DEFINE all == Undecided(a)
<1>3. PICK kept, seen :
        /\ kept \in IF AtQuota(countShortcutEdges(a)) THEN {{}} ELSE Pruned(a, all \ scene.barred[a])
        /\ seen \in SUBSET kept
        /\ graph' = markFakeNeighbors(graph, a, all \ seen) /\ visible' = seen
  BY DEF processPose, LookFrom, filterTimeAndZ, SeenIn
<1>4. seen \subseteq all
  BY <1>3, PrunedIn
<1>5. /\ all = {b \in scene.near[a] : b # a /\ b \notin graph.real[a] /\ b \notin graph.fake[a]}
      /\ all \subseteq scene.anchors /\ all \subseteq Places3D(scene) /\ a \in Places3D(scene)
  BY <1>2, SceneIs DEF Undecided
<1> HIDE DEF all
<1> DEFINE others == all \ seen
<1>6. others \in SUBSET Places3D(scene)
  BY <1>5
<1> HIDE DEF others
<1>7. graph' = markFakeNeighbors(graph, a, others)
  BY <1>3 DEF others
<1>8. /\ GraphTrue(graph') /\ graph'.edges = graph.edges /\ graph'.real = graph.real
      /\ \A n \in Places3D(scene) :
           graph'.fake[n]
             = graph.fake[n] \cup (IF n = a THEN others ELSE IF n \in others THEN {a} ELSE {})
  BY <1>2, <1>5, <1>6, <1>7, MarkKeeps
<1>9. GraphTrue(graph)' /\ GraphOK(graph)'
  BY <1>1, <1>8, SameScene DEF GraphTrue
<1>10. BuilderTypeOK'
  <2>1. shortcut_count' \in Nat
    <3>1. countShortcutEdges(a) \in Nat
      BY <1>2, CountIsNat
    <3> QED
      BY <1>1, <3>1
  <2> QED
    BY <1>1, <1>2, <1>3, <1>4, <1>5, <1>8, <1>9, <2>1 DEF BuilderTypeOK
<1>11. FakesKnown'
  <2> SUFFICES ASSUME NEW c \in Places3D(scene), NEW d \in Places3D(scene),
                      d \in graph'.fake[c]
               PROVE  /\ c \in scene.anchors /\ d \in scene.anchors
                      /\ c \in graph'.fake[d] /\ d \notin graph'.real[c]
    BY <1>1 DEF FakesKnown, Places3D
  <2>1. CASE d \in graph.fake[c]
    <3>1. /\ c \in scene.anchors /\ d \in scene.anchors
          /\ c \in graph.fake[d] /\ d \notin graph.real[c]
      BY <1>2, <2>1 DEF FakesKnown
    <3> QED
      BY <1>8, <3>1
  <2>2. CASE c = a /\ d \in others
    <3>1. d \in all
      BY <2>2 DEF others
    <3>2. d \in scene.anchors /\ d \notin graph.real[a] /\ d # a
      BY <1>5, <3>1
    <3> QED
      BY <1>8, <2>2, <3>2
  <2>3. CASE c \in others /\ c # a /\ d = a
    <3>1. c \in all
      BY <2>3 DEF others
    <3>2. c \in scene.anchors /\ c \notin graph.real[a] /\ a \notin graph.real[c]
      BY <1>2, <1>5, <3>1, RealBothWays
    <3> QED
      BY <1>8, <2>3, <3>2
  <2> QED
    BY <1>8, <2>1, <2>2, <2>3
<1>12. Decided'
  <2>1. done \subseteq Places3D(scene)
    BY <1>2, SceneIs DEF BuilderTypeOK
  <2> QED
    BY <1>1, <1>2, <1>8, <2>1 DEF Decided
<1>13. TurnTrue'
  <2>1. seen \subseteq scene.near[a] \ {a} /\ seen \cap graph.real[a] = {}
    BY <1>4, <1>5
  <2>2. graph'.fake[a] = graph.fake[a] \cup others
    BY <1>5, <1>8
  <2>3. seen \cap graph'.fake[a] = {}
    BY <1>4, <1>5, <2>2 DEF others
  <2>4. scene.near[a] \ {a} \subseteq graph'.real[a] \cup graph'.fake[a] \cup seen
    BY <1>5, <1>8, <2>2 DEF others
  <2>5. countShortcutEdges(a)' = countShortcutEdges(a)
    BY <1>8, SameCount
  <2>6. shortcut_count' = countShortcutEdges(anchor)'
    BY <1>1, <2>5 DEF countShortcutEdges
  <2> QED
    BY <1>1, <1>3, <1>8, <2>1, <2>3, <2>4, <2>6 DEF TurnTrue
<1>14. StartersHadTurns'
  BY <1>1, <1>2, <1>8 DEF StartersHadTurns
<1>15. QuotaKept'
  <2>1. \A n : countShortcutEdges(n)' = countShortcutEdges(n)
    BY <1>8, SameCount
  <2> QED
    BY <1>2, <1>8, <2>1 DEF QuotaKept
<1>16. ChainGrows' /\ ReadSoFar'
  BY <1>1 DEF ChainGrows, ReadSoFar
<1> QED
  BY <1>9, <1>10, <1>11, <1>12, <1>13, <1>14, <1>15, <1>16 DEF BuilderInv

\* What it takes to keep the rest, when an anchor and another one are decided.
LEMMA DecidedPair ==
  ASSUME BuilderInv, NEW b \in scene.anchors, Connect(b)
  PROVE  /\ anchor \in scene.anchors \ done /\ b \notin done /\ anchor < b
         /\ b \in visible /\ b \notin graph.real[anchor] /\ b \notin graph.fake[anchor]
         /\ anchor \notin graph.real[b] /\ anchor \notin graph.fake[b]
         /\ {anchor, b} \subseteq Places3D(scene) /\ {anchor, b} \subseteq Nat
<1>1. built = "connecting" /\ b \in visible
  BY DEF Connect
<1>2. /\ NeighboursMatch(graph) /\ FakesKnown /\ Decided /\ TurnTrue /\ scene \in Scenes
  BY InvParts
<1>3. /\ anchor \in scene.anchors \ done /\ \A c \in scene.anchors \ done : anchor <= c
      /\ b \in scene.near[anchor] /\ b # anchor
      /\ b \notin graph.real[anchor] /\ b \notin graph.fake[anchor]
  BY <1>1, <1>2 DEF TurnTrue
<1>4. {anchor, b} \subseteq Places3D(scene) /\ {anchor, b} \subseteq Nat
  BY <1>2, <1>3, SceneIs
<1>5. anchor \notin graph.real[b] /\ anchor \notin graph.fake[b]
  BY <1>2, <1>3, <1>4, RealBothWays DEF FakesKnown
<1>6. b \notin done
  <2> SUFFICES ASSUME b \in done PROVE FALSE
    OBVIOUS
  <2>1. anchor \in scene.near[b] \ {b}
    BY <1>2, <1>3, SceneIs
  <2> QED
    BY <1>2, <1>5, <2>1 DEF Decided
<1> QED
  BY <1>1, <1>3, <1>4, <1>5, <1>6

LEMMA ConnectMarks ==
  ASSUME BuilderInv, NEW b \in scene.anchors, Connect(b), AtQuota(shortcut_count)
  PROVE  BuilderInv'
<1>1. /\ built = "connecting" /\ visible' = visible \ {b}
      /\ graph' = markFakeNeighbors(graph, anchor, {b})
      /\ UNCHANGED <<scene, built, joined, done, anchor, shortcut_count, loaded, unread>>
  BY DEF Connect
<1>2. /\ BuilderTypeOK /\ GraphTrue(graph) /\ GraphOK(graph) /\ NeighboursMatch(graph)
      /\ FakesKnown /\ Decided /\ TurnTrue /\ StartersHadTurns /\ QuotaKept
      /\ scene \in Scenes
  BY InvParts
<1>3. /\ anchor \in scene.anchors \ done /\ b \notin done /\ anchor < b
      /\ b \in visible /\ b \notin graph.real[anchor] /\ b \notin graph.fake[anchor]
      /\ anchor \notin graph.real[b] /\ anchor \notin graph.fake[b]
      /\ {anchor, b} \subseteq Places3D(scene) /\ {anchor, b} \subseteq Nat
  BY DecidedPair
<1> DEFINE others == {b}
<1>4. others \in SUBSET Places3D(scene)
  BY <1>3
<1> HIDE DEF others
<1>5. /\ GraphTrue(graph') /\ graph'.edges = graph.edges /\ graph'.real = graph.real
      /\ \A n \in Places3D(scene) :
           graph'.fake[n]
             = graph.fake[n] \cup (IF n = anchor THEN others
                                   ELSE IF n \in others THEN {anchor} ELSE {})
  <2>1. graph' = markFakeNeighbors(graph, anchor, others)
    BY <1>1 DEF others
  <2> QED
    BY <1>2, <1>3, <1>4, <2>1, MarkKeeps
<1>6. \A n \in Places3D(scene) :
        graph'.fake[n] = graph.fake[n] \cup (IF n = anchor THEN {b} ELSE IF n = b THEN {anchor} ELSE {})
  BY <1>5 DEF others
<1>7. GraphTrue(graph)' /\ GraphOK(graph)'
  BY <1>1, <1>5, SameScene DEF GraphTrue
<1>8. BuilderTypeOK'
  BY <1>1, <1>2, <1>5, <1>7 DEF BuilderTypeOK
<1>9. FakesKnown'
  <2> SUFFICES ASSUME NEW c \in Places3D(scene), NEW d \in Places3D(scene),
                      d \in graph'.fake[c]
               PROVE  /\ c \in scene.anchors /\ d \in scene.anchors
                      /\ c \in graph'.fake[d] /\ d \notin graph'.real[c]
    BY <1>1 DEF FakesKnown, Places3D
  <2>1. CASE d \in graph.fake[c]
    <3>1. /\ c \in scene.anchors /\ d \in scene.anchors
          /\ c \in graph.fake[d] /\ d \notin graph.real[c]
      BY <1>2, <2>1 DEF FakesKnown
    <3> QED
      BY <1>5, <1>6, <3>1
  <2>2. CASE (c = anchor /\ d = b) \/ (c = b /\ d = anchor)
    BY <1>3, <1>5, <1>6, <2>2
  <2> QED
    BY <1>6, <2>1, <2>2
<1>10. Decided'
  <2>1. done \subseteq Places3D(scene)
    BY <1>2, SceneIs DEF BuilderTypeOK
  <2>2. ASSUME NEW a \in done
        PROVE  scene.near[a] \ {a} \subseteq graph'.real[a] \cup graph'.fake[a]
    <3>1. scene.near[a] \ {a} \subseteq graph.real[a] \cup graph.fake[a]
      BY <1>2 DEF Decided
    <3>2. graph.fake[a] \subseteq graph'.fake[a] /\ graph'.real[a] = graph.real[a]
      BY <1>5, <1>6, <2>1
    <3> QED
      BY <3>1, <3>2
  <2> QED
    BY <1>1, <2>2 DEF Decided
<1>11. TurnTrue'
  <2>1. graph'.fake[anchor] = graph.fake[anchor] \cup {b} /\ graph'.real[anchor] = graph.real[anchor]
    BY <1>3, <1>5, <1>6
  <2>2. countShortcutEdges(anchor)' = countShortcutEdges(anchor)
    BY <1>1, <1>5 DEF countShortcutEdges, outgoingEdges
  <2> QED
    BY <1>1, <1>2, <1>3, <2>1, <2>2 DEF TurnTrue
<1>12. StartersHadTurns'
  BY <1>1, <1>2, <1>5 DEF StartersHadTurns
<1>13. QuotaKept'
  <2>1. \A n : countShortcutEdges(n)' = countShortcutEdges(n)
    BY <1>5, SameCount
  <2> QED
    BY <1>2, <1>5, <2>1 DEF QuotaKept
<1>14. ChainGrows' /\ ReadSoFar'
  BY <1>1 DEF ChainGrows, ReadSoFar
<1> QED
  BY <1>7, <1>8, <1>9, <1>10, <1>11, <1>12, <1>13, <1>14 DEF BuilderInv

LEMMA ConnectJoins ==
  ASSUME BuilderInv, NEW b \in scene.anchors, Connect(b), ~AtQuota(shortcut_count)
  PROVE  BuilderInv'
<1>1. /\ built = "connecting" /\ visible' = visible \ {b}
      /\ graph' = addEdge(graph, graph.next, Between(anchor, b, Shortcut))
      /\ shortcut_count' = shortcut_count + 1
      /\ UNCHANGED <<scene, built, joined, done, anchor, loaded, unread>>
  BY DEF Connect
<1>2. /\ BuilderTypeOK /\ GraphTrue(graph) /\ GraphOK(graph) /\ NeighboursMatch(graph)
      /\ FakesKnown /\ Decided /\ TurnTrue /\ StartersHadTurns /\ QuotaKept
      /\ scene \in Scenes
  BY InvParts
<1>3. /\ anchor \in scene.anchors \ done /\ b \notin done /\ anchor < b
      /\ b \in visible /\ b \notin graph.real[anchor] /\ b \notin graph.fake[anchor]
      /\ anchor \notin graph.real[b] /\ anchor \notin graph.fake[b]
      /\ {anchor, b} \subseteq Places3D(scene) /\ {anchor, b} \subseteq Nat
  BY DecidedPair
<1> DEFINE e == Between(anchor, b, Shortcut)
           new == graph.next
<1>4. /\ GraphTrue(graph') /\ graph'.fake = graph.fake
      /\ graph'.edges[new] = e /\ DOMAIN graph'.edges = DOMAIN graph.edges \cup {new}
      /\ new \notin DOMAIN graph.edges
      /\ \A id \in DOMAIN graph.edges : graph'.edges[id] = graph.edges[id]
      /\ \A n \in Places3D(scene) :
           graph'.real[n] = graph.real[n] \cup (IF n = anchor THEN {b} ELSE IF n = b THEN {anchor} ELSE {})
  <2>1. anchor \in Places3D(scene) /\ b \in Places3D(scene) /\ anchor # b
    BY <1>3
  <2>2. Shortcut \in {Chained, Shortcut}
    OBVIOUS
  <2> QED
    BY <1>1, <1>2, <1>3, <2>1, <2>2, JoinKeeps
<1>5. e.start = anchor /\ e.end = b /\ e.both = TRUE /\ e.source = Shortcut
  BY DEF Between
<1> HIDE DEF e, new
<1>6. GraphTrue(graph)' /\ GraphOK(graph)'
  BY <1>1, <1>4, SameScene DEF GraphTrue
<1>7. BuilderTypeOK'
  BY <1>1, <1>2, <1>4, <1>6 DEF BuilderTypeOK
<1>8. FakesKnown'
  <2> SUFFICES ASSUME NEW c \in Places3D(scene), NEW d \in Places3D(scene),
                      d \in graph.fake[c]
               PROVE  /\ c \in scene.anchors /\ d \in scene.anchors
                      /\ c \in graph.fake[d] /\ d \notin graph'.real[c]
    BY <1>1, <1>4 DEF FakesKnown, Places3D
  <2>1. /\ c \in scene.anchors /\ d \in scene.anchors
        /\ c \in graph.fake[d] /\ d \notin graph.real[c]
    BY <1>2 DEF FakesKnown
  <2> QED
    BY <1>3, <1>4, <2>1
<1>9. Decided'
  <2>1. done \subseteq Places3D(scene)
    BY <1>2, SceneIs DEF BuilderTypeOK
  <2> QED
    BY <1>1, <1>2, <1>4, <2>1 DEF Decided
\* The count goes up by the new edge at both ends, and nowhere else.
<1>10. \A n : Shortcuts(n)' = Shortcuts(n) \cup (IF n \in {anchor, b} THEN {new} ELSE {})
  <2> SUFFICES ASSUME NEW n, NEW id
               PROVE  id \in Shortcuts(n)' <=>
                        id \in Shortcuts(n) \/ (id = new /\ n \in {anchor, b})
    OBVIOUS
  <2>1. CASE id \in DOMAIN graph.edges
    <3>1. graph'.edges[id] = graph.edges[id] /\ id # new
      BY <1>4, <2>1
    <3> QED
      BY <1>4, <2>1, <3>1 DEF Shortcuts, outgoingEdges
  <2>2. CASE id = new
    <3>1. id \notin Shortcuts(n)
      BY <1>4, <2>2 DEF Shortcuts, outgoingEdges
    <3>2. id \in Shortcuts(n)' <=> n \in {anchor, b}
      BY <1>4, <1>5, <2>2 DEF Shortcuts, outgoingEdges
    <3> QED
      BY <2>2, <3>1, <3>2
  <2>3. CASE id \notin DOMAIN graph.edges /\ id # new
    BY <1>4, <2>3 DEF Shortcuts, outgoingEdges
  <2> QED
    BY <2>1, <2>2, <2>3
<1>11. /\ \A n : n \notin {anchor, b} => countShortcutEdges(n)' = countShortcutEdges(n)
       /\ countShortcutEdges(anchor)' = countShortcutEdges(anchor) + 1
  <2>1. \A n : countShortcutEdges(n) = Cardinality(Shortcuts(n))
    BY DEF countShortcutEdges, Shortcuts
  <2>2. \A n : countShortcutEdges(n)' = Cardinality(Shortcuts(n)')
    BY DEF countShortcutEdges, Shortcuts
  <2>3. ASSUME NEW n, n \notin {anchor, b} PROVE Shortcuts(n)' = Shortcuts(n)
    <3>1. Shortcuts(n)' = Shortcuts(n) \cup (IF n \in {anchor, b} THEN {new} ELSE {})
      BY <1>10
    <3> QED
      BY <2>3, <3>1
  <2>4. IsFiniteSet(Shortcuts(anchor)) /\ new \notin Shortcuts(anchor)
    BY <1>2, <1>4, ShortcutsFinite
  <2>5. Shortcuts(anchor)' = Shortcuts(anchor) \cup {new}
    <3>1. PICK n : n = anchor
      OBVIOUS
    <3>2. Shortcuts(n)' = Shortcuts(n) \cup {new}
      BY <1>10, <3>1
    <3>3. Shortcuts(anchor)' = Shortcuts(n)'
      BY <1>1, <3>1
    <3> QED
      BY <3>1, <3>2, <3>3
  <2>6. Cardinality(Shortcuts(anchor) \cup {new}) = Cardinality(Shortcuts(anchor)) + 1
    BY <2>4, FS_AddElement
  <2>7. countShortcutEdges(anchor)' = Cardinality(Shortcuts(anchor) \cup {new})
    <3>1. countShortcutEdges(anchor)' = Cardinality(Shortcuts(anchor)')
      BY <1>1 DEF countShortcutEdges, Shortcuts
    <3> QED
      BY <2>5, <3>1
  <2> QED
    BY <2>1, <2>2, <2>3, <2>6, <2>7
<1>12. TurnTrue'
  <2>1. /\ graph'.real[anchor] = graph.real[anchor] \cup {b}
        /\ graph'.fake[anchor] = graph.fake[anchor]
    BY <1>3, <1>4
  <2>2. shortcut_count' = countShortcutEdges(anchor)'
    BY <1>1, <1>2, <1>11 DEF TurnTrue
  <2> QED
    BY <1>1, <1>2, <1>3, <2>1, <2>2 DEF TurnTrue
<1>13. StartersHadTurns'
  BY <1>1, <1>2, <1>4, <1>5 DEF StartersHadTurns
<1>14. QuotaKept'
  <2>1. Quota > 0 => countShortcutEdges(anchor)' <= Quota
    <3>1. Quota > 0 => shortcut_count < Quota
      BY <1>2, ScenesAssumption DEF AtQuota, BuilderTypeOK
    <3>2. shortcut_count \in Nat /\ Quota \in Nat /\ shortcut_count = countShortcutEdges(anchor)
      BY <1>1, <1>2, ScenesAssumption DEF BuilderTypeOK, TurnTrue
    <3> QED
      BY <1>11, <3>1, <3>2
  <2>2. ASSUME NEW id \in DOMAIN graph'.edges, graph'.edges[id].source = Shortcut,
               NEW s, s = graph'.edges[id].start
        PROVE  s < graph'.edges[id].end /\ (Quota > 0 => countShortcutEdges(s)' <= Quota)
    <3>1. CASE id = new
      <4>1. s = anchor /\ graph'.edges[id].end = b
        BY <1>4, <1>5, <2>2, <3>1
      <4>2. countShortcutEdges(s)' = countShortcutEdges(anchor)'
        BY <1>1, <4>1
      <4> QED
        BY <1>3, <2>1, <4>1, <4>2
    <3>2. CASE id # new
      <4>1. id \in DOMAIN graph.edges /\ graph'.edges[id] = graph.edges[id]
        BY <1>4, <3>2
      <4>2. /\ s < graph.edges[id].end /\ (Quota > 0 => countShortcutEdges(s) <= Quota)
            /\ s \in done \cup {anchor}
        BY <1>1, <1>2, <2>2, <4>1 DEF QuotaKept, StartersHadTurns
      <4>3. CASE s = anchor
        <5>1. countShortcutEdges(s)' = countShortcutEdges(anchor)'
          BY <1>1, <4>3
        <5> QED
          BY <2>1, <4>1, <4>2, <5>1
      <4>4. CASE s # anchor
        <5>1. s \notin {anchor, b}
          BY <1>3, <4>2, <4>4
        <5> QED
          BY <1>11, <4>1, <4>2, <5>1
      <4> QED
        BY <4>3, <4>4
    <3> QED
      BY <3>1, <3>2
  <2> QED
    BY <2>2 DEF QuotaKept
<1>15. ChainGrows' /\ ReadSoFar'
  BY <1>1 DEF ChainGrows, ReadSoFar
<1> QED
  BY <1>6, <1>7, <1>8, <1>9, <1>12, <1>13, <1>14, <1>15 DEF BuilderInv

LEMMA ConnectedKeeps ==
  ASSUME BuilderInv, Connected3D
  PROVE  BuilderInv'
<1>1. /\ built = "connecting" /\ visible = {} /\ built' = "anchors"
      /\ done' = done \cup {anchor} /\ anchor' = NoAnchor
      /\ UNCHANGED <<scene, graph, joined, visible, shortcut_count, loaded, unread>>
  BY DEF Connected3D
<1>2. GraphTrue(graph)' /\ FakesKnown' /\ GraphOK(graph)'
  BY <1>1, SameGraphKeeps
<1>3. BuilderTypeOK /\ Decided /\ TurnTrue /\ StartersHadTurns /\ QuotaKept
  BY InvParts
<1>4. BuilderTypeOK'
  BY <1>1, <1>2, <1>3 DEF BuilderTypeOK, TurnTrue
<1>5. Decided'
  BY <1>1, <1>3 DEF Decided, TurnTrue
<1>6. TurnTrue' /\ ChainGrows' /\ ReadSoFar'
  BY <1>1 DEF TurnTrue, ChainGrows, ReadSoFar
<1>7. StartersHadTurns'
  BY <1>1, <1>3 DEF StartersHadTurns
<1>8. QuotaKept'
  BY <1>1, <1>3 DEF QuotaKept, countShortcutEdges, outgoingEdges
<1> QED
  BY <1>2, <1>4, <1>5, <1>6, <1>7, <1>8 DEF BuilderInv

LEMMA SaveKeeps ==
  ASSUME BuilderInv, Save
  PROVE  BuilderInv'
<1>1. /\ built = "anchors" /\ built' = "saved"
      /\ loaded' = [edges |-> <<>>, lookup |-> <<>>, next |-> 1,
                    real |-> graph.real, fake |-> graph.fake]
      /\ unread' = DOMAIN graph.edges
      /\ UNCHANGED <<scene, graph, joined, done, anchor, visible, shortcut_count>>
  BY DEF Save
<1>2. GraphTrue(graph)' /\ FakesKnown' /\ GraphOK(graph)'
  BY <1>1, SameGraphKeeps
<1>3. /\ BuilderTypeOK /\ Decided /\ TurnTrue /\ StartersHadTurns /\ QuotaKept
      /\ GraphOK(graph) /\ GraphTrue(graph)
  BY InvParts
<1>4. /\ Form(loaded') /\ loaded'.edges = [x \in {} |-> 0] /\ loaded'.lookup = [x \in {} |-> 0]
      /\ loaded'.next = 1 /\ loaded'.real = graph.real /\ loaded'.fake = graph.fake
  <2>1. <<>> = [x \in {} |-> 0]
    OBVIOUS
  <2> QED
    BY <1>1, <2>1 DEF Form
<1>5. GraphOK(loaded)'
  <2>1. /\ DOMAIN loaded'.edges = {} /\ DOMAIN loaded'.lookup = {} /\ Edges3D(loaded') = {}
    BY <1>4 DEF Edges3D
  <2>2. GraphOK(loaded')
    BY <1>3, <1>4, <2>1 DEF GraphOK
  <2> QED
    BY <1>1, <2>2 DEF GraphOK, Edges3D, NodePairs, Places3D
<1>6. BuilderTypeOK'
  BY <1>1, <1>2, <1>3, <1>5 DEF BuilderTypeOK
<1>7. ReadSoFar'
  <2>1. DOMAIN graph'.edges \ unread' = {}
    BY <1>1
  <2>2. {KeyOf(graph'.edges[id]) : id \in DOMAIN graph'.edges \ unread'} = {}
    BY <2>1
  <2>3. loaded'.next <= graph'.next
    BY <1>1, <1>3, <1>4 DEF GraphOK
  <2>4. \A D, f : D = {} => [x \in {} |-> 0] = [x \in D |-> f[x]]
    OBVIOUS
  <2>5. loaded'.edges = [id \in DOMAIN graph'.edges \ unread' |-> graph'.edges[id]]
    BY <1>4, <2>1, <2>4
  <2>6. loaded'.lookup = [key \in {KeyOf(graph'.edges[id]) : id \in DOMAIN graph'.edges \ unread'} |->
                           graph'.lookup[key]]
    BY <1>4, <2>2, <2>4
  <2> QED
    BY <1>1, <1>4, <2>1, <2>3, <2>5, <2>6 DEF ReadSoFar
<1>8. Decided' /\ StartersHadTurns' /\ TurnTrue' /\ ChainGrows'
  BY <1>1, <1>3 DEF Decided, StartersHadTurns, TurnTrue, ChainGrows
<1>9. QuotaKept'
  BY <1>1, <1>3 DEF QuotaKept, countShortcutEdges, outgoingEdges
<1> QED
  BY <1>2, <1>6, <1>7, <1>8, <1>9 DEF BuilderInv

LEMMA LoadEdgeKeeps ==
  ASSUME BuilderInv, NEW id \in unread, LoadEdge(id)
  PROVE  BuilderInv'
<1>1. /\ built = "saved" /\ loaded' = addEdge(loaded, id, graph.edges[id])
      /\ unread' = unread \ {id}
      /\ UNCHANGED <<scene, graph, built, joined, done, anchor, visible, shortcut_count>>
  BY DEF LoadEdge, building
<1>2. GraphTrue(graph)' /\ FakesKnown' /\ GraphOK(graph)'
  BY <1>1, SameGraphKeeps
<1>3. /\ BuilderTypeOK /\ Decided /\ TurnTrue /\ StartersHadTurns /\ QuotaKept /\ ReadSoFar
      /\ GraphOK(graph) /\ GraphTrue(graph) /\ NeighboursMatch(graph) /\ IndexMatches(graph)
      /\ EdgesNumbered(graph) /\ scene \in Scenes
  BY InvParts DEF GraphTrue
<1> DEFINE e == graph.edges[id]
           read == DOMAIN graph.edges \ unread
<1>4. /\ Form(loaded) /\ loaded.real = graph.real /\ loaded.fake = graph.fake
      /\ DOMAIN loaded.edges = read /\ loaded.edges = [x \in read |-> graph.edges[x]]
      /\ loaded.lookup = [key \in {KeyOf(graph.edges[x]) : x \in read} |-> graph.lookup[key]]
      /\ loaded.next \in Nat \ {0} /\ loaded.next <= graph.next
      /\ \A x \in read : x < loaded.next
      /\ unread \subseteq DOMAIN graph.edges
  BY <1>1, <1>3 DEF ReadSoFar
<1>5. /\ id \in DOMAIN graph.edges /\ id \notin read /\ id \notin DOMAIN loaded.edges
      /\ DOMAIN graph.edges \ unread' = read \cup {id}
  BY <1>1, <1>4
<1>6. /\ e.start \in Places3D(scene) /\ e.end \in Places3D(scene) /\ e.both = TRUE
      /\ graph.lookup[KeyOf(e)] = id
  BY <1>3, <1>5, EdgeFields DEF IndexMatches
<1>7. KeyOf(e) \notin DOMAIN loaded.lookup
  <2> SUFFICES ASSUME NEW x \in read, KeyOf(graph.edges[x]) = KeyOf(e) PROVE FALSE
    BY <1>4
  <2>1. x \in DOMAIN graph.edges
    OBVIOUS
  <2>2. graph.lookup[KeyOf(graph.edges[x])] = x
    BY <1>3, <2>1 DEF IndexMatches
  <2> QED
    BY <1>5, <1>6, <2>2
<1> HIDE DEF e, read
<1>8. loaded' = addEdge(loaded, id, e)
  BY <1>1 DEF e
<1>9. /\ Form(loaded') /\ loaded'.edges = With(loaded.edges, id, e)
      /\ loaded'.lookup = With(loaded.lookup, KeyOf(e), id)
      /\ loaded'.next = LargerOf(loaded.next, id + 1) /\ loaded'.fake = loaded.fake
      /\ loaded'.real = [n \in DOMAIN loaded.real |->
                     IF n = e.start THEN loaded.real[n] \cup {e.end}
                     ELSE IF n = e.end /\ e.both THEN loaded.real[n] \cup {e.start}
                     ELSE loaded.real[n]]
  BY <1>4, <1>5, <1>7, <1>8, AddedIs
<1>10. loaded'.real = graph.real
  <2>1. graph.real \in [Places3D(scene) -> SUBSET Places3D(scene)]
    BY <1>3 DEF GraphOK
  <2>2. e.end \in graph.real[e.start] /\ e.start \in graph.real[e.end]
    <3>1. e \in Edges3D(graph)
      BY <1>5 DEF Edges3D, e
    <3>2. {e.start, e.end} = {e.end, e.start}
      OBVIOUS
    <3> QED
      BY <1>3, <1>6, <3>1, <3>2 DEF NeighboursMatch
  <2> DEFINE reals == graph.real
  <2>3. /\ loaded'.real = [n \in DOMAIN reals |->
                     IF n = e.start THEN reals[n] \cup {e.end}
                     ELSE IF n = e.end THEN reals[n] \cup {e.start} ELSE reals[n]]
    BY <1>4, <1>6, <1>9
  <2>4. reals = [n \in DOMAIN reals |-> reals[n]] /\ e.end \in reals[e.start]
        /\ e.start \in reals[e.end]
    BY <2>1, <2>2
  <2> HIDE DEF reals
  <2>5. \A n \in DOMAIN reals : loaded'.real[n] = reals[n]
    BY <2>3, <2>4
  <2>6. loaded'.real = reals
    BY <2>3, <2>4, <2>5
  <2> QED
    BY <2>6 DEF reals
<1>11. /\ loaded'.edges = [x \in read \cup {id} |-> graph.edges[x]]
       /\ DOMAIN loaded'.edges = read \cup {id}
  BY <1>4, <1>9 DEF With, e
<1>12. loaded'.lookup = [key \in {KeyOf(graph.edges[x]) : x \in read \cup {id}} |-> graph.lookup[key]]
  <2>1. {KeyOf(graph.edges[x]) : x \in read \cup {id}}
          = {KeyOf(graph.edges[x]) : x \in read} \cup {KeyOf(e)}
    BY DEF e
  <2> DEFINE keys == {KeyOf(graph.edges[x]) : x \in read}
  <2>2. DOMAIN loaded.lookup = keys /\ loaded.lookup = [key \in keys |-> graph.lookup[key]]
    BY <1>4
  <2> HIDE DEF keys
  <2>3. loaded'.lookup = [key \in keys \cup {KeyOf(e)} |-> graph.lookup[key]]
    BY <1>6, <1>9, <2>2 DEF With
  <2> QED
    BY <2>1, <2>3 DEF keys
<1>13. /\ loaded'.next \in Nat \ {0} /\ loaded'.next <= graph.next
       /\ \A x \in read \cup {id} : x < loaded'.next
  <2>1. id \in 1..(graph.next - 1) /\ graph.next \in Nat \ {0} /\ read \subseteq Nat
    BY <1>3, <1>5 DEF EdgesNumbered, GraphOK, read
  <2>2. loaded'.next = IF loaded.next < id + 1 THEN id + 1 ELSE loaded.next
    BY <1>9 DEF LargerOf
  <2> QED
    BY <1>4, <2>1, <2>2
<1>14. ReadSoFar'
  <2>1. DOMAIN graph'.edges \ unread' = read \cup {id} /\ unread' \subseteq DOMAIN graph'.edges
    BY <1>1, <1>4, <1>5
  <2>2. loaded'.fake = graph'.fake /\ loaded'.real = graph'.real /\ graph' = graph
    BY <1>1, <1>4, <1>9, <1>10
  <2> QED
    BY <1>9, <1>11, <1>12, <1>13, <2>1, <2>2 DEF ReadSoFar
<1>15. GraphOK(loaded)'
  <2>1. DOMAIN loaded'.edges \subseteq 1..(loaded'.next - 1)
    <3>1. read \cup {id} \subseteq 1..(graph.next - 1) /\ graph.next \in Nat
      BY <1>3, <1>5 DEF EdgesNumbered, GraphOK, read
    <3> QED
      BY <1>11, <1>13, <3>1
  <2>2. Edges3D(loaded') \subseteq Edges3D(graph)
    BY <1>5, <1>11 DEF Edges3D, read
  <2>3. DOMAIN loaded'.lookup \subseteq NodePairs
    <3>1. {KeyOf(graph.edges[x]) : x \in read \cup {id}} \subseteq DOMAIN graph.lookup
      BY <1>3, <1>5 DEF IndexMatches, read
    <3> QED
      BY <1>3, <1>12, <3>1 DEF GraphOK
  <2>4. GraphOK(loaded')
    BY <1>3, <1>4, <1>9, <1>10, <1>13, <2>1, <2>2, <2>3 DEF GraphOK
  <2> QED
    BY <1>1, <2>4 DEF GraphOK, Edges3D, NodePairs, Places3D
<1>16. BuilderTypeOK'
  BY <1>1, <1>2, <1>3, <1>15 DEF BuilderTypeOK
<1>17. Decided' /\ StartersHadTurns' /\ TurnTrue' /\ ChainGrows'
  BY <1>1, <1>3 DEF Decided, StartersHadTurns, TurnTrue, ChainGrows
<1>18. QuotaKept'
  BY <1>1, <1>3 DEF QuotaKept, countShortcutEdges, outgoingEdges
<1> QED
  BY <1>2, <1>14, <1>16, <1>17, <1>18 DEF BuilderInv

LEMMA BuilderStep ==
  ASSUME BuilderInv, BuilderNext
  PROVE  BuilderInv'
<1>1. CASE JoinNext
  BY <1>1, JoinNextKeeps
<1>2. CASE ChainComplete
  BY <1>2, ChainCompleteKeeps
<1>3. ASSUME NEW a \in scene.anchors, processPose(a) PROVE BuilderInv'
  BY <1>3, ProcessPoseKeeps
<1>4. ASSUME NEW a \in scene.anchors, Connect(a) PROVE BuilderInv'
  BY <1>4, ConnectMarks, ConnectJoins
<1>5. CASE Connected3D
  BY <1>5, ConnectedKeeps
<1>6. CASE Save
  BY <1>6, SaveKeeps
<1>7. ASSUME NEW id \in unread, LoadEdge(id) PROVE BuilderInv'
  BY <1>7, LoadEdgeKeeps
<1> QED
  BY <1>1, <1>2, <1>3, <1>4, <1>5, <1>6, <1>7 DEF BuilderNext

LEMMA BuilderRests ==
  ASSUME BuilderInv, UNCHANGED builderVars
  PROVE  BuilderInv'
<1>1. UNCHANGED <<scene, graph, built, joined, done, anchor, visible, shortcut_count, loaded, unread>>
  BY DEF builderVars, building
<1>2. GraphTrue(graph)' /\ FakesKnown' /\ GraphOK(graph)'
  BY <1>1, SameGraphKeeps
<1>3. /\ BuilderTypeOK /\ Decided /\ TurnTrue /\ StartersHadTurns /\ QuotaKept /\ ReadSoFar
      /\ ChainGrows
  BY InvParts DEF BuilderInv
<1>4. BuilderTypeOK'
  BY <1>1, <1>3 DEF BuilderTypeOK, GraphOK, Edges3D, NodePairs, Places3D
<1>5. Decided' /\ StartersHadTurns' /\ ChainGrows'
  BY <1>1, <1>3 DEF Decided, StartersHadTurns, ChainGrows, Places3D
<1>6. TurnTrue' /\ QuotaKept'
  BY <1>1, <1>3 DEF TurnTrue, QuotaKept, countShortcutEdges, outgoingEdges
<1>7. ReadSoFar'
  BY <1>1, <1>3 DEF ReadSoFar, Form
<1> QED
  BY <1>2, <1>3, <1>4, <1>5, <1>6, <1>7 DEF BuilderInv

LEMMA BuilderStarts ==
  ASSUME BuilderInit
  PROVE  BuilderInv
<1>1. /\ scene \in Scenes /\ graph = EmptyGraph(Places3D(scene))
      /\ built = "chain" /\ joined = 1 /\ done = {} /\ anchor = NoAnchor
      /\ visible = {} /\ shortcut_count = 0 /\ unread = {}
  BY DEF BuilderInit
<1>2. /\ Form(graph) /\ DOMAIN graph.edges = {} /\ DOMAIN graph.lookup = {} /\ graph.next = 1
      /\ graph.real = [n \in Places3D(scene) |-> {}] /\ graph.fake = [n \in Places3D(scene) |-> {}]
      /\ graph.edges = [x \in {} |-> 0] /\ graph.lookup = [x \in {} |-> 0]
  BY <1>1, EmptyIs
<1>3. Edges3D(graph) = {}
  BY <1>2 DEF Edges3D
<1>4. GraphOK(graph) /\ IndexMatches(graph) /\ NeighboursMatch(graph)
  BY <1>2, <1>3 DEF GraphOK, IndexMatches, NeighboursMatch
<1>5. EdgesNumbered(graph)
  <2>1. {KeyOf(graph.edges[id]) : id \in DOMAIN graph.edges} = {}
    BY <1>2
  <2>2. \A D, f : D = {} => [x \in {} |-> 0] = [x \in D |-> f[x]]
    OBVIOUS
  <2> QED
    BY <1>2, <2>1, <2>2 DEF EdgesNumbered
<1>6. BuilderTypeOK
  BY <1>1, <1>2, <1>4 DEF BuilderTypeOK
<1>7. FakesKnown /\ Decided /\ ChainGrows /\ TurnTrue /\ StartersHadTurns /\ QuotaKept /\ ReadSoFar
  BY <1>1, <1>2 DEF FakesKnown, Decided, ChainGrows, TurnTrue, StartersHadTurns, QuotaKept, ReadSoFar
<1> QED
  BY <1>4, <1>5, <1>6, <1>7 DEF BuilderInv, GraphTrue

LEMMA BuilderIsSafe ==
  ASSUME BuilderInv
  PROVE  BuilderSafe
<1>1. /\ BuilderTypeOK /\ GraphOK(graph) /\ IndexMatches(graph) /\ NeighboursMatch(graph)
      /\ EdgesNumbered(graph) /\ FakesKnown /\ Decided /\ QuotaKept /\ ReadSoFar /\ scene \in Scenes
  BY DEF BuilderInv, GraphTrue, BuilderTypeOK
<1>2. DecidedOnce
  <2>1. graph.fake \in [Places3D(scene) -> SUBSET Places3D(scene)]
        /\ graph.real \in [Places3D(scene) -> SUBSET Places3D(scene)]
    BY <1>1 DEF GraphOK
  <2>2. scene.anchors \subseteq Places3D(scene)
    BY <1>1, ScenesAssumption
  <2> QED
    BY <1>1, <2>1, <2>2 DEF FakesKnown, Decided, DecidedOnce
<1>3. ComesBack
  <2> SUFFICES ASSUME built = "saved", unread = {} PROVE loaded = graph
    BY DEF ComesBack
  <2>1. DOMAIN graph.edges \ unread = DOMAIN graph.edges
    OBVIOUS
  <2>2. loaded.edges = graph.edges /\ loaded.lookup = graph.lookup
    BY <1>1, <2>1 DEF ReadSoFar, EdgesNumbered
  <2>3. loaded.next = graph.next
    <3>1. graph.next \in Nat \ {0} /\ loaded.next \in Nat \ {0} /\ loaded.next <= graph.next
      BY <1>1 DEF GraphOK, ReadSoFar
    <3>2. CASE graph.next = 1
      BY <3>1, <3>2
    <3>3. CASE graph.next # 1
      <4>1. graph.next - 1 \in DOMAIN graph.edges
        BY <1>1, <3>1, <3>3 DEF EdgesNumbered
      <4>2. graph.next - 1 < loaded.next
        BY <1>1, <2>2, <4>1 DEF ReadSoFar
      <4> QED
        BY <3>1, <4>2
    <3> QED
      BY <3>2, <3>3
  <2>4. loaded.real = graph.real /\ loaded.fake = graph.fake /\ Form(loaded) /\ Form(graph)
    BY <1>1 DEF ReadSoFar, EdgesNumbered
  <2> QED
    BY <2>2, <2>3, <2>4 DEF Form
<1> QED
  BY <1>1, <1>2, <1>3 DEF BuilderSafe

-----------------------------------------------------------------------------
(* The route server *)

Holding == {"intent", "planning", "converting", "telling"}
Served == {"accepted", "intent", "planning", "converting", "telling",
           "publishing", "finishing", "succeeded", "aborted"}

\* The lock is held by the goal whose thread is between taking and giving it back.
HolderKnown == \A g \in Goals : goals[g].phase \in Holding <=> graph_mutex_ = g

\* Whoever is served met a node that was configured and had a graph.
ServerThere ==
  ~cleaned =>
    /\ graph_.empty = FALSE => planner_ = TRUE
    /\ \A g \in Goals :
         /\ goals[g].phase # "unknown" => Configured
         /\ goals[g].phase \in Served => planner_ = TRUE

\* Each part of an answer is made of the graph that was there when the lock was taken.
AnswersGrow ==
  ~cleaned => \A g \in Goals :
    LET o == goals[g]
    IN  /\ o.since <= graph_.load
        /\ o.phase \in {"converting", "telling", "publishing", "finishing", "succeeded"} =>
             o.since <= o.route /\ o.route <= graph_.load
        /\ o.phase \in {"converting", "telling"} => o.route = graph_.load
        /\ o.phase \in {"telling", "publishing", "finishing", "succeeded"} => o.path = o.route
        /\ o.phase \in {"publishing", "finishing", "succeeded"} => o.message = o.route

ServerInv ==
  /\ Server3TypeOK /\ HolderKnown /\ ServerThere /\ AnswersGrow /\ NothingBreaks
  /\ MarkersAreCurrent

\* A goal's record, and nobody else's, changes.
LEMMA GoalChanges ==
  ASSUME Server3TypeOK, NEW g \in Goals, NEW r,
         r \in [phase : Phases, since : Nat, route : Nat, path : Nat,
                message : Nat, onTopic : BOOLEAN],
         goals' = [goals EXCEPT ![g] = r]
  PROVE  /\ goals' \in [Goals -> [phase : Phases, since : Nat, route : Nat, path : Nat,
                                  message : Nat, onTopic : BOOLEAN]]
         /\ goals'[g] = r /\ \A h \in Goals \ {g} : goals'[h] = goals[h]
BY DEF Server3TypeOK

LEMMA ServerStarts ==
  ASSUME Server3Init
  PROVE  ServerInv
<1>1. Server3TypeOK
  BY DEF Server3Init, Server3TypeOK, FreshGoal, Phases
<1>2. HolderKnown
  BY ServerAssumption DEF Server3Init, HolderKnown, FreshGoal, Holding
<1> QED
  BY <1>1, <1>2 DEF Server3Init, ServerInv, ServerThere, AnswersGrow, NothingBreaks,
     MarkersAreCurrent, FreshGoal, Served

\* A graph comes in when nobody holds the lock, or before any goal was taken.
LEMMA ReloadKeeps ==
  ASSUME ServerInv, NEW loads \in BOOLEAN, reloadGraph(loads), UNCHANGED <<goals, cleaned, graph_mutex_>>,
         cleaned \/ graph_mutex_ = Nobody,
         server3' \in {"inactive", "active", "unconfigured"},
         Configured => server3' = server3, ~Configured => server3' # "active"
  PROVE  /\ graph_' \in [load : Nat, empty : BOOLEAN] /\ shown' \in Nat /\ planner_' \in BOOLEAN
         /\ HolderKnown' /\ ServerThere' /\ AnswersGrow' /\ MarkersAreCurrent'
<1>1. /\ Server3TypeOK /\ HolderKnown /\ ServerThere /\ AnswersGrow /\ MarkersAreCurrent
  BY DEF ServerInv
<1>2. graph_ \in [load : Nat, empty : BOOLEAN] /\ shown \in Nat /\ planner_ \in BOOLEAN
  BY <1>1 DEF Server3TypeOK
<1>3. /\ graph_' \in [load : Nat, empty : BOOLEAN] /\ shown' \in Nat /\ planner_' \in BOOLEAN
      /\ graph_.load <= graph_'.load /\ (planner_ = TRUE => planner_' = TRUE)
      /\ (graph_' # graph_ => planner_' = TRUE)
      /\ (server3 = "active" => (shown = graph_.load => shown' = graph_'.load))
  <2>1. CASE loads = FALSE
    BY <1>2, <2>1 DEF reloadGraph
  <2>2. CASE loads = TRUE
    <3>1. PICK empty \in BOOLEAN : graph_' = [load |-> graph_.load + 1, empty |-> empty]
      BY <2>2 DEF reloadGraph
    <3>2. /\ planner_' = TRUE
          /\ shown' = IF server3 = "active" THEN graph_.load + 1 ELSE shown
      BY <2>2 DEF reloadGraph, publishGraphMarkers
    <3> QED
      BY <1>2, <3>1, <3>2
  <2> QED
    BY <2>1, <2>2
<1>4. HolderKnown'
  BY <1>1 DEF HolderKnown
<1>5. ServerThere'
  BY <1>1, <1>2, <1>3 DEF ServerThere, Configured
<1>6. AnswersGrow'
  <2> SUFFICES ASSUME ~cleaned, NEW g \in Goals
               PROVE  LET o == goals[g]
                      IN  /\ o.since <= graph_'.load
                          /\ o.phase \in {"converting", "telling", "publishing", "finishing", "succeeded"} =>
                               o.since <= o.route /\ o.route <= graph_'.load
                          /\ o.phase \in {"converting", "telling"} => o.route = graph_'.load
                          /\ o.phase \in {"telling", "publishing", "finishing", "succeeded"} => o.path = o.route
                          /\ o.phase \in {"publishing", "finishing", "succeeded"} => o.message = o.route
    BY DEF AnswersGrow
  <2>1. goals[g].phase \notin {"converting", "telling"}
    BY <1>1, ServerAssumption DEF HolderKnown, Holding
  <2>2. goals[g].since \in Nat /\ goals[g].route \in Nat
    BY <1>1 DEF Server3TypeOK
  <2> QED
    BY <1>1, <1>2, <1>3, <2>1, <2>2 DEF AnswersGrow
<1>7. MarkersAreCurrent'
  BY <1>1, <1>3 DEF MarkersAreCurrent, Configured, Server3TypeOK
<1> QED
  BY <1>3, <1>4, <1>5, <1>6, <1>7

LEMMA ConfigureKeeps ==
  ASSUME ServerInv, on_configure
  PROVE  ServerInv'
<1>1. /\ Server3TypeOK /\ HolderKnown /\ ServerThere /\ AnswersGrow /\ MarkersAreCurrent
      /\ NothingBreaks
  BY DEF ServerInv
<1>2. /\ server3 = "unconfigured" /\ ~broken /\ ~Configured
      /\ UNCHANGED <<graph_mutex_, goals, cleaned>>
  BY DEF on_configure, Running, goalVars, Configured
<1>3. cleaned \/ graph_mutex_ = Nobody
  BY <1>1, <1>2 DEF HolderKnown, ServerThere, Server3TypeOK, Holding
<1>4. CASE server3' = "inactive" /\ UNCHANGED <<graph_, planner_, shown, broken>>
  <2>1. Server3TypeOK' /\ HolderKnown'
    BY <1>1, <1>2, <1>4 DEF Server3TypeOK, HolderKnown
  <2>2. ServerThere' /\ AnswersGrow' /\ NothingBreaks' /\ MarkersAreCurrent'
    BY <1>1, <1>2, <1>4 DEF ServerThere, AnswersGrow, NothingBreaks, MarkersAreCurrent, Configured
  <2> QED
    BY <2>1, <2>2 DEF ServerInv
<1>5. CASE /\ reloadGraph(TRUE) /\ server3' = "inactive"
           /\ broken' \in IF graph_mutex_ = Nobody THEN {FALSE} ELSE BOOLEAN
  <2>1. /\ graph_' \in [load : Nat, empty : BOOLEAN] /\ shown' \in Nat /\ planner_' \in BOOLEAN
        /\ HolderKnown' /\ ServerThere' /\ AnswersGrow' /\ MarkersAreCurrent'
    BY <1>2, <1>3, <1>5, ReloadKeeps
  <2>2. broken' \in BOOLEAN /\ (broken' => cleaned')
    BY <1>2, <1>3, <1>5
  <2>3. Server3TypeOK'
    BY <1>1, <1>2, <1>5, <2>1, <2>2 DEF Server3TypeOK
  <2> QED
    BY <2>1, <2>2, <2>3 DEF ServerInv, NothingBreaks
<1>6. CASE reloadGraph(FALSE) /\ UNCHANGED <<server3, broken>>
  <2>1. /\ graph_' \in [load : Nat, empty : BOOLEAN] /\ shown' \in Nat /\ planner_' \in BOOLEAN
        /\ HolderKnown' /\ ServerThere' /\ AnswersGrow' /\ MarkersAreCurrent'
    BY <1>2, <1>3, <1>6, ReloadKeeps
  <2>3. Server3TypeOK' /\ NothingBreaks'
    BY <1>1, <1>2, <1>6, <2>1 DEF Server3TypeOK, NothingBreaks
  <2> QED
    BY <2>1, <2>3 DEF ServerInv
<1> QED
  BY <1>4, <1>5, <1>6 DEF on_configure

LEMMA SetGraphKeeps ==
  ASSUME ServerInv, NEW loads \in BOOLEAN, setRouteGraph(loads)
  PROVE  ServerInv'
<1>1. /\ Server3TypeOK /\ NothingBreaks
  BY DEF ServerInv
<1>2. /\ Configured /\ graph_mutex_ = Nobody /\ reloadGraph(loads)
      /\ UNCHANGED <<server3, graph_mutex_, goals, cleaned, broken>>
  BY DEF setRouteGraph, goalVars
<1>3. /\ graph_' \in [load : Nat, empty : BOOLEAN] /\ shown' \in Nat /\ planner_' \in BOOLEAN
      /\ HolderKnown' /\ ServerThere' /\ AnswersGrow' /\ MarkersAreCurrent'
  BY <1>1, <1>2, ReloadKeeps DEF Server3TypeOK
<1>4. Server3TypeOK' /\ NothingBreaks'
  BY <1>1, <1>2, <1>3 DEF Server3TypeOK, NothingBreaks
<1> QED
  BY <1>3, <1>4 DEF ServerInv

LEMMA LifecycleKeeps ==
  ASSUME ServerInv, on_activate \/ on_deactivate \/ on_cleanup
  PROVE  ServerInv'
<1>1. /\ Server3TypeOK /\ HolderKnown /\ ServerThere /\ AnswersGrow /\ MarkersAreCurrent
      /\ NothingBreaks
  BY DEF ServerInv
<1>2. CASE on_activate
  <2>1. Server3TypeOK' /\ HolderKnown'
    BY <1>1, <1>2 DEF on_activate, goalVars, Server3TypeOK, HolderKnown
  <2>2. ServerThere' /\ AnswersGrow' /\ NothingBreaks' /\ MarkersAreCurrent'
    BY <1>1, <1>2 DEF on_activate, goalVars, ServerThere, AnswersGrow, NothingBreaks,
       MarkersAreCurrent, Configured
  <2> QED
    BY <2>1, <2>2 DEF ServerInv
<1>3. CASE on_deactivate
  <2>1. Server3TypeOK' /\ HolderKnown'
    BY <1>1, <1>3 DEF on_deactivate, goalVars, Server3TypeOK, HolderKnown
  <2>2. ServerThere' /\ AnswersGrow' /\ NothingBreaks' /\ MarkersAreCurrent'
    BY <1>1, <1>3 DEF on_deactivate, goalVars, ServerThere, AnswersGrow, NothingBreaks,
       MarkersAreCurrent, Configured
  <2> QED
    BY <2>1, <2>2 DEF ServerInv
<1>4. CASE on_cleanup
  <2>1. Server3TypeOK' /\ HolderKnown'
    BY <1>1, <1>4 DEF on_cleanup, goalVars, Server3TypeOK, HolderKnown
  <2>2. ServerThere' /\ AnswersGrow' /\ NothingBreaks' /\ MarkersAreCurrent'
    BY <1>1, <1>4 DEF on_cleanup, goalVars, ServerThere, AnswersGrow, NothingBreaks,
       MarkersAreCurrent
  <2> QED
    BY <2>1, <2>2 DEF ServerInv
<1> QED
  BY <1>2, <1>3, <1>4

\* What one goal goes through keeps what is known of the others.
LEMMA GoalKeeps ==
  ASSUME ServerInv, NEW g \in Goals, NEW r, NEW m \in Goals \cup {Nobody},
         r \in [phase : Phases, since : Nat, route : Nat, path : Nat,
                message : Nat, onTopic : BOOLEAN],
         goals' = [goals EXCEPT ![g] = r], graph_mutex_' = m,
         graph_mutex_ \in {g, Nobody} \/ m = graph_mutex_,
         m = graph_mutex_ \/ m \in {g, Nobody},
         r.phase \in Holding <=> m = g,
         UNCHANGED <<server3, graph_, planner_, shown, cleaned, broken>>,
         r.phase # "unknown", cleaned \/ Configured,
         r.phase \in Served => cleaned \/ planner_ = TRUE,
         ~cleaned =>
           /\ r.since <= graph_.load
           /\ r.phase \in {"converting", "telling", "publishing", "finishing", "succeeded"} =>
                r.since <= r.route /\ r.route <= graph_.load
           /\ r.phase \in {"converting", "telling"} => r.route = graph_.load
           /\ r.phase \in {"telling", "publishing", "finishing", "succeeded"} => r.path = r.route
           /\ r.phase \in {"publishing", "finishing", "succeeded"} => r.message = r.route
  PROVE  ServerInv'
<1>1. /\ Server3TypeOK /\ HolderKnown /\ ServerThere /\ AnswersGrow /\ MarkersAreCurrent
      /\ NothingBreaks
  BY DEF ServerInv
<1>2. /\ goals' \in [Goals -> [phase : Phases, since : Nat, route : Nat, path : Nat,
                               message : Nat, onTopic : BOOLEAN]]
      /\ goals'[g] = r /\ \A h \in Goals \ {g} : goals'[h] = goals[h]
  BY <1>1, GoalChanges
<1>3. Server3TypeOK' /\ NothingBreaks' /\ MarkersAreCurrent'
  BY <1>1, <1>2 DEF Server3TypeOK, NothingBreaks, MarkersAreCurrent
<1>4. HolderKnown'
  BY <1>1, <1>2, ServerAssumption DEF HolderKnown
<1>5. ServerThere'
  BY <1>1, <1>2 DEF ServerThere, Configured
<1>6. AnswersGrow'
  <2> SUFFICES ASSUME ~cleaned, NEW h \in Goals
               PROVE  LET o == goals'[h]
                      IN  /\ o.since <= graph_.load
                          /\ o.phase \in {"converting", "telling", "publishing", "finishing", "succeeded"} =>
                               o.since <= o.route /\ o.route <= graph_.load
                          /\ o.phase \in {"converting", "telling"} => o.route = graph_.load
                          /\ o.phase \in {"telling", "publishing", "finishing", "succeeded"} => o.path = o.route
                          /\ o.phase \in {"publishing", "finishing", "succeeded"} => o.message = o.route
    BY DEF AnswersGrow
  <2>1. CASE h = g
    BY <1>2, <2>1
  <2>2. CASE h # g
    <3>1. goals'[h] = goals[h]
      BY <1>2, <2>2
    <3> QED
      BY <1>1, <3>1 DEF AnswersGrow
  <2> QED
    BY <2>1, <2>2
<1> QED
  BY <1>3, <1>4, <1>5, <1>6 DEF ServerInv

\* A thread that meets nothing breaks only after a cleanup.
LEMMA BreakKeeps ==
  ASSUME ServerInv, Break, cleaned = TRUE
  PROVE  ServerInv'
<1>1. /\ Server3TypeOK /\ HolderKnown /\ ServerThere /\ AnswersGrow /\ MarkersAreCurrent
  BY DEF ServerInv
<1>2. UNCHANGED <<server3, graph_, planner_, shown, cleaned, graph_mutex_, goals>> /\ broken' = TRUE
  BY DEF Break, others3
<1>3. Server3TypeOK' /\ HolderKnown' /\ NothingBreaks' /\ MarkersAreCurrent'
  BY <1>1, <1>2 DEF Server3TypeOK, HolderKnown, NothingBreaks, MarkersAreCurrent
<1>4. ServerThere' /\ AnswersGrow'
  BY <1>1, <1>2 DEF ServerThere, AnswersGrow
<1> QED
  BY <1>3, <1>4 DEF ServerInv

\* What is known of a goal that is served.
LEMMA GoalKnown ==
  ASSUME ServerInv, NEW g \in Goals
  PROVE  /\ goals[g] \in [phase : Phases, since : Nat, route : Nat, path : Nat,
                          message : Nat, onTopic : BOOLEAN]
         /\ goals \in [Goals -> [phase : Phases, since : Nat, route : Nat, path : Nat,
                                 message : Nat, onTopic : BOOLEAN]]
         /\ graph_.load \in Nat /\ cleaned \in BOOLEAN
         /\ goals[g].phase \in Holding => graph_mutex_ = g
         /\ goals[g].phase \in Served => cleaned \/ (Configured /\ planner_ = TRUE)
BY DEF ServerInv, Server3TypeOK, HolderKnown, ServerThere, Served

LEMMA AbortKeeps ==
  ASSUME ServerInv, NEW g \in Goals, goals[g].phase \in Holding, Abort(g)
  PROVE  ServerInv'
<1> DEFINE r == [goals[g] EXCEPT !.phase = "aborted"]
<1>1. r \in [phase : Phases, since : Nat, route : Nat, path : Nat, message : Nat, onTopic : BOOLEAN]
      /\ r.phase = "aborted" /\ r.since = goals[g].since
  BY GoalKnown DEF Phases
<1>2. goals' = [goals EXCEPT ![g] = r] /\ graph_mutex_' = Nobody /\ graph_mutex_ = g
      /\ UNCHANGED <<server3, graph_, planner_, shown, cleaned, broken>>
  BY GoalKnown DEF Abort, others3
<1>3. goals[g].phase \in Served
  BY DEF Holding, Served
<1>4. ~cleaned => r.since <= graph_.load
  BY <1>1 DEF ServerInv, AnswersGrow
<1> HIDE DEF r
<1> QED
  BY <1>1, <1>2, <1>3, <1>4, GoalKnown, GoalKeeps, ServerAssumption DEF Holding, Served


LEMMA HandleGoalKeeps ==
  ASSUME ServerInv, NEW g \in Goals, handleGoal(g)
  PROVE  ServerInv'
<1> DEFINE r == [goals[g] EXCEPT !.phase = IF graph_.empty THEN "rejected" ELSE "accepted",
                                 !.since = graph_.load]
<1>1. /\ Configured /\ graph_mutex_ = Nobody
      /\ UNCHANGED <<server3, graph_, planner_, graph_mutex_, shown, cleaned, broken>>
  BY DEF handleGoal
<1>2. r \in [phase : Phases, since : Nat, route : Nat, path : Nat, message : Nat, onTopic : BOOLEAN]
      /\ r.phase = (IF graph_.empty THEN "rejected" ELSE "accepted") /\ r.since = graph_.load
  BY GoalKnown DEF Phases
<1>3. goals' = [goals EXCEPT ![g] = r]
  BY GoalKnown DEF handleGoal
<1>4. r.phase \in Served => cleaned \/ planner_ = TRUE
  <2>1. graph_.empty \in BOOLEAN
    BY DEF ServerInv, Server3TypeOK
  <2> QED
    BY <1>2, <2>1 DEF ServerInv, ServerThere, Served
<1>5. r.phase \notin Holding /\ r.phase # "unknown"
      /\ r.phase \notin {"converting", "telling", "publishing", "finishing", "succeeded"}
  BY <1>2 DEF Holding
<1>7. r.phase \in Holding <=> Nobody = g
  BY <1>5, ServerAssumption
<1> HIDE DEF r
<1> QED
  <2>1. /\ Nobody \in Goals \cup {Nobody} /\ graph_mutex_' = Nobody /\ Nobody = graph_mutex_
        /\ cleaned \/ Configured
        /\ ~cleaned => r.since <= graph_.load
        /\ r.phase \notin {"telling", "publishing", "finishing", "succeeded"}
        /\ r.phase \notin {"publishing", "finishing", "succeeded"}
        /\ r.phase \notin {"converting", "telling"}
    BY <1>1, <1>2, <1>5, GoalKnown
  <2> QED
    BY <1>1, <1>2, <1>3, <1>4, <1>5, <1>7, <2>1, GoalKeeps

LEMMA LockKeeps ==
  ASSUME ServerInv, NEW g \in Goals, lockGraph(g)
  PROVE  ServerInv'
<1> DEFINE r == [goals[g] EXCEPT !.phase = "intent"]
<1>1. /\ goals[g].phase = "accepted" /\ graph_mutex_ = Nobody /\ graph_mutex_' = g
      /\ UNCHANGED <<server3, graph_, planner_, shown, cleaned, broken>>
  BY DEF lockGraph, others3, LockFree
<1>2. r \in [phase : Phases, since : Nat, route : Nat, path : Nat, message : Nat, onTopic : BOOLEAN]
      /\ r.phase = "intent" /\ r.since = goals[g].since
  BY GoalKnown DEF Phases
<1>3. goals' = [goals EXCEPT ![g] = r]
  BY GoalKnown DEF lockGraph
<1>4. ~cleaned => r.since <= graph_.load
  BY <1>2 DEF ServerInv, AnswersGrow
<1> HIDE DEF r
<1> QED
  BY <1>1, <1>2, <1>3, <1>4, GoalKnown, GoalKeeps, ServerAssumption DEF Holding, Served

LEMMA IntentKeeps ==
  ASSUME ServerInv, NEW g \in Goals, extractIntent(g)
  PROVE  ServerInv'
<1>1. goals[g].phase = "intent"
  BY DEF extractIntent
<1>2. CASE Abort(g)
  BY <1>1, <1>2, AbortKeeps DEF Holding
<1>3. CASE ~planner_ /\ Break
  BY <1>1, <1>3, GoalKnown, BreakKeeps DEF Served
<1>4. CASE /\ planner_ /\ ~graph_.empty
           /\ goals' = [goals EXCEPT ![g].phase = "planning"]
           /\ UNCHANGED <<others3, graph_mutex_, broken>>
  <2> DEFINE r == [goals[g] EXCEPT !.phase = "planning"]
  <2>1. r \in [phase : Phases, since : Nat, route : Nat, path : Nat, message : Nat, onTopic : BOOLEAN]
        /\ r.phase = "planning" /\ r.since = goals[g].since
    BY GoalKnown DEF Phases
  <2>2. /\ goals' = [goals EXCEPT ![g] = r] /\ graph_mutex_' = g /\ graph_mutex_ = g
        /\ UNCHANGED <<server3, graph_, planner_, shown, cleaned, broken>>
    BY <1>1, <1>4, GoalKnown DEF others3, Holding
  <2>3. ~cleaned => r.since <= graph_.load
    BY <2>1 DEF ServerInv, AnswersGrow
  <2> HIDE DEF r
  <2> QED
    BY <1>1, <2>1, <2>2, <2>3, GoalKnown, GoalKeeps, ServerAssumption DEF Holding, Served
<1> QED
  BY <1>2, <1>3, <1>4 DEF extractIntent

LEMMA ComputeKeeps ==
  ASSUME ServerInv, NEW g \in Goals, computeRouteForIntent(g)
  PROVE  ServerInv'
<1>1. goals[g].phase = "planning"
  BY DEF computeRouteForIntent
<1>2. CASE Abort(g)
  BY <1>1, <1>2, AbortKeeps DEF Holding
<1>3. CASE ~planner_ /\ Break
  BY <1>1, <1>3, GoalKnown, BreakKeeps DEF Served
<1>4. CASE /\ planner_
           /\ goals' = [goals EXCEPT ![g].phase = "converting", ![g].route = graph_.load]
           /\ UNCHANGED <<others3, graph_mutex_, broken>>
  <2> DEFINE r == [goals[g] EXCEPT !.phase = "converting", !.route = graph_.load]
  <2>1. r \in [phase : Phases, since : Nat, route : Nat, path : Nat, message : Nat, onTopic : BOOLEAN]
        /\ r.phase = "converting" /\ r.since = goals[g].since /\ r.route = graph_.load
    BY GoalKnown DEF Phases
  <2>2. /\ goals' = [goals EXCEPT ![g] = r] /\ graph_mutex_' = g /\ graph_mutex_ = g
        /\ UNCHANGED <<server3, graph_, planner_, shown, cleaned, broken>>
    BY <1>1, <1>4, GoalKnown DEF others3, Holding
  <2>3. ~cleaned => r.since <= graph_.load
    BY <2>1 DEF ServerInv, AnswersGrow
  <2> HIDE DEF r
  <2>4. /\ g \in Goals \cup {Nobody}
        /\ r.phase \in Holding
        /\ r.phase # "unknown"
        /\ (cleaned \/ (Configured /\ planner_ = TRUE))
        /\ ~cleaned => r.since <= r.route /\ r.route <= graph_.load /\ r.route = graph_.load
        /\ r.phase \notin {"telling", "publishing", "finishing", "succeeded"}
    <3>1. g \in Goals \cup {Nobody}
      BY <1>1, <2>1, <2>3, GoalKnown DEF Holding, Served
    <3>2. r.phase \in Holding
      BY <1>1, <2>1, <2>3, GoalKnown DEF Holding, Served
    <3>3. r.phase # "unknown"
      BY <1>1, <2>1, <2>3, GoalKnown DEF Holding, Served
    <3>4. (cleaned \/ (Configured /\ planner_ = TRUE))
      BY <1>1, <2>1, <2>3, GoalKnown DEF Holding, Served
    <3>5. ~cleaned => r.since <= r.route /\ r.route <= graph_.load /\ r.route = graph_.load
      BY <1>1, <2>1, <2>3, GoalKnown DEF Holding, Served
    <3>6. r.phase \notin {"telling", "publishing", "finishing", "succeeded"}
      BY <1>1, <2>1, <2>3, GoalKnown DEF Holding, Served
    <3> QED
      BY <3>1, <3>2, <3>3, <3>4, <3>5, <3>6
  <2> QED
    BY <2>1, <2>2, <2>3, <2>4, GoalKeeps
<1> QED
  BY <1>2, <1>3, <1>4 DEF computeRouteForIntent

LEMMA ConvertKeeps ==
  ASSUME ServerInv, NEW g \in Goals, routeToPath(g)
  PROVE  ServerInv'
<1>1. goals[g].phase = "converting"
  BY DEF routeToPath
<1>2. CASE graph_.load # goals[g].route /\ Abort(g)
  BY <1>1, <1>2, AbortKeeps DEF Holding
<1>3. CASE /\ goals' = [goals EXCEPT ![g].phase = "telling", ![g].path = graph_.load]
           /\ UNCHANGED <<others3, graph_mutex_, broken>>
  <2> DEFINE r == [goals[g] EXCEPT !.phase = "telling", !.path = graph_.load]
  <2>1. r \in [phase : Phases, since : Nat, route : Nat, path : Nat, message : Nat, onTopic : BOOLEAN]
        /\ r.phase = "telling" /\ r.since = goals[g].since /\ r.route = goals[g].route
        /\ r.path = graph_.load
    BY GoalKnown DEF Phases
  <2>2. /\ goals' = [goals EXCEPT ![g] = r] /\ graph_mutex_' = g /\ graph_mutex_ = g
        /\ UNCHANGED <<server3, graph_, planner_, shown, cleaned, broken>>
    BY <1>1, <1>3, GoalKnown DEF others3, Holding
  <2>3. ~cleaned => /\ goals[g].since <= graph_.load /\ goals[g].since <= goals[g].route
                    /\ goals[g].route = graph_.load
    BY <1>1 DEF ServerInv, AnswersGrow
  <2> HIDE DEF r
  <2>4. /\ g \in Goals \cup {Nobody}
        /\ r.phase \in Holding
        /\ r.phase # "unknown"
        /\ cleaned \/ (Configured /\ planner_ = TRUE)
        /\ ~cleaned => /\ r.since <= graph_.load /\ r.since <= r.route /\ r.route <= graph_.load
                       /\ r.route = graph_.load /\ r.path = r.route
        /\ r.phase \notin {"publishing", "finishing", "succeeded"}
    <3>1. g \in Goals \cup {Nobody}
      BY <1>1, <2>1, <2>3, GoalKnown DEF Holding, Served
    <3>2. r.phase \in Holding
      BY <1>1, <2>1, <2>3, GoalKnown DEF Holding, Served
    <3>3. r.phase # "unknown"
      BY <1>1, <2>1, <2>3, GoalKnown DEF Holding, Served
    <3>4. cleaned \/ (Configured /\ planner_ = TRUE)
      BY <1>1, <2>1, <2>3, GoalKnown DEF Holding, Served
    <3>5. ~cleaned => /\ r.since <= graph_.load /\ r.since <= r.route /\ r.route <= graph_.load
                         /\ r.route = graph_.load /\ r.path = r.route
      BY <1>1, <2>1, <2>3, GoalKnown DEF Holding, Served
    <3>6. r.phase \notin {"publishing", "finishing", "succeeded"}
      BY <1>1, <2>1, <2>3, GoalKnown DEF Holding, Served
    <3> QED
      BY <3>1, <3>2, <3>3, <3>4, <3>5, <3>6
  <2> QED
    BY <2>1, <2>2, <2>4, GoalKeeps
<1> QED
  BY <1>2, <1>3 DEF routeToPath

LEMMA TellKeeps ==
  ASSUME ServerInv, NEW g \in Goals, tellRoute(g)
  PROVE  ServerInv'
<1>1. goals[g].phase = "telling"
  BY DEF tellRoute
<1>2. CASE graph_.load # goals[g].route /\ Abort(g)
  BY <1>1, <1>2, AbortKeeps DEF Holding
<1>3. CASE ~Configured /\ Break
  BY <1>1, <1>3, GoalKnown, BreakKeeps DEF Served
<1>4. CASE /\ Configured /\ graph_mutex_' = Nobody
           /\ goals' = [goals EXCEPT ![g].phase = "publishing", ![g].message = graph_.load]
           /\ UNCHANGED <<others3, broken>>
  <2> DEFINE r == [goals[g] EXCEPT !.phase = "publishing", !.message = graph_.load]
  <2>1. r \in [phase : Phases, since : Nat, route : Nat, path : Nat, message : Nat, onTopic : BOOLEAN]
        /\ r.phase = "publishing" /\ r.since = goals[g].since /\ r.route = goals[g].route
        /\ r.path = goals[g].path /\ r.message = graph_.load
    BY GoalKnown DEF Phases
  <2>2. /\ goals' = [goals EXCEPT ![g] = r] /\ graph_mutex_' = Nobody /\ graph_mutex_ = g
        /\ UNCHANGED <<server3, graph_, planner_, shown, cleaned, broken>>
    BY <1>1, <1>4, GoalKnown DEF others3, Holding
  <2>3. ~cleaned => /\ goals[g].since <= graph_.load /\ goals[g].since <= goals[g].route
                    /\ goals[g].route = graph_.load /\ goals[g].path = goals[g].route
    BY <1>1 DEF ServerInv, AnswersGrow
  <2> HIDE DEF r
  <2>4. /\ Nobody \in Goals \cup {Nobody}
        /\ (r.phase \in Holding <=> Nobody = g)
        /\ r.phase # "unknown" /\ (cleaned \/ (Configured /\ planner_ = TRUE))
        /\ ~cleaned => /\ r.since <= graph_.load /\ r.since <= r.route /\ r.route <= graph_.load
                       /\ r.path = r.route /\ r.message = r.route
        /\ r.phase \notin {"converting", "telling"}
    <3>1. Nobody \in Goals \cup {Nobody}
      BY <1>1, <2>1, <2>3, GoalKnown, ServerAssumption DEF Holding, Served
    <3>2. (r.phase \in Holding <=> Nobody = g)
      BY <1>1, <2>1, <2>3, GoalKnown, ServerAssumption DEF Holding, Served
    <3>3. r.phase # "unknown" /\ (cleaned \/ (Configured /\ planner_ = TRUE))
      BY <1>1, <2>1, <2>3, GoalKnown, ServerAssumption DEF Holding, Served
    <3>4. ~cleaned => /\ r.since <= graph_.load /\ r.since <= r.route /\ r.route <= graph_.load
                         /\ r.path = r.route /\ r.message = r.route
      BY <1>1, <2>1, <2>3, GoalKnown, ServerAssumption DEF Holding, Served
    <3>5. r.phase \notin {"converting", "telling"}
      BY <1>1, <2>1, <2>3, GoalKnown, ServerAssumption DEF Holding, Served
    <3> QED
      BY <3>1, <3>2, <3>3, <3>4, <3>5
  <2> QED
    BY <2>1, <2>2, <2>4, GoalKeeps
<1> QED
  BY <1>2, <1>3, <1>4 DEF tellRoute

\* After the lock only the phase moves on.
LEMMA AnswerKeeps ==
  ASSUME ServerInv, NEW g \in Goals, publishPath(g) \/ succeed(g)
  PROVE  ServerInv'
<1>1. CASE publishPath(g) /\ ~Configured
  <2>1. goals[g].phase = "publishing" /\ Break
    BY <1>1 DEF publishPath
  <2> QED
    BY <1>1, <2>1, GoalKnown, BreakKeeps DEF Served
<1>2. ASSUME NEW p \in {"finishing", "succeeded"}, NEW t \in BOOLEAN,
             goals[g].phase \in {"publishing", "finishing"},
             goals' = [goals EXCEPT ![g] = [goals[g] EXCEPT !.phase = p, !.onTopic = t]],
             UNCHANGED <<others3, graph_mutex_, broken>>
      PROVE  ServerInv'
  <2> DEFINE r == [goals[g] EXCEPT !.phase = p, !.onTopic = t]
  <2>1. r \in [phase : Phases, since : Nat, route : Nat, path : Nat, message : Nat, onTopic : BOOLEAN]
        /\ r.phase = p /\ r.since = goals[g].since /\ r.route = goals[g].route
        /\ r.path = goals[g].path /\ r.message = goals[g].message
    BY GoalKnown DEF Phases
  <2>2. /\ goals' = [goals EXCEPT ![g] = r] /\ graph_mutex_' = graph_mutex_
        /\ UNCHANGED <<server3, graph_, planner_, shown, cleaned, broken>>
    BY <1>2 DEF others3
  <2>3. ~cleaned => /\ goals[g].since <= graph_.load /\ goals[g].since <= goals[g].route
                    /\ goals[g].route <= graph_.load /\ goals[g].path = goals[g].route
                    /\ goals[g].message = goals[g].route
    BY <1>2 DEF ServerInv, AnswersGrow
  <2>4. graph_mutex_ # g /\ graph_mutex_ \in Goals \cup {Nobody}
    BY <1>2 DEF ServerInv, HolderKnown, Holding, Server3TypeOK
  <2>5. cleaned \/ (Configured /\ planner_ = TRUE)
    BY <1>2, GoalKnown DEF Served
  <2> HIDE DEF r
  <2> QED
    BY <2>1, <2>2, <2>3, <2>4, <2>5, GoalKeeps DEF Holding
<1>3. CASE publishPath(g) /\ Configured
  <2>1. goals[g].phase = "publishing" /\ UNCHANGED <<others3, graph_mutex_, broken>>
    BY <1>3 DEF publishPath
  <2>2. goals' = [goals EXCEPT ![g] = [goals[g] EXCEPT !.phase = "finishing",
                                                        !.onTopic = (server3 = "active")]]
    BY <1>3, GoalKnown DEF publishPath
  <2>3. PICK t \in BOOLEAN : t = (server3 = "active")
    OBVIOUS
  <2> QED
    BY <1>2, <2>1, <2>2, <2>3
<1>4. CASE succeed(g)
  <2>1. goals[g].phase = "finishing" /\ UNCHANGED <<others3, graph_mutex_, broken>>
    BY <1>4 DEF succeed
  <2>2. PICK t \in BOOLEAN : t = goals[g].onTopic
    BY GoalKnown
  <2>3. [goals[g] EXCEPT !.phase = "succeeded", !.onTopic = t] = [goals[g] EXCEPT !.phase = "succeeded"]
    BY <2>2, GoalKnown
  <2>4. goals' = [goals EXCEPT ![g] = [goals[g] EXCEPT !.phase = "succeeded", !.onTopic = t]]
    BY <1>4, <2>3, GoalKnown DEF succeed
  <2> QED
    BY <1>2, <2>1, <2>4
<1> QED
  BY <1>1, <1>3, <1>4

LEMMA ServerStep ==
  ASSUME ServerInv, Server3Next
  PROVE  ServerInv'
<1>1. CASE on_configure \/ on_activate \/ on_deactivate \/ on_cleanup
  BY <1>1, ConfigureKeeps, LifecycleKeeps
<1>2. ASSUME NEW loads \in BOOLEAN, setRouteGraph(loads) PROVE ServerInv'
  BY <1>2, SetGraphKeeps
<1>3. ASSUME NEW g \in Goals, handleGoal(g) PROVE ServerInv'
  BY <1>3, HandleGoalKeeps
<1>4. ASSUME NEW g \in Goals, ServeGoal(g) PROVE ServerInv'
  BY <1>4, LockKeeps, IntentKeeps, ComputeKeeps, ConvertKeeps, TellKeeps, AnswerKeeps DEF ServeGoal
<1> QED
  BY <1>1, <1>2, <1>3, <1>4 DEF Server3Next

LEMMA ServerRests ==
  ASSUME ServerInv, UNCHANGED server3Vars
  PROVE  ServerInv'
BY DEF ServerInv, server3Vars, goalVars, Server3TypeOK, HolderKnown, ServerThere, AnswersGrow,
       NothingBreaks, MarkersAreCurrent, Configured

LEMMA ServerIsSafe ==
  ASSUME ServerInv
  PROVE  ServerSafe
<1>1. AnswersAreWhole
  BY DEF ServerInv, AnswersGrow, AnswersAreWhole
<1> QED
  BY <1>1 DEF ServerInv, ServerSafe

-----------------------------------------------------------------------------
(* The search of nav2_route3d *)

\* What the recursion of CostsTo(w) asks of a function on 0..n.
SumsUp(c, w, n) == c = [k \in 0..n |-> IF k = 0 THEN 0 ELSE c[k - 1] + score(w[k])]

\* There is a function as the recursion asks for.
LEMMA SumsExist ==
  ASSUME NEW w, NEW n \in Nat
  PROVE  \E c : SumsUp(c, w, n)
<1> DEFINE H == {k \in 1..(n + 1) : \E c : SumsUp(c, w, k - 1)}
<1>1. 1 \in H
  <2> DEFINE c == [k \in 0..0 |-> 0]
  <2>1. SumsUp(c, w, 0)
    BY DEF SumsUp
  <2>2. 1 \in 1..(n + 1) /\ 1 - 1 = 0
    OBVIOUS
  <2> QED
    BY <2>1, <2>2
<1>2. ASSUME NEW k \in 1..((n + 1) - 1), k \in H
      PROVE  k + 1 \in H
  <2>1. PICK c : SumsUp(c, w, k - 1)
    BY <1>2
  <2> DEFINE d == [l \in 0..k |-> IF l = k THEN c[k - 1] + score(w[k]) ELSE c[l]]
  <2>2. SumsUp(d, w, k)
    <3> DEFINE e == [l \in 0..k |-> IF l = 0 THEN 0 ELSE d[l - 1] + score(w[l])]
    <3>1. ASSUME NEW l \in 0..k PROVE d[l] = e[l]
      <4>1. CASE l = k
        <5>1. l - 1 = k - 1 /\ k - 1 \in 0..k /\ k - 1 # k /\ l # 0
          BY <4>1
        <5>2. e[l] = d[k - 1] + score(w[k])
          BY <4>1, <5>1
        <5>3. d[k - 1] = c[k - 1] /\ d[l] = c[k - 1] + score(w[k])
          BY <4>1, <5>1
        <5> QED
          BY <5>2, <5>3
      <4>2. CASE l # k
        <5>1. l \in 0..(k - 1) /\ d[l] = c[l]
          BY <4>2
        <5>2. c[l] = IF l = 0 THEN 0 ELSE c[l - 1] + score(w[l])
          BY <2>1, <5>1 DEF SumsUp
        <5>3. l # 0 => l - 1 \in 0..k /\ l - 1 # k
          BY <5>1
        <5>4. l # 0 => d[l - 1] = c[l - 1]
          BY <5>3
        <5> QED
          BY <5>1, <5>2, <5>4
      <4> QED
        BY <4>1, <4>2
    <3>2. d = e
      BY <3>1
    <3> QED
      BY <3>2 DEF SumsUp
  <2>3. k + 1 \in 1..(n + 1) /\ (k + 1) - 1 = k
    OBVIOUS
  <2> QED
    BY <2>2, <2>3
<1> HIDE DEF H
<1>3. H = 1..(n + 1)
  <2>1. H \in SUBSET (1..(n + 1)) /\ n + 1 \in Nat
    BY DEF H
  <2> QED
    BY <1>1, <1>2, <2>1, AllPlaces
<1>4. n + 1 \in H /\ (n + 1) - 1 = n
  BY <1>3
<1> QED
  BY <1>4 DEF H

LEMMA SumsAt ==
  ASSUME NEW w, Len(w) \in Nat
  PROVE  /\ CostsTo(w)[0] = 0
         /\ \A k \in 1..Len(w) : CostsTo(w)[k] = CostsTo(w)[k - 1] + score(w[k])
<1> DEFINE c == CostsTo(w)
           n == Len(w)
<1>1. \E d : SumsUp(d, w, n)
  BY SumsExist
<1>2. c = CHOOSE d : SumsUp(d, w, n)
  BY DEF CostsTo, SumsUp
<1>3. SumsUp(c, w, n)
  BY <1>1, <1>2
<1> HIDE DEF c, n
<1>4. \A k \in 0..n : c[k] = IF k = 0 THEN 0 ELSE c[k - 1] + score(w[k])
  BY <1>3 DEF SumsUp
<1>5. n \in Nat /\ 0 \in 0..n /\ \A k \in 1..n : k \in 0..n /\ k # 0
  BY DEF n
<1> QED
  BY <1>4, <1>5 DEF c, n

-----------------------------------------------------------------------------
(* The queries *)

InGraph == {query.from, query.to} \subseteq Nodes3D(query.graph)

\* What the types of a query give for its edges.
LEMMA QueryIs ==
  ASSUME query \in Queries
  PROVE  /\ Nodes3D(query.graph) \subseteq Nat
         /\ \A id \in DOMAIN query.graph.edges :
              /\ score(id) \in Nat
              /\ Edge3D(id).start \in Nodes3D(query.graph)
              /\ Edge3D(id).end \in Nodes3D(query.graph)
         /\ \A a, b \in Nodes3D(query.graph) : query.apart[a][b] \in Nat
         /\ \A n : \A id \in outgoingEdges(query.graph, n) :
              id \in DOMAIN query.graph.edges /\ FarEnd(id, n) \in Nodes3D(query.graph)
<1>1. ASSUME NEW id \in DOMAIN query.graph.edges
      PROVE  /\ score(id) \in Nat
             /\ Edge3D(id).start \in Nodes3D(query.graph)
             /\ Edge3D(id).end \in Nodes3D(query.graph)
  <2> DEFINE e == Edge3D(id)
  <2>1. e \in ScoredEdges /\ {e.start, e.end} \subseteq Nodes3D(query.graph)
    BY QueriesAssumption DEF Edge3D
  <2>2. e.cost \in Nat /\ e.extra \in Nat /\ e.slope \in Nat
    BY <2>1 DEF ScoredEdges
  <2>3. slopePenalty(e) \in Nat
    BY <2>2, QueriesAssumption DEF slopePenalty
  <2>4. scenePenalty(e) \in Nat
    BY DEF scenePenalty
  <2>5. score(id) = e.cost + e.extra + slopePenalty(e) + scenePenalty(e)
    BY DEF score
  <2> QED
    BY <2>1, <2>2, <2>3, <2>4, <2>5
<1>2. Nodes3D(query.graph) \subseteq Nat
  BY QueriesAssumption
<1>3. \A a, b \in Nodes3D(query.graph) : query.apart[a][b] \in Nat
  BY QueriesAssumption
<1>4. ASSUME NEW n, NEW id \in outgoingEdges(query.graph, n)
      PROVE  id \in DOMAIN query.graph.edges /\ FarEnd(id, n) \in Nodes3D(query.graph)
  BY <1>1 DEF outgoingEdges, FarEnd, Edge3D
<1> QED
  BY <1>1, <1>2, <1>3, <1>4

LEMMA SumsNatural ==
  ASSUME query \in Queries, NEW w, Len(w) \in Nat,
         \A k \in 1..Len(w) : w[k] \in DOMAIN query.graph.edges
  PROVE  \A k \in 0..Len(w) : CostsTo(w)[k] \in Nat
<1> DEFINE n == Len(w)
           H == {k \in 1..(n + 1) : CostsTo(w)[k - 1] \in Nat}
<1>1. 1 \in H
  BY SumsAt
<1>2. ASSUME NEW k \in 1..((n + 1) - 1), k \in H
      PROVE  k + 1 \in H
  <2>1. score(w[k]) \in Nat /\ CostsTo(w)[k] = CostsTo(w)[k - 1] + score(w[k])
    BY QueryIs, SumsAt
  <2>2. k + 1 \in 1..(n + 1) /\ (k + 1) - 1 = k
    OBVIOUS
  <2> QED
    BY <1>2, <2>1, <2>2
<1>3. H = 1..(n + 1)
  <2> HIDE DEF H
  <2>1. H \in SUBSET (1..(n + 1)) /\ n + 1 \in Nat
    BY DEF H
  <2> QED
    BY <1>1, <1>2, <2>1, AllPlaces
<1>4. ASSUME NEW k \in 0..n PROVE CostsTo(w)[k] \in Nat
  <2>1. k + 1 \in 1..(n + 1) /\ (k + 1) - 1 = k
    OBVIOUS
  <2>2. k + 1 \in H
    BY <1>3, <2>1
  <2>3. CostsTo(w)[(k + 1) - 1] \in Nat
    BY <2>2
  <2> QED
    BY <2>1, <2>3
<1> QED
  BY <1>4

\* A way with an edge in front costs that edge more.
LEMMA InFront ==
  ASSUME query \in Queries, NEW w, Len(w) \in Nat, NEW v, Len(v) = Len(w) + 1,
         \A k \in 1..Len(w) : w[k] \in DOMAIN query.graph.edges /\ v[k + 1] = w[k],
         v[1] \in DOMAIN query.graph.edges
  PROVE  WayCost(w) \in Nat /\ WayCost(v) = score(v[1]) + WayCost(w)
<1> DEFINE n == Len(w)
           H == {k \in 1..(n + 1) : CostsTo(v)[k] = score(v[1]) + CostsTo(w)[k - 1]}
<1>1. /\ n \in Nat /\ Len(v) = n + 1 /\ Len(v) \in Nat /\ score(v[1]) \in Nat
      /\ \A k \in 0..n : CostsTo(w)[k] \in Nat
  <2>1. n \in Nat /\ Len(v) = n + 1
    OBVIOUS
  <2>2. score(v[1]) \in Nat
    BY QueryIs
  <2>3. \A k \in 0..n : CostsTo(w)[k] \in Nat
    BY SumsNatural
  <2> HIDE DEF n
  <2> QED
    BY <2>1, <2>2, <2>3
<1> HIDE DEF n
<1>2. 1 \in H
  <2>1. 1 \in 1..Len(v) /\ 1 - 1 = 0
    BY <1>1
  <2>2. CostsTo(v)[1] = CostsTo(v)[0] + score(v[1]) /\ CostsTo(v)[0] = 0
    BY <1>1, <2>1, SumsAt
  <2>3. CostsTo(w)[0] = 0
    BY SumsAt
  <2> QED
    BY <1>1, <2>1, <2>2, <2>3
<1>3. ASSUME NEW k \in 1..((n + 1) - 1), k \in H
      PROVE  k + 1 \in H
  <2>1. k \in 1..n /\ k + 1 \in 1..Len(v) /\ k + 1 \in 1..(n + 1) /\ (k + 1) - 1 = k /\ k - 1 \in 0..n
    BY <1>1
  <2>2. CostsTo(v)[k + 1] = CostsTo(v)[k] + score(v[k + 1])
    BY <1>1, <2>1, SumsAt
  <2>3. CostsTo(w)[k] = CostsTo(w)[k - 1] + score(w[k])
    BY <2>1, SumsAt DEF n
  <2>4. v[k + 1] = w[k] /\ score(w[k]) \in Nat
    BY <2>1, QueryIs DEF n
  <2>5. CostsTo(w)[k - 1] \in Nat /\ CostsTo(v)[k] = score(v[1]) + CostsTo(w)[k - 1]
    BY <1>1, <1>3, <2>1
  <2>6. CostsTo(v)[k + 1] = score(v[1]) + CostsTo(w)[k]
    BY <1>1, <2>2, <2>3, <2>4, <2>5
  <2> QED
    BY <2>1, <2>6
<1>4. H = 1..(n + 1)
  <2> HIDE DEF H
  <2>1. H \in SUBSET (1..(n + 1)) /\ n + 1 \in Nat
    BY <1>1 DEF H
  <2> QED
    BY <1>2, <1>3, <2>1, AllPlaces
<1>5. n + 1 \in H /\ (n + 1) - 1 = n /\ n \in 0..n
  BY <1>1, <1>4
<1>6. CostsTo(v)[n + 1] = score(v[1]) + CostsTo(w)[n] /\ CostsTo(w)[n] \in Nat
  BY <1>1, <1>5
<1> QED
  BY <1>1, <1>6 DEF WayCost, n


-----------------------------------------------------------------------------
(* The invariant of the search *)

\* An entry of the frontier is never cheaper than its node.
ReachedTrue ==
  /\ DOMAIN cost_so_far \subseteq Nodes3D(query.graph)
  /\ cost_so_far \in [DOMAIN cost_so_far -> Nat]
  /\ query.from \in DOMAIN cost_so_far /\ cost_so_far[query.from] = 0
  /\ \A q \in open : q[1] \in Nat /\ q[2] \in DOMAIN cost_so_far /\ cost_so_far[q[2]] <= q[1]

\* The edge a node was reached by, from a node that may have become cheaper.
CameTrue ==
  \A n \in DOMAIN cost_so_far \ {query.from} :
    /\ n \in DOMAIN came_from
    /\ LET m == came_from[n].node
           id == came_from[n].edge
       IN  /\ m \in DOMAIN cost_so_far
           /\ id \in outgoingEdges(query.graph, m) /\ Usable(id) /\ FarEnd(id, m) = n
           /\ cost_so_far[m] + score(id) <= cost_so_far[n]

ExpandsTrue ==
  current_node \in DOMAIN cost_so_far /\ todo \subseteq outgoingEdges(query.graph, current_node)

\* A node that waits in the frontier at its present cost.
WaitsOpen(n) == \E q \in open : q[2] = n /\ q[1] <= cost_so_far[n] + Heuristic(n)

LeadsOn(n, id) ==
  /\ FarEnd(id, n) \in DOMAIN cost_so_far
  /\ cost_so_far[FarEnd(id, n)] <= cost_so_far[n] + score(id)

\* Whoever does not wait has been expanded since it became cheaper.
OpenTrue3D ==
  /\ \A n \in DOMAIN cost_so_far :
       \/ WaitsOpen(n)
       \/ \A id \in outgoingEdges(query.graph, n) :
            Usable(id) => LeadsOn(n, id) \/ (n = current_node /\ id \in todo)
  /\ query.to \in DOMAIN cost_so_far => WaitsOpen(query.to)

\* What reconstruct has found so far leads from its last node to the goal.
TraceTrue ==
  LET n == Len(edge_ids)
  IN  /\ n \in Nat /\ edge_ids \in Seq(DOMAIN query.graph.edges)
      /\ node_ids \in Seq(Nodes3D(query.graph)) /\ Len(node_ids) = n + 1
      /\ node_ids[1] = query.to /\ node_ids[n + 1] \in DOMAIN cost_so_far
      /\ \A k \in 1..n :
           /\ Usable(edge_ids[k]) /\ edge_ids[k] \in outgoingEdges(query.graph, node_ids[k + 1])
           /\ node_ids[k] = FarEnd(edge_ids[k], node_ids[k + 1])
      /\ cost_so_far[node_ids[n + 1]] + WayCost(Turned(edge_ids)) <= cost

NoneIsCheaper3D == Honest => \A p \in SimplePaths : \A w \in EdgesAlong(p) : cost <= WayCost(w)
RouteIsTrue == IsRoute3D(node_ids, edge_ids) /\ WayCost(edge_ids) <= cost
NoneIsThere3D == \A p \in SimplePaths : EdgesAlong(p) = {}

AStarInv ==
  /\ query \in Queries
  /\ ~InGraph => planned = "thrown"
  /\ InGraph =>
       /\ planned \in {"searching", "tracing"} => ReachedTrue /\ CameTrue
       /\ planned = "searching" =>
            ExpandsTrue /\ OpenTrue3D /\ node_ids = <<>> /\ edge_ids = <<>>
       /\ planned \in {"tracing", "route"} => cost \in Nat /\ NoneIsCheaper3D
       /\ planned = "tracing" => TraceTrue
       /\ planned = "route" => RouteIsTrue
       /\ planned = "none" => NoneIsThere3D
       /\ planned = "thrown" => query.limited


-----------------------------------------------------------------------------
(* The query never changes *)

LEMMA SameEdges ==
  ASSUME query' = query
  PROVE  /\ \A id : score(id)' = score(id) /\ Usable(id)' = Usable(id)
         /\ \A id, n : FarEnd(id, n)' = FarEnd(id, n)
         /\ \A n : Heuristic(n)' = Heuristic(n)
         /\ InGraph' = InGraph
BY DEF score, Usable, valid, Edge3D, slopePenalty, scenePenalty, FarEnd, Heuristic, InGraph

LEMMA SameWays ==
  ASSUME query' = query
  PROVE  /\ \A w : WayCost(w)' = WayCost(w)
         /\ \A p, w : IsRoute3D(p, w)' = IsRoute3D(p, w)
         /\ \A p : EdgesAlong(p)' = EdgesAlong(p)
         /\ SimplePaths' = SimplePaths /\ Honest' = Honest
<1>1. ASSUME NEW w PROVE WayCost(w)' = WayCost(w)
  BY DEF WayCost, CostsTo, score, Edge3D, slopePenalty, scenePenalty
<1>2. ASSUME NEW p, NEW w PROVE IsRoute3D(p, w)' = IsRoute3D(p, w)
  BY DEF IsRoute3D, Usable, valid, Edge3D, FarEnd
<1>3. ASSUME NEW p PROVE EdgesAlong(p)' = EdgesAlong(p)
  BY <1>2 DEF EdgesAlong
<1>4. SimplePaths' = SimplePaths
  BY DEF SimplePaths
<1>5. Honest' = Honest
  <2>1. \A id : (Usable(id)' <=> Usable(id)) /\ score(id)' = score(id)
    BY SameEdges
  <2>2. \A id : Edge3D(id)' = Edge3D(id)
    BY DEF Edge3D
  <2>3. Nodes3D(query.graph)' = Nodes3D(query.graph)
    OBVIOUS
  <2> HIDE DEF Usable, score, Edge3D, Nodes3D
  <2> QED
    BY <2>1, <2>2, <2>3 DEF Honest
<1> QED
  BY <1>1, <1>2, <1>3, <1>4, <1>5

\* What is said of all routes stays true while the cost stays.
LEMMA SameRoutes ==
  ASSUME query' = query
  PROVE  /\ NoneIsThere3D' = NoneIsThere3D
         /\ cost' = cost => NoneIsCheaper3D' = NoneIsCheaper3D
BY SameWays DEF NoneIsThere3D, NoneIsCheaper3D

-----------------------------------------------------------------------------
(* The routes of the reference *)

LEMMA RouteIs3D ==
  ASSUME query \in Queries, NEW p \in SimplePaths, NEW w \in EdgesAlong(p)
  PROVE  /\ Len(p) \in Nat /\ Len(p) >= 1 /\ Len(w) = Len(p) - 1
         /\ p[1] = query.from /\ p[Len(p)] = query.to
         /\ \A k \in 1..Len(p) : p[k] \in Nodes3D(query.graph)
         /\ \A k \in 1..(Len(p) - 1) :
              /\ Usable(w[k]) /\ w[k] \in outgoingEdges(query.graph, p[k])
              /\ p[k + 1] = FarEnd(w[k], p[k])
              /\ score(w[k]) \in Nat
              /\ CostsTo(w)[k] = CostsTo(w)[k - 1] + score(w[k])
         /\ CostsTo(w)[0] = 0
         /\ \A k \in 0..(Len(p) - 1) : CostsTo(w)[k] \in Nat
         /\ WayCost(w) = CostsTo(w)[Len(p) - 1]
<1>1. PICK n \in 1..Cardinality(Nodes3D(query.graph)) : p \in [1..n -> Nodes3D(query.graph)]
  BY DEF SimplePaths
<1>2. n \in Nat /\ n >= 1
  BY <1>1
<1>3. Len(p) = n /\ \A k \in 1..n : p[k] \in Nodes3D(query.graph)
  BY <1>1, <1>2
<1>4. p[1] = query.from /\ p[Len(p)] = query.to
  BY DEF SimplePaths
<1>5. w \in [1..(Len(p) - 1) -> DOMAIN query.graph.edges] /\ IsRoute3D(p, w)
  BY DEF EdgesAlong
<1>6. Len(w) = n - 1 /\ Len(w) \in Nat
  BY <1>2, <1>3, <1>5
<1>7. \A k \in 1..(n - 1) :
        /\ Usable(w[k]) /\ w[k] \in outgoingEdges(query.graph, p[k])
        /\ p[k + 1] = FarEnd(w[k], p[k])
  BY <1>5, <1>6 DEF IsRoute3D
<1>8. \A k \in 1..Len(w) : w[k] \in DOMAIN query.graph.edges
  BY <1>3, <1>5, <1>6
<1>9. \A k \in 1..Len(w) : score(w[k]) \in Nat
  BY <1>8, QueryIs
<1>10. /\ CostsTo(w)[0] = 0
       /\ \A k \in 1..Len(w) : CostsTo(w)[k] = CostsTo(w)[k - 1] + score(w[k])
  BY <1>6, SumsAt
<1>11. \A k \in 0..Len(w) : CostsTo(w)[k] \in Nat
  BY <1>6, <1>8, SumsNatural
<1>12. WayCost(w) = CostsTo(w)[Len(p) - 1]
  BY <1>3, <1>6 DEF WayCost
<1> QED
  BY <1>2, <1>3, <1>4, <1>6, <1>7, <1>9, <1>10, <1>11, <1>12

\* When the frontier is empty what is reached is closed under the edges.
LEMMA NothingLeft ==
  ASSUME AStarInv, InGraph, planned = "searching", todo = {}, open = {}
  PROVE  NoneIsThere3D
<1> SUFFICES ASSUME NEW p \in SimplePaths, NEW w \in EdgesAlong(p) PROVE FALSE
  BY DEF NoneIsThere3D
<1>1. query \in Queries /\ ReachedTrue /\ OpenTrue3D
  BY DEF AStarInv
<1> DEFINE n == Len(p)
           H == {k \in 1..n : p[k] \in DOMAIN cost_so_far}
<1>2. /\ n \in Nat /\ n >= 1 /\ p[1] = query.from /\ p[n] = query.to
      /\ \A k \in 1..(n - 1) :
           /\ Usable(w[k]) /\ w[k] \in outgoingEdges(query.graph, p[k])
           /\ p[k + 1] = FarEnd(w[k], p[k])
  BY <1>1, RouteIs3D
<1> HIDE DEF n
<1>3. ~ \E m : WaitsOpen(m)
  BY DEF WaitsOpen
<1>4. 1 \in H
  BY <1>1, <1>2 DEF ReachedTrue
<1>5. ASSUME NEW k \in 1..(n - 1), k \in H
      PROVE  k + 1 \in H
  <2>1. LeadsOn(p[k], w[k])
    BY <1>1, <1>2, <1>3, <1>5 DEF OpenTrue3D
  <2>2. p[k + 1] \in DOMAIN cost_so_far /\ k + 1 \in 1..n
    BY <1>2, <2>1 DEF LeadsOn
  <2> QED
    BY <2>2
<1>6. H = 1..n
  <2> HIDE DEF H
  <2>1. H \in SUBSET (1..n)
    BY DEF H
  <2> QED
    BY <1>2, <1>4, <1>5, <2>1, AllPlaces
<1>7. query.to \in DOMAIN cost_so_far
  BY <1>2, <1>6
<1> QED
  BY <1>1, <1>3, <1>7 DEF OpenTrue3D

\* From a place of a route to a later one it is no shorter than the straight line.
LEMMA StraightIsShorter ==
  ASSUME query \in Queries, InGraph, Honest, NEW p \in SimplePaths, NEW w \in EdgesAlong(p),
         NEW i \in 1..Len(p)
  PROVE  Heuristic(p[i]) <= WayCost(w) - CostsTo(w)[i - 1]
<1> DEFINE n == Len(p)
           c == CostsTo(w)
           H == {k \in 1..n : k >= i => query.apart[p[i]][p[k]] <= c[k - 1] - c[i - 1]}
<1>1. /\ n \in Nat /\ n >= 1 /\ p[n] = query.to
      /\ \A k \in 1..n : p[k] \in Nodes3D(query.graph)
      /\ \A k \in 1..(n - 1) :
           /\ Usable(w[k]) /\ w[k] \in outgoingEdges(query.graph, p[k])
           /\ p[k + 1] = FarEnd(w[k], p[k])
           /\ score(w[k]) \in Nat
           /\ c[k] = c[k - 1] + score(w[k])
      /\ \A k \in 0..(n - 1) : c[k] \in Nat
      /\ WayCost(w) = c[n - 1]
  BY RouteIs3D
<1>2. \A a, b \in Nodes3D(query.graph) : query.apart[a][b] \in Nat
  BY QueryIs
<1> HIDE DEF n, c
<1>3. i \in 1..n /\ i - 1 \in 0..(n - 1) /\ p[i] \in Nodes3D(query.graph)
  BY <1>1 DEF n
<1>4. 1 \in H
  <2>1. ASSUME 1 >= i PROVE query.apart[p[i]][p[1]] <= c[1 - 1] - c[i - 1]
    <3>1. i = 1 /\ 1 - 1 = 0 /\ c[0] \in Nat
      BY <1>1, <1>3, <2>1
    <3>2. query.apart[p[1]][p[1]] = 0
      BY <1>1, <1>3, <3>1 DEF Honest
    <3> QED
      BY <3>1, <3>2
  <2> QED
    BY <1>1, <2>1
<1>5. ASSUME NEW k \in 1..(n - 1), k \in H
      PROVE  k + 1 \in H
  <2>1. k \in 1..n /\ k + 1 \in 1..n /\ (k + 1) - 1 = k /\ k \in 0..(n - 1) /\ k - 1 \in 0..(n - 1)
    BY <1>1
  <2>2. c[k] \in Nat /\ c[k - 1] \in Nat /\ c[i - 1] \in Nat /\ score(w[k]) \in Nat
        /\ c[k] = c[k - 1] + score(w[k])
    BY <1>1, <1>3, <2>1
  <2>3. ASSUME k + 1 >= i PROVE query.apart[p[i]][p[k + 1]] <= c[k] - c[i - 1]
    <3>1. CASE k + 1 = i
      <4>1. query.apart[p[i]][p[k + 1]] = 0 /\ i - 1 = k
        BY <1>3, <2>1, <3>1 DEF Honest
      <4> QED
        BY <2>2, <4>1
    <3>2. CASE k + 1 # i
      <4>1. k >= i
        BY <1>3, <2>1, <2>3, <3>2
      <4>2. query.apart[p[i]][p[k]] <= c[k - 1] - c[i - 1]
        BY <1>5, <4>1
      <4>3. query.apart[p[k]][p[k + 1]] <= score(w[k])
        <5> DEFINE e == Edge3D(w[k])
        <5>1. /\ w[k] \in DOMAIN query.graph.edges /\ Usable(w[k])
              /\ p[k + 1] = FarEnd(w[k], p[k])
              /\ e.start = p[k] \/ (e.both /\ e.end = p[k])
          BY <1>1 DEF outgoingEdges, Edge3D
        <5>2. /\ query.apart[e.start][e.end] <= score(w[k])
              /\ query.apart[e.end][e.start] <= score(w[k])
          BY <5>1 DEF Honest
        <5>3. \/ p[k] = e.start /\ p[k + 1] = e.end
              \/ p[k] = e.end /\ p[k + 1] = e.start
          BY <5>1 DEF FarEnd
        <5> QED
          BY <5>2, <5>3
      <4>4. p[k] \in Nodes3D(query.graph) /\ p[k + 1] \in Nodes3D(query.graph)
        BY <1>1, <2>1
      <4>5. query.apart[p[i]][p[k + 1]]
              <= query.apart[p[i]][p[k]] + query.apart[p[k]][p[k + 1]]
        BY <1>3, <4>4 DEF Honest
      <4>6. /\ query.apart[p[i]][p[k + 1]] \in Nat /\ query.apart[p[i]][p[k]] \in Nat
            /\ query.apart[p[k]][p[k + 1]] \in Nat
        BY <1>2, <1>3, <4>4
      <4>7. \A x, y, z, s, d, e, f \in Nat :
              x <= y + z /\ y <= d - e /\ z <= s /\ f = d + s => x <= f - e
        OBVIOUS
      <4> DEFINE x == query.apart[p[i]][p[k + 1]]
                 y == query.apart[p[i]][p[k]]
                 z == query.apart[p[k]][p[k + 1]]
                 s == score(w[k])
                 d == c[k - 1]
                 e == c[i - 1]
                 f == c[k]
      <4>8. {x, y, z, s, d, e, f} \subseteq Nat
        BY <2>2, <4>6
      <4>9. x <= y + z /\ y <= d - e /\ z <= s /\ f = d + s
        BY <2>2, <4>2, <4>3, <4>5
      <4> HIDE DEF x, y, z, s, d, e, f
      <4>10. x <= f - e
        BY <4>7, <4>8, <4>9
      <4> QED
        BY <4>10 DEF x, e, f
    <3> QED
      BY <3>1, <3>2
  <2> QED
    BY <2>1, <2>3
<1>6. H = 1..n
  <2> HIDE DEF H
  <2>1. H \in SUBSET (1..n)
    BY DEF H
  <2> QED
    BY <1>1, <1>4, <1>5, <2>1, AllPlaces
<1>7. n \in H /\ n >= i
  <2>1. n \in Nat /\ n >= 1
    BY <1>1
  <2>2. n \in 1..n /\ n >= i
    BY <1>3, <2>1
  <2> HIDE DEF H
  <2> QED
    BY <1>6, <2>2
<1>8. query.apart[p[i]][p[n]] <= c[n - 1] - c[i - 1]
  BY <1>7
<1> QED
  BY <1>1, <1>8 DEF Heuristic, c

\* When the goal is at the top of the frontier no route to it is cheaper: the first
\* node of the route that waits has an entry that is no cheaper than the goal's.
LEMMA NoneBefore ==
  ASSUME AStarInv, InGraph, planned = "searching", todo = {}, Honest,
         NEW q \in open, q[2] = query.to, \A r \in open : q[1] <= r[1],
         NEW p \in SimplePaths, NEW w \in EdgesAlong(p)
  PROVE  cost_so_far[query.to] <= WayCost(w)
<1>1. query \in Queries /\ ReachedTrue /\ OpenTrue3D
  BY DEF AStarInv
<1> DEFINE n == Len(p)
           c == CostsTo(w)
           g == cost_so_far
           H == {k \in 1..n : \/ p[k] \in DOMAIN g /\ g[p[k]] <= c[k - 1]
                              \/ g[query.to] <= WayCost(w)}
<1>2. /\ n \in Nat /\ n >= 1 /\ p[1] = query.from /\ p[n] = query.to
      /\ \A k \in 1..n : p[k] \in Nodes3D(query.graph)
      /\ \A k \in 1..(n - 1) :
           /\ Usable(w[k]) /\ w[k] \in outgoingEdges(query.graph, p[k])
           /\ p[k + 1] = FarEnd(w[k], p[k])
           /\ score(w[k]) \in Nat
           /\ c[k] = c[k - 1] + score(w[k])
      /\ c[0] = 0
      /\ \A k \in 0..(n - 1) : c[k] \in Nat
      /\ WayCost(w) = c[n - 1]
  BY <1>1, RouteIs3D
<1>3. \A i \in 1..n : Heuristic(p[i]) <= WayCost(w) - c[i - 1]
  BY <1>1, StraightIsShorter
<1>4. \A m \in DOMAIN g : g[m] \in Nat
  BY <1>1 DEF ReachedTrue
<1>5. \A m \in Nodes3D(query.graph) : Heuristic(m) \in Nat
  BY <1>1, QueryIs DEF Heuristic, InGraph
<1>6. query.to \in DOMAIN g /\ g[query.to] <= q[1] /\ q[1] \in Nat
  BY <1>1 DEF ReachedTrue
<1> HIDE DEF n, c
<1>7. WayCost(w) \in Nat
  <2>1. n - 1 \in 0..(n - 1)
    BY <1>2
  <2> QED
    BY <1>2, <2>1
<1>8. 1 \in H
  BY <1>1, <1>2 DEF ReachedTrue
<1>9. ASSUME NEW k \in 1..(n - 1), k \in H
      PROVE  k + 1 \in H
  <2>1. k \in 1..n /\ k + 1 \in 1..n /\ (k + 1) - 1 = k /\ k \in 0..(n - 1) /\ k - 1 \in 0..(n - 1)
    BY <1>2
  <2>2. c[k] \in Nat /\ c[k - 1] \in Nat /\ score(w[k]) \in Nat /\ c[k] = c[k - 1] + score(w[k])
    BY <1>2, <2>1
  <2>3. CASE g[query.to] <= WayCost(w)
    BY <2>1, <2>3
  <2>4. CASE p[k] \in DOMAIN g /\ g[p[k]] <= c[k - 1] /\ WaitsOpen(p[k])
    <3>1. PICK r \in open : r[2] = p[k] /\ r[1] <= g[p[k]] + Heuristic(p[k])
      BY <2>4 DEF WaitsOpen
    <3>2. q[1] <= r[1] /\ r[1] \in Nat
      BY <1>1 DEF ReachedTrue
    <3>3. g[p[k]] \in Nat /\ Heuristic(p[k]) \in Nat
      BY <1>2, <1>4, <1>5, <2>1, <2>4
    <3>4. Heuristic(p[k]) <= WayCost(w) - c[k - 1]
      BY <1>3, <2>1
    <3>5. g[query.to] \in Nat /\ g[p[k]] <= c[k - 1]
      BY <1>4, <1>6, <2>4
    <3>6. g[query.to] <= WayCost(w)
      <4> HIDE DEF H, g
      <4> QED
        BY <1>6, <1>7, <2>2, <3>1, <3>2, <3>3, <3>4, <3>5
    <3> QED
      BY <2>1, <3>6
  <2>5. CASE p[k] \in DOMAIN g /\ g[p[k]] <= c[k - 1] /\ ~WaitsOpen(p[k])
    <3>1. LeadsOn(p[k], w[k])
      BY <1>1, <1>2, <2>5 DEF OpenTrue3D
    <3>2. p[k + 1] \in DOMAIN g /\ g[p[k + 1]] <= g[p[k]] + score(w[k])
      BY <1>2, <3>1 DEF LeadsOn
    <3>3. g[p[k]] \in Nat /\ g[p[k + 1]] \in Nat
      BY <1>4, <2>5, <3>2
    <3>4. g[p[k + 1]] <= c[k]
      <4> HIDE DEF H, g
      <4> QED
        BY <2>2, <2>5, <3>2, <3>3
    <3> QED
      BY <2>1, <3>2, <3>4
  <2> QED
    BY <1>9, <2>3, <2>4, <2>5
<1>10. H = 1..n
  <2> HIDE DEF H
  <2>1. H \in SUBSET (1..n)
    BY DEF H
  <2> QED
    BY <1>2, <1>8, <1>9, <2>1, AllPlaces
<1>11. n \in H
  BY <1>2, <1>10
<1> QED
  BY <1>2, <1>11


-----------------------------------------------------------------------------
(* The steps of the search *)

LEMMA AStarStarts == Planner3Init => AStarInv
<1> SUFFICES ASSUME Planner3Init PROVE AStarInv
  OBVIOUS
<1>1. query \in Queries /\ (planned = "searching" \/ (planned = "thrown" /\ ~InGraph))
  BY DEF Planner3Init, InGraph
<1>2. planned = "thrown" <=> ~InGraph
  BY DEF Planner3Init, InGraph
<1>3. ASSUME InGraph
      PROVE  ReachedTrue /\ CameTrue /\ ExpandsTrue /\ OpenTrue3D
  <2>1. /\ open = {<<0, query.from>>} /\ DOMAIN cost_so_far = {query.from}
        /\ cost_so_far[query.from] = 0 /\ current_node = query.from /\ todo = {}
    BY DEF Planner3Init
  <2>2. query.from \in Nodes3D(query.graph)
    BY <1>3 DEF InGraph
  <2>3. Heuristic(query.from) \in Nat
    BY <1>1, <1>3, QueryIs DEF Heuristic, InGraph
  <2>4. ReachedTrue
    <3>1. cost_so_far \in [DOMAIN cost_so_far -> Nat]
      BY DEF Planner3Init
    <3> QED
      BY <2>1, <2>2, <3>1 DEF ReachedTrue
  <2>5. WaitsOpen(query.from)
    <3> DEFINE q == <<0, query.from>>
    <3>1. q \in open /\ q[2] = query.from /\ q[1] = 0
      BY <2>1
    <3> QED
      BY <2>1, <2>3, <3>1 DEF WaitsOpen
  <2> QED
    BY <2>1, <2>4, <2>5 DEF CameTrue, ExpandsTrue, OpenTrue3D
<1>4. node_ids = <<>> /\ edge_ids = <<>>
  BY DEF Planner3Init
<1> QED
  BY <1>1, <1>2, <1>3, <1>4 DEF AStarInv

\* The costs and what they were reached by stay.
LEMMA ReachedStays ==
  ASSUME UNCHANGED <<query, open, cost_so_far, came_from>>
  PROVE  ReachedTrue' = ReachedTrue /\ CameTrue' = CameTrue
<1>1. ReachedTrue' = ReachedTrue
  BY DEF ReachedTrue
<1>2. CameTrue' = CameTrue
  BY SameEdges DEF CameTrue
<1> QED
  BY <1>1, <1>2

LEMMA TimeKeeps == AStarInv /\ TimedOut => AStarInv'
<1> SUFFICES ASSUME AStarInv, TimedOut PROVE AStarInv'
  OBVIOUS
<1>1. query' = query /\ query.limited = TRUE /\ planned' = "thrown" /\ query \in Queries
  BY QueriesAssumption DEF TimedOut, AStarInv
<1> QED
  BY <1>1, SameEdges DEF AStarInv

LEMMA NoRouteKeeps == AStarInv /\ NoRoute => AStarInv'
<1> SUFFICES ASSUME AStarInv, NoRoute PROVE AStarInv'
  OBVIOUS
<1>1. query' = query /\ planned = "searching" /\ todo = {} /\ open = {} /\ planned' = "none"
  BY DEF NoRoute, Looping
<1>2. InGraph /\ query \in Queries
  BY <1>1 DEF AStarInv
<1>3. NoneIsThere3D'
  BY <1>1, <1>2, NothingLeft, SameRoutes
<1> QED
  BY <1>1, <1>2, <1>3, SameEdges DEF AStarInv

\* A node that is not the goal goes to be expanded.
LEMMA ExpandKeeps ==
  ASSUME AStarInv, NEW q \in open, ExpandNode(q), q[2] # query.to
  PROVE  AStarInv'
<1>1. /\ planned = "searching" /\ todo = {} /\ open' = open \ {q}
      /\ current_node' = q[2] /\ todo' = outgoingEdges(query.graph, q[2])
      /\ UNCHANGED <<query, planned, cost_so_far, came_from, cost, node_ids, edge_ids>>
  BY DEF ExpandNode, Looping
<1>2. /\ InGraph /\ query \in Queries /\ ReachedTrue /\ CameTrue /\ OpenTrue3D
      /\ node_ids = <<>> /\ edge_ids = <<>>
  BY <1>1 DEF AStarInv
<1>3. ReachedTrue' /\ ExpandsTrue'
  BY <1>1, <1>2 DEF ReachedTrue, ExpandsTrue
<1>4. CameTrue'
  BY <1>1, <1>2, SameEdges DEF CameTrue
<1>5. ASSUME NEW n, n # q[2], WaitsOpen(n) PROVE WaitsOpen(n)'
  <2>1. PICK r \in open : r[2] = n /\ r[1] <= cost_so_far[n] + Heuristic(n)
    BY <1>5 DEF WaitsOpen
  <2>2. r \in open'
    BY <1>1, <1>5, <2>1
  <2>3. Heuristic(n)' = Heuristic(n)
    BY <1>1, SameEdges
  <2> QED
    BY <1>1, <2>1, <2>2, <2>3 DEF WaitsOpen
<1>6. \A n, id : LeadsOn(n, id)' = LeadsOn(n, id)
  BY <1>1, SameEdges DEF LeadsOn
<1>7. ASSUME NEW n \in DOMAIN cost_so_far'
      PROVE  \/ WaitsOpen(n)'
             \/ \A id \in outgoingEdges(query'.graph, n) :
                  Usable(id)' => LeadsOn(n, id)' \/ (n = current_node' /\ id \in todo')
  <2>1. CASE n = q[2]
    BY <1>1, <2>1
  <2>2. CASE n # q[2] /\ WaitsOpen(n)
    BY <1>5, <2>2
  <2>3. CASE ~WaitsOpen(n)
    <3>1. \A id \in outgoingEdges(query.graph, n) : Usable(id) => LeadsOn(n, id)
      BY <1>1, <1>2, <2>3 DEF OpenTrue3D
    <3> QED
      BY <1>1, <1>6, <3>1, SameEdges
  <2> QED
    BY <2>1, <2>2, <2>3
<1>8. (query.to \in DOMAIN cost_so_far => WaitsOpen(query.to))'
  BY <1>1, <1>2, <1>5 DEF OpenTrue3D
<1>9. OpenTrue3D'
  BY <1>7, <1>8 DEF OpenTrue3D
<1>10. InGraph' = InGraph
  BY <1>1, SameEdges
<1> QED
  BY <1>1, <1>2, <1>3, <1>4, <1>9, <1>10 DEF AStarInv

\* The goal ends the search, and its cost is that of the route.
LEMMA GoalKeeps3D ==
  ASSUME AStarInv, NEW q \in open, ExpandNode(q), q[2] = query.to
  PROVE  AStarInv'
<1>1. /\ planned = "searching" /\ todo = {} /\ open' = open \ {q} /\ planned' = "tracing"
      /\ \A r \in open : q[1] <= r[1]
      /\ cost' = cost_so_far[query.to] /\ node_ids' = <<query.to>>
      /\ UNCHANGED <<query, cost_so_far, came_from, edge_ids>>
  BY DEF ExpandNode, Looping
<1>2. /\ InGraph /\ query \in Queries /\ ReachedTrue /\ CameTrue /\ edge_ids = <<>>
  BY <1>1 DEF AStarInv
<1>3. ReachedTrue'
  BY <1>1, <1>2 DEF ReachedTrue
<1>4. CameTrue'
  BY <1>1, <1>2, SameEdges DEF CameTrue
<1>5. query.to \in DOMAIN cost_so_far /\ cost_so_far[query.to] \in Nat
  BY <1>1, <1>2 DEF ReachedTrue
<1>6. NoneIsCheaper3D'
  <2>1. Honest => \A p \in SimplePaths : \A w \in EdgesAlong(p) :
                    cost_so_far[query.to] <= WayCost(w)
    BY <1>1, <1>2, NoneBefore
  <2> QED
    BY <1>1, <2>1, SameWays DEF NoneIsCheaper3D
<1>7. TraceTrue'
  <2>1. edge_ids' = <<>> /\ Len(<<>>) = 0 /\ Turned(<<>>) = <<>>
    BY <1>1, <1>2 DEF Turned
  <2>2. WayCost(<<>>)' = 0
    <3>1. WayCost(<<>>) = 0
      BY <2>1, SumsAt DEF WayCost
    <3> QED
      BY <1>1, <3>1, SameWays
  <2>3. /\ node_ids' \in Seq(Nodes3D(query'.graph)) /\ Len(node_ids') = 1
        /\ node_ids'[1] = query'.to
    BY <1>1, <1>2 DEF InGraph
  <2>4. WayCost(Turned(edge_ids))' = 0
    <3>1. Turned(edge_ids)' = <<>>
      BY <2>1 DEF Turned
    <3> QED
      BY <2>2, <3>1
  <2>5. edge_ids' \in Seq(DOMAIN query'.graph.edges)
    BY <2>1
  <2> QED
    BY <1>1, <1>5, <2>1, <2>3, <2>4, <2>5 DEF TraceTrue
<1>8. InGraph' = InGraph
  BY <1>1, SameEdges
<1> QED
  BY <1>1, <1>2, <1>3, <1>4, <1>5, <1>6, <1>7, <1>8 DEF AStarInv


\* An edge that leads nowhere new leaves all as it is.
LEMMA RelaxRests ==
  ASSUME AStarInv, NEW id \in todo, planned = "searching",
         ~(Usable(id) /\ Better(FarEnd(id, current_node), cost_so_far[current_node] + score(id))),
         todo' = todo \ {id},
         UNCHANGED <<query, current_node, planned, open, cost_so_far, came_from, cost,
                     node_ids, edge_ids>>
  PROVE  AStarInv'
<1>1. /\ InGraph /\ query \in Queries /\ ReachedTrue /\ CameTrue /\ ExpandsTrue /\ OpenTrue3D
      /\ node_ids = <<>> /\ edge_ids = <<>>
  BY DEF AStarInv
<1>2. ReachedTrue' /\ CameTrue' /\ ExpandsTrue'
  BY <1>1, ReachedStays DEF ExpandsTrue
<1>3. \A n : WaitsOpen(n)' = WaitsOpen(n)
  BY SameEdges DEF WaitsOpen
<1>4. \A n, e : LeadsOn(n, e)' = LeadsOn(n, e)
  BY SameEdges DEF LeadsOn
<1>5. Usable(id) => LeadsOn(current_node, id)
  <2> DEFINE n == FarEnd(id, current_node)
             s == score(id)
  <2>1. id \in DOMAIN query.graph.edges /\ s \in Nat
    BY <1>1, QueryIs DEF ExpandsTrue
  <2>2. cost_so_far[current_node] \in Nat
    BY <1>1 DEF ReachedTrue, ExpandsTrue
  <2>3. ASSUME Usable(id)
        PROVE  n \in DOMAIN cost_so_far /\ ~(cost_so_far[current_node] + s < cost_so_far[n])
    BY <2>3 DEF Better
  <2>4. n \in DOMAIN cost_so_far => cost_so_far[n] \in Nat
    BY <1>1 DEF ReachedTrue
  <2>5. ASSUME Usable(id) PROVE cost_so_far[n] <= cost_so_far[current_node] + s
    <3> HIDE DEF n, s
    <3> QED
      BY <2>1, <2>2, <2>3, <2>4, <2>5
  <2> QED
    BY <2>3, <2>5 DEF LeadsOn
<1>6. ASSUME NEW n \in DOMAIN cost_so_far'
      PROVE  \/ WaitsOpen(n)'
             \/ \A e \in outgoingEdges(query'.graph, n) :
                  Usable(e)' => LeadsOn(n, e)' \/ (n = current_node' /\ e \in todo')
  BY <1>1, <1>3, <1>4, <1>5, SameEdges DEF OpenTrue3D
<1>7. OpenTrue3D'
  BY <1>1, <1>3, <1>6 DEF OpenTrue3D
<1>8. InGraph' = InGraph
  BY SameEdges
<1> QED
  BY <1>1, <1>2, <1>7, <1>8 DEF AStarInv

\* An edge that leads to a node for less: the node waits, and no other node loses
\* what is known of it, since costs only fall.
LEMMA RelaxImproves ==
  ASSUME AStarInv, NEW id \in todo, planned = "searching",
         NEW n, n = FarEnd(id, current_node),
         NEW c, c = cost_so_far[current_node] + score(id),
         Usable(id), Better(n, c),
         todo' = todo \ {id},
         cost_so_far' = With(cost_so_far, n, c),
         came_from' = With(came_from, n, [node |-> current_node, edge |-> id]),
         open' = open \cup {<<c + Heuristic(n), n>>},
         UNCHANGED <<query, current_node, planned, cost, node_ids, edge_ids>>
  PROVE  AStarInv'
<1> DEFINE g == cost_so_far
           r == <<c + Heuristic(n), n>>
<1>1. /\ InGraph /\ query \in Queries /\ ReachedTrue /\ CameTrue /\ ExpandsTrue /\ OpenTrue3D
      /\ node_ids = <<>> /\ edge_ids = <<>>
  BY DEF AStarInv
<1>2. /\ id \in outgoingEdges(query.graph, current_node) /\ current_node \in DOMAIN g
      /\ g[current_node] \in Nat
  BY <1>1 DEF ExpandsTrue, ReachedTrue
<1>3. score(id) \in Nat /\ n \in Nodes3D(query.graph)
  BY <1>1, <1>2, QueryIs
<1>4. Heuristic(n) \in Nat
  BY <1>1, <1>3, QueryIs DEF Heuristic, InGraph
<1>5. c \in Nat /\ g[current_node] <= c
  BY <1>2, <1>3
<1>6. \A m \in DOMAIN g : g[m] \in Nat
  BY <1>1 DEF ReachedTrue
<1>7. n \in DOMAIN g => c < g[n]
  BY DEF Better
<1>8. n # current_node /\ n # query.from
  <2>1. query.from \in DOMAIN g /\ g[query.from] = 0
    BY <1>1 DEF ReachedTrue
  <2>2. ~(c < g[current_node]) /\ ~(c < 0)
    BY <1>2, <1>5
  <2> QED
    BY <1>2, <1>7, <2>1, <2>2
<1>9. /\ DOMAIN g' = DOMAIN g \cup {n}
      /\ g'[n] = c
      /\ \A m \in DOMAIN g : m # n => g'[m] = g[m]
  BY DEF With
<1>10. \A m \in DOMAIN g : g'[m] \in Nat /\ g'[m] <= g[m]
  <2> SUFFICES ASSUME NEW m \in DOMAIN g PROVE g'[m] \in Nat /\ g'[m] <= g[m]
    OBVIOUS
  <2>1. CASE m = n
    <3>1. g'[m] = c /\ c < g[m] /\ g[m] \in Nat
      BY <1>6, <1>7, <1>9, <2>1
    <3> QED
      BY <1>5, <3>1
  <2>2. CASE m # n
    <3>1. g'[m] = g[m] /\ g[m] \in Nat
      BY <1>6, <1>9, <2>2
    <3> QED
      BY <3>1
  <2> QED
    BY <2>1, <2>2
<1>11. r \in open' /\ r[1] = c + Heuristic(n) /\ r[2] = n
  OBVIOUS
<1>12. ReachedTrue'
  <2>1. DOMAIN g' \subseteq Nodes3D(query'.graph)
    BY <1>1, <1>3, <1>9 DEF ReachedTrue
  <2>2. g' \in [DOMAIN g' -> Nat]
    <3>1. \A m \in DOMAIN g' : g'[m] \in Nat
      BY <1>5, <1>9, <1>10
    <3>2. g' = [m \in DOMAIN g' |-> g'[m]]
      BY DEF With
    <3> QED
      BY <3>1, <3>2
  <2>3. query'.from \in DOMAIN g' /\ g'[query'.from] = 0
    BY <1>1, <1>8, <1>9 DEF ReachedTrue
  <2>4. ASSUME NEW q \in open'
        PROVE  q[1] \in Nat /\ q[2] \in DOMAIN g' /\ g'[q[2]] <= q[1]
    <3>1. CASE q = r
      <4>1. q[1] = c + Heuristic(n) /\ q[2] = n
        BY <1>11, <3>1
      <4>2. c + Heuristic(n) \in Nat /\ c <= c + Heuristic(n)
        BY <1>4, <1>5
      <4> QED
        BY <1>9, <4>1, <4>2
    <3>2. CASE q # r
      <4>1. q \in open /\ q[1] \in Nat /\ q[2] \in DOMAIN g /\ g[q[2]] <= q[1]
        BY <1>1, <3>2 DEF ReachedTrue
      <4>2. g'[q[2]] \in Nat /\ g'[q[2]] <= g[q[2]] /\ g[q[2]] \in Nat
        BY <1>6, <1>10, <4>1
      <4>3. g'[q[2]] <= q[1]
        BY <4>1, <4>2
      <4> QED
        BY <1>9, <4>1, <4>3
    <3> QED
      BY <3>1, <3>2
  <2> QED
    BY <2>1, <2>2, <2>3, <2>4 DEF ReachedTrue
<1>13. CameTrue'
  <2> SUFFICES ASSUME NEW m \in DOMAIN g' \ {query.from}
               PROVE  /\ m \in DOMAIN came_from'
                      /\ came_from'[m].node \in DOMAIN g'
                      /\ came_from'[m].edge \in outgoingEdges(query.graph, came_from'[m].node)
                      /\ Usable(came_from'[m].edge)
                      /\ FarEnd(came_from'[m].edge, came_from'[m].node) = m
                      /\ g'[came_from'[m].node] + score(came_from'[m].edge) <= g'[m]
    BY SameEdges DEF CameTrue
  <2>1. /\ DOMAIN came_from' = DOMAIN came_from \cup {n}
        /\ came_from'[n].node = current_node /\ came_from'[n].edge = id
        /\ \A x \in DOMAIN came_from : x # n => came_from'[x] = came_from[x]
    BY DEF With
  <2>2. CASE m = n
    <3>1. g'[current_node] = g[current_node]
      BY <1>2, <1>8, <1>9
    <3>2. g'[current_node] + score(id) <= g'[m]
      BY <1>5, <1>9, <2>2, <3>1
    <3> QED
      BY <1>2, <1>9, <2>1, <2>2, <3>2
  <2>3. CASE m # n
    <3> DEFINE x == came_from[m].node
               e == came_from[m].edge
    <3>1. /\ m \in DOMAIN g /\ m \in DOMAIN came_from /\ x \in DOMAIN g
          /\ e \in outgoingEdges(query.graph, x) /\ Usable(e) /\ FarEnd(e, x) = m
          /\ g[x] + score(e) <= g[m]
      BY <1>1, <1>9, <2>3 DEF CameTrue
    <3>2. came_from'[m] = came_from[m] /\ g'[m] = g[m]
      BY <1>9, <2>1, <2>3, <3>1
    <3>3. score(e) \in Nat /\ g'[x] \in Nat /\ g[x] \in Nat /\ g'[x] <= g[x] /\ g[m] \in Nat
      BY <1>1, <1>6, <1>10, <3>1, QueryIs
    <3> HIDE DEF x, e, g
    <3>4. g'[x] + score(e) <= g'[m]
      BY <3>1, <3>2, <3>3
    <3> USE DEF x, e
    <3> QED
      BY <1>9, <2>1, <3>1, <3>2, <3>4
  <2> QED
    BY <2>2, <2>3
<1>14. ExpandsTrue'
  BY <1>1, <1>9 DEF ExpandsTrue
<1>15. WaitsOpen(n)'
  <2>1. r[2] = n /\ r[1] <= g'[n] + Heuristic(n)'
    BY <1>4, <1>5, <1>9, <1>11, SameEdges
  <2> QED
    BY <1>11, <2>1 DEF WaitsOpen
<1>16. ASSUME NEW m \in DOMAIN g, m # n, WaitsOpen(m) PROVE WaitsOpen(m)'
  <2>1. PICK q \in open : q[2] = m /\ q[1] <= g[m] + Heuristic(m)
    BY <1>16 DEF WaitsOpen
  <2>2. q \in open' /\ g'[m] = g[m] /\ Heuristic(m)' = Heuristic(m)
    BY <1>9, <1>16, <2>1, SameEdges
  <2> QED
    BY <2>1, <2>2 DEF WaitsOpen
<1>17. ASSUME NEW m \in DOMAIN g, m # n, NEW e \in outgoingEdges(query.graph, m),
              LeadsOn(m, e)
       PROVE  LeadsOn(m, e)'
  <2> DEFINE f == FarEnd(e, m)
  <2>1. f \in DOMAIN g /\ g[f] <= g[m] + score(e) /\ score(e) \in Nat
    BY <1>1, <1>17, QueryIs DEF LeadsOn
  <2>2. g'[f] \in Nat /\ g'[f] <= g[f] /\ g[f] \in Nat /\ g[m] \in Nat /\ g'[m] = g[m]
    BY <1>6, <1>9, <1>10, <1>17, <2>1
  <2> HIDE DEF f, g
  <2>3. g'[f] <= g'[m] + score(e)
    BY <2>1, <2>2
  <2> USE DEF f, g
  <2>4. f \in DOMAIN g'
    BY <1>9, <2>1
  <2> QED
    BY <2>3, <2>4, SameEdges DEF LeadsOn
<1>18. LeadsOn(current_node, id)'
  <2>1. g'[n] = g'[current_node] + score(id)
    BY <1>2, <1>8, <1>9
  <2>2. g'[n] <= g'[current_node] + score(id)
    BY <1>5, <1>9, <2>1
  <2>3. n \in DOMAIN g'
    BY <1>9
  <2> QED
    BY <2>2, <2>3, SameEdges DEF LeadsOn
<1>19. ASSUME NEW m \in DOMAIN g'
       PROVE  \/ WaitsOpen(m)'
              \/ \A e \in outgoingEdges(query'.graph, m) :
                   Usable(e)' => LeadsOn(m, e)' \/ (m = current_node' /\ e \in todo')
  <2>1. CASE m = n
    BY <1>15, <2>1
  <2>2. CASE m # n /\ WaitsOpen(m)
    BY <1>9, <1>16, <2>2
  <2>3. CASE m # n /\ ~WaitsOpen(m)
    <3>1. m \in DOMAIN g
      BY <1>9, <2>3
    <3>2. \A e \in outgoingEdges(query.graph, m) :
            Usable(e) => LeadsOn(m, e) \/ (m = current_node /\ e \in todo)
      BY <1>1, <2>3, <3>1 DEF OpenTrue3D
    <3>3. ASSUME NEW e \in outgoingEdges(query'.graph, m), Usable(e)'
          PROVE  LeadsOn(m, e)' \/ (m = current_node' /\ e \in todo')
      <4>1. e \in outgoingEdges(query.graph, m) /\ Usable(e)
        BY <3>3, SameEdges
      <4>2. CASE LeadsOn(m, e)
        BY <1>17, <2>3, <3>1, <4>1, <4>2
      <4>3. CASE m = current_node /\ e \in todo
        BY <1>18, <4>3
      <4> QED
        BY <3>2, <4>1, <4>2, <4>3
    <3> QED
      BY <3>3
  <2> QED
    BY <2>1, <2>2, <2>3
<1>20. (query.to \in DOMAIN g => WaitsOpen(query.to))'
  BY <1>1, <1>9, <1>15, <1>16 DEF OpenTrue3D
<1>21. OpenTrue3D'
  BY <1>19, <1>20 DEF OpenTrue3D
<1>22. InGraph' = InGraph
  BY SameEdges
<1> QED
  BY <1>1, <1>12, <1>13, <1>14, <1>21, <1>22 DEF AStarInv

LEMMA RelaxKeeps ==
  ASSUME AStarInv, NEW id \in todo, Relax3D(id)
  PROVE  AStarInv'
<1> DEFINE n == FarEnd(id, current_node)
           c == cost_so_far[current_node] + score(id)
<1>1. /\ planned = "searching" /\ todo' = todo \ {id}
      /\ UNCHANGED <<query, current_node, planned, cost, node_ids, edge_ids>>
  BY DEF Relax3D
<1>2. CASE Usable(id) /\ Better(n, c)
  BY <1>1, <1>2, RelaxImproves DEF Relax3D
<1>3. CASE ~(Usable(id) /\ Better(n, c))
  <2>1. UNCHANGED <<open, cost_so_far, came_from>>
    BY <1>3 DEF Relax3D
  <2> QED
    BY <1>1, <1>3, <2>1, RelaxRests
<1> QED
  BY <1>2, <1>3


\* One edge back; the node it comes from was reached, so it has its own.
LEMMA TraceKeeps == AStarInv /\ TraceBack => AStarInv'
<1> SUFFICES ASSUME AStarInv, TraceBack PROVE AStarInv'
  OBVIOUS
<1> DEFINE k == Len(edge_ids)
           n == node_ids[Len(node_ids)]
           m == came_from[n].node
           e == came_from[n].edge
           g == cost_so_far
<1>1. /\ planned = "tracing" /\ n # query.from
      /\ UNCHANGED <<query, open, cost_so_far, came_from, cost>>
  BY DEF TraceBack
<1>2. /\ InGraph /\ query \in Queries /\ ReachedTrue /\ CameTrue /\ TraceTrue
      /\ cost \in Nat /\ NoneIsCheaper3D
  BY <1>1 DEF AStarInv
<1>3. /\ k \in Nat /\ edge_ids \in Seq(DOMAIN query.graph.edges)
      /\ node_ids \in Seq(Nodes3D(query.graph)) /\ Len(node_ids) = k + 1
      /\ node_ids[1] = query.to /\ n \in DOMAIN g
      /\ \A i \in 1..k :
           /\ Usable(edge_ids[i]) /\ edge_ids[i] \in outgoingEdges(query.graph, node_ids[i + 1])
           /\ node_ids[i] = FarEnd(edge_ids[i], node_ids[i + 1])
      /\ g[n] + WayCost(Turned(edge_ids)) <= cost
  BY <1>2 DEF TraceTrue
<1>4. /\ n \in DOMAIN came_from /\ m \in DOMAIN g
      /\ e \in outgoingEdges(query.graph, m) /\ Usable(e) /\ FarEnd(e, m) = n
      /\ g[m] + score(e) <= g[n]
  BY <1>1, <1>2, <1>3 DEF CameTrue
<1>5. edge_ids' = Append(edge_ids, e) /\ node_ids' = Append(node_ids, m) /\ planned' = planned
  BY <1>4 DEF TraceBack
<1>6. e \in DOMAIN query.graph.edges /\ score(e) \in Nat
  BY <1>2, <1>4, QueryIs
<1>7. m \in Nodes3D(query.graph) /\ g[m] \in Nat /\ g[n] \in Nat
  BY <1>2, <1>3, <1>4 DEF ReachedTrue
<1> HIDE DEF k, n, m, e, g
<1>8. /\ edge_ids' \in Seq(DOMAIN query.graph.edges) /\ Len(edge_ids') = k + 1
      /\ edge_ids'[k + 1] = e /\ \A i \in 1..k : edge_ids'[i] = edge_ids[i]
  BY <1>3, <1>5, <1>6 DEF k
<1>9. /\ node_ids' \in Seq(Nodes3D(query.graph)) /\ Len(node_ids') = k + 2
      /\ node_ids'[k + 2] = m /\ \A i \in 1..(k + 1) : node_ids'[i] = node_ids[i]
  BY <1>3, <1>5, <1>7
<1>10. node_ids[k + 1] = n
  BY <1>3 DEF n
<1>11. ASSUME NEW i \in 1..(k + 1)
       PROVE  /\ Usable(edge_ids'[i]) /\ edge_ids'[i] \in outgoingEdges(query.graph, node_ids'[i + 1])
              /\ node_ids'[i] = FarEnd(edge_ids'[i], node_ids'[i + 1])
  <2>1. CASE i = k + 1
    <3>1. edge_ids'[i] = e /\ node_ids'[i + 1] = m /\ node_ids'[i] = n
      BY <1>3, <1>8, <1>9, <1>10, <2>1
    <3> QED
      BY <1>4, <3>1
  <2>2. CASE i # k + 1
    <3>1. i \in 1..k /\ i + 1 \in 1..(k + 1) /\ i \in 1..(k + 1)
      BY <1>3, <2>2
    <3>2. edge_ids'[i] = edge_ids[i] /\ node_ids'[i + 1] = node_ids[i + 1] /\ node_ids'[i] = node_ids[i]
      BY <1>8, <1>9, <3>1
    <3> QED
      BY <1>3, <3>1, <3>2
  <2> QED
    BY <2>1, <2>2
<1>12. WayCost(Turned(edge_ids)) \in Nat /\ WayCost(Turned(edge_ids')) = score(e) + WayCost(Turned(edge_ids))
  <2> DEFINE w == Turned(edge_ids)
             v == Turned(edge_ids')
  <2>1. Len(w) = k /\ \A i \in 1..k : w[i] = edge_ids[k + 1 - i]
    BY <1>3 DEF Turned, k
  <2>2. Len(v) = k + 1 /\ \A i \in 1..(k + 1) : v[i] = edge_ids'[k + 1 + 1 - i]
    BY <1>3, <1>8 DEF Turned
  <2> HIDE DEF w, v
  <2>3. v[1] = e
    <3>1. 1 \in 1..(k + 1) /\ k + 1 + 1 - 1 = k + 1
      BY <1>3
    <3> QED
      BY <1>8, <2>2, <3>1
  <2>4. ASSUME NEW i \in 1..k
        PROVE  w[i] \in DOMAIN query.graph.edges /\ v[i + 1] = w[i]
    <3>1. /\ i + 1 \in 1..(k + 1) /\ k + 1 - i \in 1..k
          /\ k + 1 + 1 - (i + 1) = k + 1 - i
      BY <1>3
    <3>2. v[i + 1] = edge_ids'[k + 1 - i] /\ w[i] = edge_ids[k + 1 - i]
      BY <2>1, <2>2, <3>1
    <3>3. edge_ids[k + 1 - i] \in DOMAIN query.graph.edges
      BY <1>3, <3>1 DEF k
    <3> QED
      BY <1>8, <3>1, <3>2, <3>3
  <2>5. WayCost(w) \in Nat /\ WayCost(v) = score(v[1]) + WayCost(w)
    BY <1>2, <1>3, <1>6, <2>1, <2>2, <2>3, <2>4, InFront
  <2> QED
    BY <2>3, <2>5 DEF w, v
<1>13. g[m] + WayCost(Turned(edge_ids')) <= cost
  <2> DEFINE a == WayCost(Turned(edge_ids))
             b == WayCost(Turned(edge_ids'))
             s == score(e)
  <2>1. a \in Nat /\ b = s + a /\ s \in Nat /\ g[m] \in Nat /\ g[n] \in Nat /\ cost \in Nat
        /\ g[m] + s <= g[n] /\ g[n] + a <= cost
    BY <1>2, <1>3, <1>4, <1>6, <1>7, <1>12
  <2> HIDE DEF a, b, s
  <2>2. g[m] + b <= cost
    BY <2>1
  <2> QED
    BY <2>2 DEF b
<1>14. TraceTrue'
  <2>1. WayCost(Turned(edge_ids))' = WayCost(Turned(edge_ids'))
    <3>1. Turned(edge_ids)' = Turned(edge_ids')
      BY DEF Turned
    <3> QED
      BY <1>1, <3>1, SameWays
  <2>2. g'[m] + WayCost(Turned(edge_ids))' <= cost'
    BY <1>1, <1>13, <2>1 DEF g
  <2>3. m \in DOMAIN g' /\ k + 1 \in Nat /\ k + 1 + 1 = k + 2
    BY <1>1, <1>3, <1>4 DEF g
  <2>4. 1 \in 1..(k + 1) /\ node_ids'[1] = query'.to
    BY <1>1, <1>3, <1>9
  <2> QED
    BY <1>1, <1>8, <1>9, <1>11, <2>2, <2>3, <2>4, SameEdges DEF TraceTrue, g
<1>15. ReachedTrue' /\ CameTrue'
  BY <1>1, <1>2, ReachedStays
<1>16. NoneIsCheaper3D'
  BY <1>1, <1>2, SameRoutes
<1>17. InGraph' = InGraph /\ cost' \in Nat /\ query' \in Queries /\ planned' = "tracing"
  BY <1>1, <1>2, <1>5, SameEdges
<1> QED
  BY <1>2, <1>14, <1>15, <1>16, <1>17 DEF AStarInv

\* At the start the way back, turned round, is a route.
LEMMA RouteKeeps3D == AStarInv /\ TracedBack => AStarInv'
<1> SUFFICES ASSUME AStarInv, TracedBack PROVE AStarInv'
  OBVIOUS
<1> DEFINE k == Len(edge_ids)
           p == Turned(node_ids)
           w == Turned(edge_ids)
<1>1. /\ planned = "tracing" /\ node_ids[Len(node_ids)] = query.from /\ planned' = "route"
      /\ node_ids' = p /\ edge_ids' = w
      /\ UNCHANGED <<query, open, cost_so_far, came_from, cost>>
  BY DEF TracedBack
<1>2. /\ InGraph /\ query \in Queries /\ ReachedTrue /\ TraceTrue
      /\ cost \in Nat /\ NoneIsCheaper3D
  BY <1>1 DEF AStarInv
<1>3. /\ k \in Nat /\ edge_ids \in Seq(DOMAIN query.graph.edges)
      /\ node_ids \in Seq(Nodes3D(query.graph)) /\ Len(node_ids) = k + 1
      /\ node_ids[1] = query.to /\ node_ids[k + 1] = query.from
      /\ \A i \in 1..k :
           /\ Usable(edge_ids[i]) /\ edge_ids[i] \in outgoingEdges(query.graph, node_ids[i + 1])
           /\ node_ids[i] = FarEnd(edge_ids[i], node_ids[i + 1])
      /\ cost_so_far[node_ids[k + 1]] + WayCost(w) <= cost
  BY <1>1, <1>2 DEF TraceTrue
<1>4. Len(w) = k /\ \A i \in 1..k : w[i] = edge_ids[k + 1 - i]
  BY <1>3 DEF Turned
<1>5. Len(p) = k + 1 /\ \A i \in 1..(k + 1) : p[i] = node_ids[k + 2 - i]
  <2>1. Len(p) = k + 1 /\ \A i \in 1..(k + 1) : p[i] = node_ids[(k + 1) + 1 - i]
    BY <1>3 DEF Turned
  <2> HIDE DEF p
  <2>2. \A i \in 1..(k + 1) : (k + 1) + 1 - i = k + 2 - i
    BY <1>3
  <2> QED
    BY <2>1, <2>2
<1>6. WayCost(w) \in Nat
  <2>1. \A i \in 1..Len(w) : w[i] \in DOMAIN query.graph.edges
    <3> SUFFICES ASSUME NEW i \in 1..k PROVE edge_ids[k + 1 - i] \in DOMAIN query.graph.edges
      BY <1>4
    <3>1. k + 1 - i \in 1..k
      BY <1>3
    <3> QED
      BY <1>3, <3>1
  <2>2. k \in 0..k
    BY <1>3
  <2> HIDE DEF w
  <2>3. CostsTo(w)[k] \in Nat
    BY <1>2, <1>3, <1>4, <2>1, <2>2, SumsNatural
  <2> QED
    BY <1>4, <2>3 DEF WayCost
<1>7. WayCost(w) <= cost
  <2>1. cost_so_far[node_ids[k + 1]] = 0
    BY <1>2, <1>3 DEF ReachedTrue
  <2> HIDE DEF w
  <2> QED
    BY <1>2, <1>3, <1>6, <2>1
<1> HIDE DEF p, w
<1>8. IsRoute3D(p, w)
  <2>1. p[1] = query.from /\ p[k + 1] = query.to
    <3>1. 1 \in 1..(k + 1) /\ k + 1 \in 1..(k + 1) /\ k + 2 - 1 = k + 1 /\ k + 2 - (k + 1) = 1
      BY <1>3
    <3> QED
      BY <1>3, <1>5, <3>1
  <2>2. ASSUME NEW i \in 1..k
        PROVE  /\ Usable(w[i]) /\ w[i] \in outgoingEdges(query.graph, p[i])
               /\ p[i + 1] = FarEnd(w[i], p[i])
    <3> DEFINE j == k + 1 - i
    <3>1. /\ j \in 1..k /\ i \in 1..(k + 1) /\ i + 1 \in 1..(k + 1)
          /\ k + 2 - i = j + 1 /\ k + 2 - (i + 1) = j
      BY <1>3
    <3>2. w[i] = edge_ids[j]
      BY <1>4
    <3>3. p[i] = node_ids[j + 1] /\ p[i + 1] = node_ids[j]
      BY <1>5, <3>1
    <3> HIDE DEF j
    <3> QED
      BY <1>3, <3>1, <3>2, <3>3
  <2> QED
    BY <1>4, <1>5, <2>1, <2>2 DEF IsRoute3D
<1>9. RouteIsTrue'
  <2>1. IsRoute3D(node_ids', edge_ids') /\ WayCost(edge_ids') <= cost
    BY <1>1, <1>7, <1>8
  <2>2. IsRoute3D(node_ids, edge_ids)' /\ WayCost(edge_ids)' = WayCost(edge_ids')
    BY <1>1, <2>1, SameWays
  <2> QED
    BY <1>1, <2>1, <2>2 DEF RouteIsTrue
<1>10. NoneIsCheaper3D'
  BY <1>1, <1>2, SameRoutes
<1>11. InGraph' = InGraph /\ cost' \in Nat /\ query' \in Queries
  BY <1>1, <1>2, SameEdges
<1> QED
  BY <1>1, <1>2, <1>9, <1>10, <1>11 DEF AStarInv

LEMMA AStarStep == AStarInv /\ Planner3Next => AStarInv'
<1> SUFFICES ASSUME AStarInv, Planner3Next PROVE AStarInv'
  OBVIOUS
<1>1. ASSUME NEW q \in open, ExpandNode(q) PROVE AStarInv'
  BY <1>1, ExpandKeeps, GoalKeeps3D
<1>2. ASSUME NEW id \in todo, Relax3D(id) PROVE AStarInv'
  BY <1>2, RelaxKeeps
<1> QED
  BY <1>1, <1>2, TimeKeeps, NoRouteKeeps, TraceKeeps, RouteKeeps3D DEF Planner3Next

LEMMA AStarRests == AStarInv /\ UNCHANGED planner3Vars => AStarInv'
<1> SUFFICES ASSUME AStarInv, UNCHANGED planner3Vars PROVE AStarInv'
  OBVIOUS
<1>1. UNCHANGED <<query, open, cost_so_far, came_from, current_node, todo, planned,
                  cost, node_ids, edge_ids>>
  BY DEF planner3Vars
<1>2. ReachedTrue' = ReachedTrue /\ CameTrue' = CameTrue
  BY <1>1, ReachedStays
<1>3. /\ \A n : WaitsOpen(n)' = WaitsOpen(n)
      /\ \A n, id : LeadsOn(n, id)' = LeadsOn(n, id)
  BY <1>1, SameEdges DEF WaitsOpen, LeadsOn
<1>4. OpenTrue3D' = OpenTrue3D
  BY <1>1, <1>3, SameEdges DEF OpenTrue3D
<1>5. ExpandsTrue' = ExpandsTrue
  BY <1>1 DEF ExpandsTrue
<1>6. NoneIsThere3D' = NoneIsThere3D /\ NoneIsCheaper3D' = NoneIsCheaper3D
  BY <1>1, SameRoutes
<1>7. TraceTrue' = TraceTrue
  <2>1. WayCost(Turned(edge_ids))' = WayCost(Turned(edge_ids))
    <3>1. Turned(edge_ids)' = Turned(edge_ids)
      BY <1>1 DEF Turned
    <3> QED
      BY <1>1, <3>1, SameWays
  <2> QED
    BY <1>1, <2>1, SameEdges DEF TraceTrue
<1>8. RouteIsTrue' = RouteIsTrue
  BY <1>1, SameWays DEF RouteIsTrue
<1>9. InGraph' = InGraph
  BY <1>1, SameEdges
<1> QED
  BY <1>1, <1>2, <1>4, <1>5, <1>6, <1>7, <1>8, <1>9 DEF AStarInv

LEMMA AStarIsRight == AStarInv => CheapestRoute
BY DEF AStarInv, CheapestRoute, RouteIsTrue, NoneIsCheaper3D, NoneIsThere3D, InGraph

-----------------------------------------------------------------------------

Route3DInv == BuilderInv /\ ServerInv

(* The builder, its file and the server keep what they promise: two anchors *)
(* are decided about once and for both, the file brings the graph back, and *)
(* a goal is answered from one graph that was there meanwhile.              *)
THEOREM Route3DCorrect == Route3DSpec => []Route3DSafe
<1>1. Route3DInit => Route3DInv
  BY BuilderStarts, ServerStarts DEF Route3DInit, Route3DInv
<1>2. ASSUME Route3DInv, [Route3DNext]_route3DVars PROVE Route3DInv'
  <2>1. BuilderNext \/ UNCHANGED builderVars
    BY <1>2 DEF Route3DNext, route3DVars
  <2>2. Server3Next \/ UNCHANGED server3Vars
    BY <1>2 DEF Route3DNext, route3DVars
  <2> QED
    BY <1>2, <2>1, <2>2, BuilderStep, BuilderRests, ServerStep, ServerRests DEF Route3DInv
<1>3. Route3DInv => Route3DSafe
  BY BuilderIsSafe, ServerIsSafe DEF Route3DInv, Route3DSafe
<1> QED
  BY <1>1, <1>2, <1>3, PTL DEF Route3DSpec

\* The route plan() of nav2_route3d tells for a query of two nodes is a route
\* of the graph, costs what it is said to cost and is a cheapest one, and
\* "no route" is told only when there is none (plan, reconstruct).
THEOREM CheapestCorrect == Route3DSpec => []CheapestRoute
<1>1. Route3DInit => AStarInv
  BY AStarStarts DEF Route3DInit
<1>2. ASSUME AStarInv, [Route3DNext]_route3DVars PROVE AStarInv'
  <2>1. Planner3Next \/ UNCHANGED planner3Vars
    BY <1>2 DEF Route3DNext, route3DVars
  <2> QED
    BY <1>2, <2>1, AStarStep, AStarRests
<1>3. AStarInv => CheapestRoute
  BY AStarIsRight
<1> QED
  BY <1>1, <1>2, <1>3, PTL DEF Route3DSpec
=============================================================================
