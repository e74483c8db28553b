----------------------------- MODULE MapProofs -----------------------------
(***************************************************************************)
(* What holds of the programs a map is made with.                          *)
(*                                                                         *)
(* Every recording, however long it is and whatever the poses are: the     *)
(* document is one the planner loads, the state machine of the builder     *)
(* never goes on from a vertex or an edge that is gone, and the graph is   *)
(* in one piece but for the places the robot was carried to.  One          *)
(* invariant of a builder, Sound, carries all three.  It is kept by the    *)
(* three operations on the graph (a vertex where the robot is, a closing   *)
(* edge, a split), and by every handler, because all of them are made of   *)
(* these and of moves of the cursors.                                      *)
(*                                                                         *)
(* The other recorder, of poses and clouds.                                *)
(*                                                                         *)
(* Every editing session: whatever is edited, undone, redone, saved and    *)
(* loaded, each document that can come back is sound, and undo and redo    *)
(* move along one line of documents.  The invariant has all documents of   *)
(* the session in the set Good.  Each operation of TopologyDocument is     *)
(* shown to stay in it; the panel's operations then only move documents    *)
(* between the file, the screen and the two stacks.                        *)
(***************************************************************************)
EXTENDS OdomWaypoint, DataRecorder, TopologyEditor, FiniteSetTheorems, SequenceTheorems,
        WellFoundedInduction, TLAPS

-----------------------------------------------------------------------------
(* The inductive invariant of a builder that has seen a pose               *)

Fields == {"component", "edge", "nextEdge", "jumps", "state", "current", "retrace",
           "kind", "pending", "source", "joinEdge", "joinVertex", "exitEdge",
           "exitVertex", "leftover", "finalized", "raised"}

\* A record with the fields of a builder, and values where they are needed.
Shape(b) ==
  /\ DOMAIN b = Fields
  /\ b.component \in Seq(Nat) /\ Len(b.component) > 0
  /\ b.jumps \in Nat /\ b.nextEdge \in Nat \ {0}
  /\ b.kind \in {"retrace", "loop"}
  /\ b.state \in {"DISCOVERING", "RETRACE_PENDING", "RETRACING", "EXIT_PENDING"}
  /\ b.raised = FALSE

\* A simple graph, with ids for its edges that are not given out again.
Simple(b) ==
  /\ \A e \in Edges(b) : e \in Nat /\ 0 < e /\ e < b.nextEdge
  /\ \A e \in Edges(b) : \E u, v \in Nodes(b) : u # v /\ b.edge[e] = {u, v}
  /\ \A e, f \in Edges(b) : b.edge[e] = b.edge[f] => e = f

\* Every piece of it holds a root.
Closed(b, piece) ==
  \A e \in Edges(b) : b.edge[e] \subseteq piece \/ b.edge[e] \cap piece = {}

Rooted(b) ==
  /\ \A v \in Nodes(b) : b.component[v] <= b.jumps
  /\ \A piece \in SUBSET Nodes(b) :
       piece # {} /\ Closed(b, piece) => piece \cap Roots(b) # {}

\* A cursor is 0 or refers to something that is there.
RefersTo(c, vertices, edges) ==
  /\ c.current \in vertices \cup {0} /\ c.source \in vertices \cup {0}
  /\ c.joinVertex \in vertices \cup {0} /\ c.exitVertex \in vertices \cup {0}
  /\ c.retrace \in edges \cup {0} /\ c.pending \in edges \cup {0}
  /\ c.joinEdge \in edges \cup {0} /\ c.exitEdge \in edges \cup {0}

Referring(b) == RefersTo(b, Nodes(b), Edges(b))

\* What a state goes on from is not 0; a loop is not closed where it begins.
Stated(b) ==
  /\ b.state = "DISCOVERING" => b.current # 0
  /\ b.state = "RETRACE_PENDING" =>
       /\ b.pending # 0 /\ b.source # 0
       /\ b.kind = "loop" =>
            /\ b.joinEdge # 0 \/ b.joinVertex # 0
            /\ b.joinVertex # b.source
            /\ b.joinEdge # 0 => b.source \notin b.edge[b.joinEdge]
  /\ b.state = "RETRACING" => b.retrace # 0
  /\ b.state = "EXIT_PENDING" => b.exitEdge # 0 \/ b.exitVertex # 0

Sound(b) == Shape(b) /\ Simple(b) /\ Rooted(b) /\ Referring(b) /\ Stated(b)

BuilderInv == topology = NewBuilder \/ Sound(topology)
-----------------------------------------------------------------------------
(* What the parts of the invariant depend on *)

SameGraph(b, c) ==
  /\ c.component = b.component /\ c.edge = b.edge
  /\ c.nextEdge = b.nextEdge /\ c.jumps = b.jumps

SameCursors(b, c) ==
  /\ c.current = b.current /\ c.source = b.source
  /\ c.joinVertex = b.joinVertex /\ c.exitVertex = b.exitVertex
  /\ c.retrace = b.retrace /\ c.pending = b.pending
  /\ c.joinEdge = b.joinEdge /\ c.exitEdge = b.exitEdge
  /\ c.state = b.state /\ c.kind = b.kind

\* What is there stays there.
Extends(b, c) ==
  /\ Nodes(b) \subseteq Nodes(c) /\ Edges(b) \subseteq Edges(c)
  /\ \A e \in Edges(b) : c.edge[e] = b.edge[e]

LEMMA GraphKept ==
  ASSUME NEW b, NEW c, SameGraph(b, c), Simple(b), Rooted(b)
  PROVE  Simple(c) /\ Rooted(c) /\ Nodes(c) = Nodes(b) /\ Edges(c) = Edges(b)
<1>1. Nodes(c) = Nodes(b) /\ Edges(c) = Edges(b) /\ Roots(c) = Roots(b)
  BY DEF SameGraph, Nodes, Edges, Roots
<1>2. \A piece : Closed(c, piece) <=> Closed(b, piece)
  BY <1>1 DEF SameGraph, Closed
<1>3. Simple(c)
  BY <1>1 DEF SameGraph, Simple
<1>4. Rooted(c)
  BY <1>1, <1>2 DEF SameGraph, Rooted
<1> QED  BY <1>1, <1>3, <1>4

LEMMA CursorsKept ==
  ASSUME NEW b, NEW c, SameCursors(b, c), Extends(b, c), Simple(b),
         Referring(b), Stated(b)
  PROVE  Referring(c) /\ Stated(c)
<1>1. Referring(c)
  BY DEF SameCursors, Extends, Referring, RefersTo
<1>2. b.joinEdge # 0 => c.edge[b.joinEdge] = b.edge[b.joinEdge]
  BY DEF Extends, Referring, RefersTo
<1>3. Stated(c)
  BY <1>2 DEF SameCursors, Stated
<1> QED  BY <1>1, <1>3

\* A vertex more.
LEMMA OneVertexMore ==
  ASSUME NEW b, Shape(b), NEW k \in Nat
  PROVE  LET n == Len(b.component) + 1
             more == Append(b.component, k)
         IN  /\ more \in Seq(Nat) /\ Len(more) = n /\ n \in Nat /\ n > 1
             /\ Nodes(b) = 1 .. n - 1 /\ DOMAIN more = Nodes(b) \cup {n}
             /\ n \notin Nodes(b)
             /\ more[n] = k /\ \A v \in Nodes(b) : more[v] = b.component[v]
<1> DEFINE n == Len(b.component) + 1
           more == Append(b.component, k)
<1>1. b.component \in Seq(Nat) /\ Len(b.component) \in Nat /\ Len(b.component) > 0
      /\ Nodes(b) = 1 .. Len(b.component)
  BY LenProperties DEF Shape, Nodes
<1>2. /\ more \in Seq(Nat) /\ Len(more) = n /\ more[n] = k
      /\ \A v \in 1 .. Len(b.component) : more[v] = b.component[v]
  BY <1>1, AppendProperties
<1>3. DOMAIN more = 1 .. n
  BY <1>2, LenProperties
<1>4. 1 .. n = (1 .. n - 1) \cup {n} /\ n \notin 1 .. n - 1 /\ n \in Nat /\ n > 1
  BY <1>1
<1> QED  BY <1>1, <1>2, <1>3, <1>4

\* A graph with a vertex more is rooted if each of its pieces holds one of the
\* pieces it had before, or the new vertex is a root itself.
LEMMA RootedGrows ==
  ASSUME NEW b, NEW c, NEW k \in Nat, Shape(b), Rooted(b),
         c.component = Append(b.component, k), c.jumps \in Nat,
         b.jumps <= c.jumps, k <= c.jumps,
         \A piece \in SUBSET Nodes(c) :
           piece # {} /\ Closed(c, piece) =>
             \/ Len(b.component) + 1 \in piece /\ k > b.jumps
             \/ \E rest \in SUBSET Nodes(b) :
                  rest # {} /\ rest \subseteq piece /\ Closed(b, rest)
  PROVE  Rooted(c)
<1> DEFINE n == Len(b.component) + 1
<1>1. /\ n \in Nat /\ n > 1 /\ Nodes(b) = 1 .. n - 1 /\ Nodes(c) = Nodes(b) \cup {n}
      /\ n \notin Nodes(b)
      /\ c.component[n] = k /\ \A v \in Nodes(b) : c.component[v] = b.component[v]
  BY OneVertexMore DEF Nodes
<1>2. b.jumps \in Nat /\ \A v \in Nodes(b) : b.component[v] \in Nat
  BY DEF Shape, Nodes
<1> HIDE DEF n
<1>3. \A v \in Nodes(c) : c.component[v] <= c.jumps
  <2>1. \A v \in Nodes(b) : b.component[v] <= b.jumps
    BY DEF Rooted
  <2>2. ASSUME NEW v \in Nodes(b) PROVE c.component[v] <= c.jumps
    <3>1. /\ b.component[v] \in Nat /\ b.component[v] <= b.jumps
          /\ c.component[v] = b.component[v]
      BY <1>1, <1>2, <2>1
    <3> QED  BY <1>2, <3>1
  <2> QED  BY <1>1, <2>2
<1>4. Roots(b) \subseteq Roots(c)
  <2> SUFFICES ASSUME NEW v \in Nodes(b), v = 1 \/ b.component[v] # b.component[v - 1]
               PROVE  v \in Nodes(c) /\ (v = 1 \/ c.component[v] # c.component[v - 1])
    BY DEF Roots
  <2>1. v = 1 \/ v - 1 \in Nodes(b)
    BY <1>1
  <2> QED  BY <1>1, <2>1
<1>5. k > b.jumps => n \in Roots(c)
  <2>1. n - 1 \in Nodes(b)
    BY <1>1
  <2>2. b.component[n - 1] <= b.jumps /\ b.component[n - 1] \in Nat
    BY <1>2, <2>1 DEF Rooted
  <2>3. c.component[n - 1] = b.component[n - 1]
    BY <1>1, <2>1
  <2>4. k > b.jumps => c.component[n] # c.component[n - 1]
    BY <1>1, <1>2, <2>2, <2>3
  <2> QED  BY <1>1, <2>4 DEF Roots
<1>6. ASSUME NEW piece \in SUBSET Nodes(c), piece # {}, Closed(c, piece)
      PROVE  piece \cap Roots(c) # {}
  <2>1. CASE n \in piece /\ k > b.jumps
    BY <1>5, <2>1
  <2>2. CASE \E rest \in SUBSET Nodes(b) :
               rest # {} /\ rest \subseteq piece /\ Closed(b, rest)
    BY <1>4, <2>2 DEF Rooted
  <2> QED  BY <1>6, <2>1, <2>2 DEF n
<1> QED  BY <1>3, <1>6 DEF Rooted

-----------------------------------------------------------------------------
(* The operations on the graph *)

\* c is b with an edge from u to v.
EdgeMore(b, c, u, v) ==
  /\ DOMAIN c = Fields
  /\ Edges(c) = Edges(b) \cup {b.nextEdge} /\ c.nextEdge = b.nextEdge + 1
  /\ \A e \in Edges(c) : c.edge[e] = IF e = b.nextEdge THEN {u, v} ELSE b.edge[e]
  /\ SameCursors(b, c) /\ c.component = b.component /\ c.jumps = b.jumps
  /\ c.raised = b.raised /\ c.leftover = b.leftover /\ c.finalized = b.finalized

\* AddEdge where there is no such edge yet.
LEMMA EdgeAdded ==
  ASSUME NEW b, DOMAIN b = Fields, NEW u, NEW v, u # v,
         \A e \in Edges(b) : b.edge[e] # {u, v}
  PROVE  EdgeMore(b, AddEdge(b, u, v), u, v)
<1> DEFINE edges == [i \in Edges(b) \cup {b.nextEdge} |->
                       IF i = b.nextEdge THEN {u, v} ELSE b.edge[i]]
           c == [b EXCEPT !.edge = edges, !.nextEdge = @ + 1]
<1>1. AddEdge(b, u, v) = c
  BY DEF AddEdge
<1>2. DOMAIN edges = Edges(b) \cup {b.nextEdge}
      /\ \A e \in DOMAIN edges : edges[e] = IF e = b.nextEdge THEN {u, v} ELSE b.edge[e]
  OBVIOUS
<1> HIDE DEF edges
<1>3. /\ DOMAIN c = Fields /\ c.edge = edges /\ c.nextEdge = b.nextEdge + 1
      /\ SameCursors(b, c) /\ c.component = b.component /\ c.jumps = b.jumps
      /\ c.raised = b.raised /\ c.leftover = b.leftover /\ c.finalized = b.finalized
  BY DEF Fields, SameCursors
<1> QED  BY <1>1, <1>2, <1>3 DEF Edges, EdgeMore

\* A closing edge.
LEMMA AddEdgeSound ==
  ASSUME NEW b, Sound(b), NEW u \in Nodes(b), NEW v \in Nodes(b), u # v
  PROVE  LET c == AddEdge(b, u, v)
         IN  Sound(c) /\ SameCursors(b, c) /\ Extends(b, c)
<1> DEFINE c == AddEdge(b, u, v)
<1>1. CASE \E e \in Edges(b) : b.edge[e] = {u, v}
  <2>1. c = b
    BY <1>1 DEF AddEdge
  <2> QED  BY <2>1 DEF SameCursors, Extends
<1>2. CASE \A e \in Edges(b) : b.edge[e] # {u, v}
  <2>1. DOMAIN b = Fields /\ b.nextEdge \in Nat \ {0} /\ b.nextEdge \notin Edges(b)
    BY DEF Sound, Shape, Simple
  <2>2. /\ DOMAIN c = Fields
        /\ Edges(c) = Edges(b) \cup {b.nextEdge} /\ c.nextEdge = b.nextEdge + 1
        /\ \A e \in Edges(c) : c.edge[e] = IF e = b.nextEdge THEN {u, v} ELSE b.edge[e]
        /\ SameCursors(b, c) /\ c.component = b.component /\ c.jumps = b.jumps
        /\ c.raised = b.raised
    <3>1. EdgeMore(b, c, u, v)
      BY <1>2, <2>1, EdgeAdded
    <3> HIDE DEF c
    <3> QED  BY <3>1 DEF EdgeMore
  <2> HIDE DEF c
  <2>3. Nodes(c) = Nodes(b) /\ Roots(c) = Roots(b)
    BY <2>2 DEF Nodes, Roots
  <2>4. Extends(b, c)
    BY <2>1, <2>2, <2>3 DEF Extends
  <2>5. Shape(c)
    BY <2>1, <2>2 DEF Sound, Shape, SameCursors
  <2>6. Simple(c)
    <3>1. \A e \in Edges(c) : e \in Nat /\ 0 < e /\ e < c.nextEdge
      BY <2>1, <2>2 DEF Sound, Simple
    <3>2. \A e \in Edges(c) : \E x, y \in Nodes(c) : x # y /\ c.edge[e] = {x, y}
      BY <2>2, <2>3 DEF Sound, Simple
    <3>3. \A e, f \in Edges(c) : c.edge[e] = c.edge[f] => e = f
      BY <1>2, <2>2 DEF Sound, Simple
    <3> QED  BY <3>1, <3>2, <3>3 DEF Simple
  <2>7. Rooted(c)
    <3>1. \A piece : Closed(c, piece) => Closed(b, piece)
      BY <2>4 DEF Closed, Extends
    <3> QED  BY <2>2, <2>3, <3>1 DEF Sound, Rooted
  <2>8. Referring(c) /\ Stated(c)
    BY <2>2, <2>4, CursorsKept DEF Sound
  <2> QED  BY <2>2, <2>4, <2>5, <2>6, <2>7, <2>8 DEF Sound, c
<1> QED  BY <1>1, <1>2

\* AddVertex.
LEMMA VertexAdded ==
  ASSUME NEW b, DOMAIN b = Fields
  PROVE  LET c == AddVertex(b)
         IN  /\ DOMAIN c = Fields /\ c.component = Append(b.component, b.jumps)
             /\ c.edge = b.edge /\ c.nextEdge = b.nextEdge /\ c.jumps = b.jumps
             /\ SameCursors(b, c) /\ c.raised = b.raised
             /\ c.leftover = b.leftover /\ c.finalized = b.finalized
BY DEF AddVertex, Fields, SameCursors

\* No edge there was leads to a new vertex.
LEMMA EdgesAreOld ==
  ASSUME NEW b, Simple(b), NEW e \in Edges(b)
  PROVE  b.edge[e] \subseteq Nodes(b)
BY DEF Simple

\* A vertex where the robot is, joined to the one before: while it discovers.
LEMMA ExtendedSound ==
  ASSUME NEW b, Sound(b), b.state = "DISCOVERING"
  PROVE  LET c == Extended(b)
         IN  Sound(c) /\ c.state = "DISCOVERING" /\ Extends(b, c)
<1> DEFINE n == Len(b.component) + 1
           m == AddVertex(b)
           d == AddEdge(m, b.current, n)
           c == Extended(b)
<1>1. /\ DOMAIN b = Fields /\ b.component \in Seq(Nat) /\ b.jumps \in Nat
      /\ b.nextEdge \in Nat \ {0} /\ b.nextEdge \notin Edges(b)
      /\ b.current \in Nodes(b) /\ b.current # 0
  BY DEF Sound, Shape, Simple, Referring, RefersTo, Stated
<1>2. /\ n \in Nat /\ n > 1 /\ Nodes(b) = 1 .. n - 1 /\ n \notin Nodes(b)
      /\ Append(b.component, b.jumps) \in Seq(Nat)
      /\ Len(Append(b.component, b.jumps)) = n
      /\ DOMAIN Append(b.component, b.jumps) = Nodes(b) \cup {n}
  BY <1>1, OneVertexMore DEF Sound
<1>3. /\ DOMAIN m = Fields /\ m.component = Append(b.component, b.jumps)
      /\ m.edge = b.edge /\ m.nextEdge = b.nextEdge /\ m.jumps = b.jumps
      /\ SameCursors(b, m) /\ m.raised = b.raised
  BY <1>1, VertexAdded
<1>4. Newest(m) = n
  BY <1>2, <1>3 DEF Newest
<1>5. c = [d EXCEPT !.current = n]
  BY <1>1, <1>4 DEF Extended
<1>6. \A e \in Edges(m) : m.edge[e] # {b.current, n}
  BY <1>2, <1>3, EdgesAreOld DEF Edges, Sound
<1>7. b.current # n
  BY <1>1, <1>2
<1> HIDE DEF n, m
<1>8. /\ DOMAIN d = Fields
      /\ Edges(d) = Edges(m) \cup {m.nextEdge} /\ d.nextEdge = m.nextEdge + 1
      /\ \A e \in Edges(d) :
           d.edge[e] = IF e = m.nextEdge THEN {b.current, n} ELSE m.edge[e]
      /\ SameCursors(m, d) /\ d.component = m.component /\ d.jumps = m.jumps
      /\ d.raised = m.raised
  <2>1. EdgeMore(m, d, b.current, n)
    BY <1>3, <1>6, <1>7, EdgeAdded
  <2> HIDE DEF d
  <2> QED  BY <2>1 DEF EdgeMore
<1> HIDE DEF d, c
<1>9. /\ DOMAIN c = Fields /\ SameGraph(d, c) /\ c.current = n
      /\ c.source = d.source /\ c.joinVertex = d.joinVertex
      /\ c.exitVertex = d.exitVertex /\ c.retrace = d.retrace /\ c.pending = d.pending
      /\ c.joinEdge = d.joinEdge /\ c.exitEdge = d.exitEdge
      /\ c.state = d.state /\ c.kind = d.kind /\ c.raised = d.raised
  BY <1>5, <1>8 DEF Fields, SameGraph
<1>10. /\ c.component = Append(b.component, b.jumps) /\ c.jumps = b.jumps
       /\ Edges(c) = Edges(b) \cup {b.nextEdge} /\ c.nextEdge = b.nextEdge + 1
       /\ \A e \in Edges(c) :
            c.edge[e] = IF e = b.nextEdge THEN {b.current, n} ELSE b.edge[e]
       /\ Nodes(c) = Nodes(b) \cup {n}
  BY <1>2, <1>3, <1>8, <1>9, ZenonT(30) DEF SameGraph, Edges, Nodes
<1>11. Extends(b, c)
  BY <1>1, <1>10 DEF Extends
<1>12. Shape(c)
  <2>1. /\ c.component \in Seq(Nat) /\ Len(c.component) > 0 /\ c.jumps \in Nat
        /\ c.nextEdge \in Nat \ {0}
    BY <1>1, <1>2, <1>10
  <2>2. c.kind = b.kind /\ c.state = b.state /\ c.raised = b.raised
    BY <1>3, <1>8, <1>9 DEF SameCursors
  <2> QED  BY <1>9, <2>1, <2>2 DEF Sound, Shape
<1>13. Simple(c)
  <2>1. \A e \in Edges(c) : e \in Nat /\ 0 < e /\ e < c.nextEdge
    BY <1>1, <1>10 DEF Sound, Simple
  <2>2. \A e \in Edges(c) : \E x, y \in Nodes(c) : x # y /\ c.edge[e] = {x, y}
    <3> SUFFICES ASSUME NEW e \in Edges(c)
                 PROVE  \E x, y \in Nodes(c) : x # y /\ c.edge[e] = {x, y}
      OBVIOUS
    <3>1. CASE e = b.nextEdge
      BY <1>1, <1>7, <1>10, <3>1
    <3>2. CASE e \in Edges(b)
      <4>1. c.edge[e] = b.edge[e] /\ Nodes(b) \subseteq Nodes(c)
        BY <1>11, <3>2 DEF Extends
      <4> QED  BY <3>2, <4>1 DEF Sound, Simple
    <3> QED  BY <1>10, <3>1, <3>2
  <2>3. \A e, f \in Edges(c) : c.edge[e] = c.edge[f] => e = f
    <3>1. \A e \in Edges(b) : n \notin b.edge[e]
      BY <1>2, EdgesAreOld DEF Sound
    <3> QED  BY <1>10, <3>1 DEF Sound, Simple
  <2> QED  BY <2>1, <2>2, <2>3 DEF Simple
<1>14. Rooted(c)
  <2>1. ASSUME NEW piece \in SUBSET Nodes(c), piece # {}, Closed(c, piece)
        PROVE  \E rest \in SUBSET Nodes(b) :
                 rest # {} /\ rest \subseteq piece /\ Closed(b, rest)
    <3>1. b.nextEdge \in Edges(c) /\ c.edge[b.nextEdge] = {b.current, n}
      BY <1>10
    <3>2. n \in piece => b.current \in piece
      BY <2>1, <3>1 DEF Closed
    <3>3. piece \ {n} \in SUBSET Nodes(b) /\ piece \ {n} # {}
      BY <1>1, <1>2, <1>7, <1>10, <2>1, <3>2
    <3>4. Closed(b, piece \ {n})
      <4> SUFFICES ASSUME NEW e \in Edges(b)
                   PROVE  b.edge[e] \subseteq piece \ {n} \/ b.edge[e] \cap (piece \ {n}) = {}
        BY DEF Closed
      <4>1. c.edge[e] = b.edge[e] /\ e \in Edges(c)
        BY <1>11 DEF Extends
      <4>2. n \notin b.edge[e]
        BY <1>2, EdgesAreOld DEF Sound
      <4> QED  BY <2>1, <4>1, <4>2 DEF Closed
    <3> QED  BY <3>3, <3>4
  <2>2. Shape(b) /\ Rooted(b)
    BY DEF Sound
  <2>3. b.jumps \in Nat /\ c.jumps \in Nat /\ b.jumps <= c.jumps
        /\ c.component = Append(b.component, b.jumps)
    BY <1>1, <1>10
  <2> HIDE DEF c
  <2> QED  BY <2>1, <2>2, <2>3, RootedGrows
<1>15. Referring(c)
  BY <1>3, <1>8, <1>9, <1>10, <1>11 DEF Sound, Referring, RefersTo, SameCursors, Extends
<1>16. Stated(c) /\ c.state = "DISCOVERING"
  BY <1>2, <1>3, <1>8, <1>9 DEF Stated, SameCursors
<1> QED  BY <1>11, <1>12, <1>13, <1>14, <1>15, <1>16 DEF Sound, c

\* c is b with a vertex n in the middle of edge e, and two edges for e.
SplitMore(b, c, e, n) ==
  LET halves == Halves(b)
  IN  /\ DOMAIN c = Fields /\ c.component = Append(b.component, b.jumps)
      /\ c.jumps = b.jumps /\ c.nextEdge = b.nextEdge + 2 /\ c.raised = b.raised
      /\ Edges(c) = (Edges(b) \ {e}) \cup halves
      /\ \A f \in Edges(b) \ {e} : c.edge[f] = b.edge[f]
      /\ \E u, w : /\ u # w /\ b.edge[e] = {u, w}
                   /\ c.edge[b.nextEdge] = {u, n} /\ c.edge[b.nextEdge + 1] = {n, w}
      /\ c.state = b.state /\ c.kind = b.kind
      /\ c.current = b.current /\ c.source = b.source
      /\ c.retrace \in Remapped(b.retrace, e, halves)
      /\ c.pending \in Remapped(b.pending, e, halves)
      /\ <<c.joinEdge, c.joinVertex>> \in
           RemappedAnchor(b.joinEdge, b.joinVertex, e, halves, n)
      /\ <<c.exitEdge, c.exitVertex>> \in
           RemappedAnchor(b.exitEdge, b.exitVertex, e, halves, n)

\* A vertex joined to two others that no edge leads to yet.
LEMMA LinkedTwice ==
  ASSUME NEW m, DOMAIN m = Fields, m.nextEdge \in Nat,
         \A f \in Edges(m) : f < m.nextEdge /\ f \in Nat,
         NEW x, NEW y, x # y, NEW n, n \notin {x, y},
         \A f \in Edges(m) : n \notin m.edge[f]
  PROVE  \E u, w : /\ u # w /\ {u, w} = {x, y}
                   /\ EdgeMore(m, AddEdge(m, u, n), u, n)
                   /\ EdgeMore(AddEdge(m, u, n), Linked(m, {x, y}, n), n, w)
<1> DEFINE u == CHOOSE u \in {x, y} : TRUE
           w == CHOOSE w \in {x, y} : {x, y} = {u, w}
           d == AddEdge(m, u, n)
<1>1. u \in {x, y}
  OBVIOUS
<1>2. \E z \in {x, y} : {x, y} = {u, z}
  BY <1>1
<1> HIDE DEF u
<1>3. w \in {x, y} /\ {x, y} = {u, w}
  BY <1>2
<1> HIDE DEF w
<1>4. u # w /\ u # n /\ n # w
  BY <1>1, <1>3
<1>5. EdgeMore(m, d, u, n)
  BY <1>4, EdgeAdded
<1>6. Linked(m, {x, y}, n) = AddEdge(d, n, w)
  BY DEF Linked, u, w, d
<1> HIDE DEF d
<1>7. DOMAIN d = Fields /\ \A f \in Edges(d) : d.edge[f] # {n, w}
  <2>1. \A f \in Edges(m) : f # m.nextEdge
    OBVIOUS
  <2> QED  BY <1>4, <1>5, <2>1 DEF EdgeMore
<1>8. EdgeMore(d, AddEdge(d, n, w), n, w)
  BY <1>4, <1>7, EdgeAdded
<1> QED  BY <1>3, <1>4, <1>5, <1>6, <1>8 DEF d

LEMMA SplitBuilt ==
  ASSUME NEW b, Sound(b), NEW e \in Edges(b), NEW c \in Split(b, e)
  PROVE  SplitMore(b, c, e, Len(b.component) + 1)
<1> DEFINE n == Len(b.component) + 1
           halves == Halves(b)
           rest == [i \in Edges(b) \ {e} |-> b.edge[i]]
           less == [b EXCEPT !.edge = rest]
           m == AddVertex(less)
           d == Linked(m, b.edge[e], n)
           k == Halved(b, e)
           j == Newest(k)
<1>1. DOMAIN b = Fields /\ b.nextEdge \in Nat
      /\ (\A f \in Edges(b) : f \in Nat /\ f < b.nextEdge)
      /\ b.jumps \in Nat
  BY DEF Sound, Shape, Simple
<1>2. PICK x, y \in Nodes(b) : x # y /\ b.edge[e] = {x, y}
  BY DEF Sound, Simple
<1>3. n \notin Nodes(b) /\ n = Len(Append(b.component, b.jumps))
  BY <1>1, OneVertexMore DEF Sound
<1>4. DOMAIN rest = Edges(b) \ {e} /\ \A f \in Edges(b) \ {e} : rest[f] = b.edge[f]
  OBVIOUS
<1> HIDE DEF rest, n
<1>5. /\ DOMAIN less = Fields /\ less.edge = rest /\ less.nextEdge = b.nextEdge
      /\ less.component = b.component /\ less.jumps = b.jumps
      /\ SameCursors(b, less) /\ less.raised = b.raised
  BY <1>1 DEF Fields, SameCursors
<1> HIDE DEF less
<1>6. /\ DOMAIN m = Fields /\ m.component = Append(b.component, b.jumps)
      /\ m.edge = rest /\ m.nextEdge = b.nextEdge /\ m.jumps = b.jumps
      /\ SameCursors(less, m) /\ m.raised = b.raised
  BY <1>5, VertexAdded
<1>7. Newest(m) = n /\ k = d
  <2>1. Newest(m) = n
    BY <1>3, <1>6 DEF Newest
  <2>2. k = Linked(m, b.edge[e], Newest(m))
    BY DEF Halved, m, less, rest
  <2> QED  BY <2>1, <2>2
<1> HIDE DEF m
<1>8. Edges(m) = Edges(b) \ {e} /\ \A f \in Edges(m) : m.edge[f] = b.edge[f]
  BY <1>4, <1>6 DEF Edges
<1>9. \A f \in Edges(m) : n \notin m.edge[f]
  BY <1>3, <1>8, EdgesAreOld DEF Sound
<1>10. PICK u, w : /\ u # w /\ {u, w} = {x, y}
                   /\ EdgeMore(m, AddEdge(m, u, n), u, n)
                   /\ EdgeMore(AddEdge(m, u, n), d, n, w)
  <2>1. n \notin {x, y} /\ m.nextEdge \in Nat
        /\ \A f \in Edges(m) : f < m.nextEdge /\ f \in Nat
    BY <1>1, <1>2, <1>3, <1>6, <1>8
  <2>2. \E u, w : /\ u # w /\ {u, w} = {x, y}
                  /\ EdgeMore(m, AddEdge(m, u, n), u, n)
                  /\ EdgeMore(AddEdge(m, u, n), Linked(m, {x, y}, n), n, w)
    BY <1>2, <1>6, <1>9, <2>1, LinkedTwice
  <2> QED  BY <1>2, <2>2
<1> DEFINE h == AddEdge(m, u, n)
<1> HIDE DEF h, d
<1>11. /\ DOMAIN d = Fields /\ d.component = m.component /\ d.jumps = m.jumps
       /\ d.raised = m.raised /\ d.nextEdge = m.nextEdge + 2
       /\ SameCursors(m, d)
       /\ Edges(d) = Edges(m) \cup halves
       /\ \A f \in Edges(m) : d.edge[f] = m.edge[f]
       /\ d.edge[b.nextEdge] = {u, n} /\ d.edge[b.nextEdge + 1] = {n, w}
  <2>1. EdgeMore(m, h, u, n) /\ EdgeMore(h, d, n, w)
    BY <1>10 DEF h
  <2>2. /\ Edges(h) = Edges(m) \cup {b.nextEdge} /\ h.nextEdge = b.nextEdge + 1
        /\ \A f \in Edges(h) : h.edge[f] = IF f = b.nextEdge THEN {u, n} ELSE m.edge[f]
        /\ SameCursors(m, h) /\ h.component = m.component /\ h.jumps = m.jumps
        /\ h.raised = m.raised
    BY <1>6, <2>1 DEF EdgeMore
  <2>3. /\ DOMAIN d = Fields
        /\ Edges(d) = Edges(h) \cup {h.nextEdge} /\ d.nextEdge = h.nextEdge + 1
        /\ \A f \in Edges(d) : d.edge[f] = IF f = h.nextEdge THEN {n, w} ELSE h.edge[f]
        /\ SameCursors(h, d) /\ d.component = h.component /\ d.jumps = h.jumps
        /\ d.raised = h.raised
    BY <2>1 DEF EdgeMore
  <2>4. \A f \in Edges(m) : f # b.nextEdge /\ f # b.nextEdge + 1
    BY <1>1, <1>8
  <2>5. SameCursors(m, d)
    BY <2>2, <2>3 DEF SameCursors
  <2> QED  BY <1>1, <1>6, <2>2, <2>3, <2>4, <2>5 DEF Halves
<1>12. \E r \in Remapped(b.retrace, e, halves), p \in Remapped(b.pending, e, halves),
          y1 \in RemappedAnchor(b.joinEdge, b.joinVertex, e, halves, n),
          x1 \in RemappedAnchor(b.exitEdge, b.exitVertex, e, halves, n) :
         c = Redirected(d, r, p, y1, x1)
  <2>1. j = n
    BY <1>3, <1>6, <1>7, <1>11 DEF Newest
  <2>2. \E r \in Remapped(b.retrace, e, halves), p \in Remapped(b.pending, e, halves),
           y1 \in RemappedAnchor(b.joinEdge, b.joinVertex, e, halves, j),
           x1 \in RemappedAnchor(b.exitEdge, b.exitVertex, e, halves, j) :
          c = Redirected(k, r, p, y1, x1)
    BY DEF Split
  <2> QED  BY <1>7, <2>1, <2>2
<1>13. PICK r \in Remapped(b.retrace, e, halves), p \in Remapped(b.pending, e, halves),
          y1 \in RemappedAnchor(b.joinEdge, b.joinVertex, e, halves, n),
          x1 \in RemappedAnchor(b.exitEdge, b.exitVertex, e, halves, n) :
         c = Redirected(d, r, p, y1, x1)
  BY <1>12
<1>14. y1 = <<y1[1], y1[2]>> /\ x1 = <<x1[1], x1[2]>>
  BY DEF RemappedAnchor
<1>15. /\ DOMAIN c = Fields /\ SameGraph(d, c) /\ c.raised = d.raised
       /\ c.state = d.state /\ c.kind = d.kind /\ c.current = d.current
       /\ c.source = d.source /\ c.retrace = r /\ c.pending = p
       /\ c.joinEdge = y1[1] /\ c.joinVertex = y1[2]
       /\ c.exitEdge = x1[1] /\ c.exitVertex = x1[2]
  BY <1>11, <1>13 DEF Fields, SameGraph, Redirected
<1>16. /\ c.component = Append(b.component, b.jumps) /\ c.jumps = b.jumps
       /\ c.nextEdge = b.nextEdge + 2 /\ c.raised = b.raised
       /\ Edges(c) = (Edges(b) \ {e}) \cup halves
       /\ \A f \in Edges(b) \ {e} : c.edge[f] = b.edge[f]
       /\ c.edge[b.nextEdge] = {u, n} /\ c.edge[b.nextEdge + 1] = {n, w}
  BY <1>6, <1>8, <1>11, <1>15 DEF SameGraph, Edges
<1>17. /\ c.state = b.state /\ c.kind = b.kind /\ c.current = b.current
       /\ c.source = b.source
  BY <1>5, <1>6, <1>11, <1>15 DEF SameCursors
<1>18. u # w /\ b.edge[e] = {u, w}
  BY <1>2, <1>10
<1>19. /\ <<c.joinEdge, c.joinVertex>> = y1 /\ <<c.exitEdge, c.exitVertex>> = x1
       /\ c.retrace = r /\ c.pending = p /\ DOMAIN c = Fields
  BY <1>14, <1>15
<1>20. \E u1, w1 : /\ u1 # w1 /\ b.edge[e] = {u1, w1}
                   /\ c.edge[b.nextEdge] = {u1, n} /\ c.edge[b.nextEdge + 1] = {n, w1}
  BY <1>16, <1>18
<1> QED
  BY <1>13, <1>16, <1>17, <1>19, <1>20, Zenon DEF SplitMore, n

\* A split keeps every part of the invariant, and what the state goes on from.
LEMMA SplitSound ==
  ASSUME NEW b, Sound(b), NEW e \in Edges(b), NEW c \in Split(b, e)
  PROVE  /\ Sound(c) /\ c.state = b.state /\ c.kind = b.kind /\ c.source = b.source
         /\ Nodes(b) \subseteq Nodes(c) /\ Newest(c) \in Nodes(c)
         /\ Newest(c) \notin Nodes(b) /\ Newest(c) # 0
<1> DEFINE n == Len(b.component) + 1
           halves == Halves(b)
<1>1. SplitMore(b, c, e, n)
  BY SplitBuilt
<1>2. /\ n \in Nat /\ n > 1 /\ n \notin Nodes(b) /\ Nodes(c) = Nodes(b) \cup {n}
      /\ Newest(c) = n /\ c.component \in Seq(Nat) /\ Len(c.component) > 0
      /\ c.component = Append(b.component, b.jumps)
  <2>1. c.component = Append(b.component, b.jumps) /\ b.jumps \in Nat
    BY <1>1 DEF SplitMore, Sound, Shape
  <2>2. /\ n \in Nat /\ n > 1 /\ n \notin Nodes(b)
        /\ Append(b.component, b.jumps) \in Seq(Nat)
        /\ Len(Append(b.component, b.jumps)) = n
        /\ DOMAIN Append(b.component, b.jumps) = Nodes(b) \cup {n}
    BY <2>1, OneVertexMore DEF Sound
  <2> HIDE DEF n
  <2> QED  BY <2>1, <2>2 DEF Nodes, Newest
<1> HIDE DEF n
<1>3. /\ b.nextEdge \in Nat \ {0} /\ halves = {b.nextEdge, b.nextEdge + 1}
      /\ \A f \in Edges(b) : f \in Nat /\ 0 < f /\ f < b.nextEdge
  BY DEF Sound, Shape, Simple, Halves
<1>4. PICK u, w : /\ u # w /\ b.edge[e] = {u, w}
                  /\ c.edge[b.nextEdge] = {u, n} /\ c.edge[b.nextEdge + 1] = {n, w}
  BY <1>1 DEF SplitMore
<1>5. u \in Nodes(b) /\ w \in Nodes(b) /\ u # n /\ w # n
  BY <1>2, <1>4, EdgesAreOld DEF Sound
<1>6. /\ Edges(c) = (Edges(b) \ {e}) \cup halves /\ c.nextEdge = b.nextEdge + 2
      /\ \A f \in Edges(b) \ {e} : c.edge[f] = b.edge[f]
      /\ c.jumps = b.jumps /\ c.raised = b.raised /\ DOMAIN c = Fields
      /\ c.state = b.state /\ c.kind = b.kind
      /\ c.current = b.current /\ c.source = b.source
  BY <1>1 DEF SplitMore
<1>7. Shape(c)
  BY <1>2, <1>3, <1>6 DEF Sound, Shape
<1>8. \A f \in Edges(b) \ {e} : f \in Edges(c) /\ n \notin c.edge[f] /\ c.edge[f] = b.edge[f]
  BY <1>2, <1>6, EdgesAreOld DEF Sound
<1>9. b.nextEdge \in Edges(c) /\ b.nextEdge + 1 \in Edges(c) /\ b.nextEdge # b.nextEdge + 1
  BY <1>3, <1>6
<1>10. Simple(c)
  <2>1. \A f \in Edges(c) : f \in Nat /\ 0 < f /\ f < c.nextEdge
    BY <1>3, <1>6
  <2>2. ASSUME NEW f \in Edges(c)
        PROVE  \E x, y \in Nodes(c) : x # y /\ c.edge[f] = {x, y}
    <3>1. CASE f \in halves
      <4>1. {u, w, n} \subseteq Nodes(c) /\ f \in {b.nextEdge, b.nextEdge + 1}
        BY <1>2, <1>3, <1>5, <3>1
      <4>2. CASE f = b.nextEdge
        BY <1>4, <1>5, <4>1, <4>2
      <4>3. CASE f = b.nextEdge + 1
        BY <1>4, <1>5, <4>1, <4>3
      <4> QED  BY <4>1, <4>2, <4>3
    <3>2. CASE f \in Edges(b) \ {e}
      BY <1>2, <1>8, <3>2 DEF Sound, Simple
    <3> QED  BY <1>6, <3>1, <3>2
  <2>3. ASSUME NEW f \in Edges(c), NEW g \in Edges(c), c.edge[f] = c.edge[g]
        PROVE  f = g
    <3>1. CASE f \in halves /\ g \in halves
      BY <1>3, <1>4, <1>5, <2>3, <3>1
    <3>2. CASE f \in Edges(b) \ {e} /\ g \in Edges(b) \ {e}
      BY <1>8, <2>3, <3>2 DEF Sound, Simple
    <3>3. ASSUME NEW x \in halves, NEW y \in Edges(b) \ {e} PROVE c.edge[x] # c.edge[y]
      <4>1. n \in c.edge[x]
        BY <1>3, <1>4
      <4> QED  BY <1>8, <4>1
    <3> QED  BY <1>6, <2>3, <3>1, <3>2, <3>3
  <2> QED  BY <2>1, <2>2, <2>3 DEF Simple
<1>11. Rooted(c)
  <2>1. ASSUME NEW piece \in SUBSET Nodes(c), piece # {}, Closed(c, piece)
        PROVE  \E rest \in SUBSET Nodes(b) :
                 rest # {} /\ rest \subseteq piece /\ Closed(b, rest)
    <3>1. /\ {u, n} \subseteq piece \/ {u, n} \cap piece = {}
          /\ {n, w} \subseteq piece \/ {n, w} \cap piece = {}
      BY <1>4, <1>9, <2>1 DEF Closed
    <3>2. piece \ {n} \in SUBSET Nodes(b) /\ piece \ {n} # {}
      BY <1>2, <1>5, <2>1, <3>1
    <3>3. Closed(b, piece \ {n})
      <4> SUFFICES ASSUME NEW f \in Edges(b)
                   PROVE  b.edge[f] \subseteq piece \ {n} \/ b.edge[f] \cap (piece \ {n}) = {}
        BY DEF Closed
      <4>1. CASE f = e
        BY <1>4, <1>5, <3>1, <4>1
      <4>2. CASE f # e
        BY <1>8, <2>1, <4>2 DEF Closed
      <4> QED  BY <4>1, <4>2
    <3> QED  BY <3>2, <3>3
  <2>2. Shape(b) /\ Rooted(b) /\ b.jumps \in Nat /\ c.jumps \in Nat /\ b.jumps <= c.jumps
    BY <1>6 DEF Sound, Shape
  <2> QED  BY <1>2, <2>1, <2>2, RootedGrows
<1>12. /\ c.retrace \in Remapped(b.retrace, e, halves)
       /\ c.pending \in Remapped(b.pending, e, halves)
       /\ <<c.joinEdge, c.joinVertex>> \in
            RemappedAnchor(b.joinEdge, b.joinVertex, e, halves, n)
       /\ <<c.exitEdge, c.exitVertex>> \in
            RemappedAnchor(b.exitEdge, b.exitVertex, e, halves, n)
  BY <1>1 DEF SplitMore
<1>13. ASSUME NEW r, NEW s \in Edges(b) \cup {0}, r \in Remapped(s, e, halves)
       PROVE  r \in Edges(c) \cup {0} /\ (s # 0 => r # 0)
  BY <1>3, <1>6, <1>13 DEF Remapped
<1>14. ASSUME NEW r, NEW v, NEW s \in Edges(b) \cup {0}, NEW x \in Nodes(b) \cup {0},
              <<r, v>> \in RemappedAnchor(s, x, e, halves, n)
       PROVE  /\ r \in Edges(c) \cup {0} /\ v \in Nodes(c) \cup {0}
              /\ (s # 0 \/ x # 0) => (r # 0 \/ v # 0)
              /\ v = x \/ v = n
              /\ r # 0 => (s # 0 /\ ((r = s /\ s # e) \/ (s = e /\ r \in halves)))
  <2>1. CASE s = e /\ r = 0 /\ v = n
    BY <1>2, <1>3, <2>1
  <2>2. CASE s = e /\ r \in halves /\ v = x
    BY <1>2, <1>3, <1>6, <2>2
  <2>3. CASE s # e /\ r = s /\ v = x
    <3>1. r \in Edges(c) \cup {0} /\ v \in Nodes(c) \cup {0}
      BY <1>2, <1>6, <1>14, <2>3
    <3> QED  BY <2>3, <3>1
  <2> QED  BY <1>14, <2>1, <2>2, <2>3 DEF RemappedAnchor
<1>15. /\ b.current \in Nodes(b) \cup {0} /\ b.source \in Nodes(b) \cup {0}
       /\ b.joinVertex \in Nodes(b) \cup {0} /\ b.exitVertex \in Nodes(b) \cup {0}
       /\ b.retrace \in Edges(b) \cup {0} /\ b.pending \in Edges(b) \cup {0}
       /\ b.joinEdge \in Edges(b) \cup {0} /\ b.exitEdge \in Edges(b) \cup {0}
  BY DEF Sound, Referring, RefersTo
<1>16. /\ c.retrace \in Edges(c) \cup {0} /\ (b.retrace # 0 => c.retrace # 0)
       /\ c.pending \in Edges(c) \cup {0} /\ (b.pending # 0 => c.pending # 0)
  BY <1>12, <1>13, <1>15
<1>17. /\ c.joinEdge \in Edges(c) \cup {0} /\ c.joinVertex \in Nodes(c) \cup {0}
       /\ (b.joinEdge # 0 \/ b.joinVertex # 0) => (c.joinEdge # 0 \/ c.joinVertex # 0)
       /\ c.joinVertex = b.joinVertex \/ c.joinVertex = n
       /\ c.joinEdge # 0 =>
            /\ b.joinEdge # 0
            /\ \/ c.joinEdge = b.joinEdge /\ b.joinEdge # e
               \/ b.joinEdge = e /\ c.joinEdge \in halves
  BY <1>12, <1>14, <1>15
<1>18. /\ c.exitEdge \in Edges(c) \cup {0} /\ c.exitVertex \in Nodes(c) \cup {0}
       /\ (b.exitEdge # 0 \/ b.exitVertex # 0) => (c.exitEdge # 0 \/ c.exitVertex # 0)
  BY <1>12, <1>14, <1>15
<1>19. Referring(c)
  BY <1>2, <1>6, <1>15, <1>16, <1>17, <1>18 DEF Referring, RefersTo
<1>20. ASSUME c.state = "RETRACE_PENDING", c.kind = "loop"
       PROVE  /\ c.joinEdge # 0 \/ c.joinVertex # 0
              /\ c.joinVertex # c.source
              /\ c.joinEdge # 0 => c.source \notin c.edge[c.joinEdge]
  <2>1. /\ b.joinEdge # 0 \/ b.joinVertex # 0
        /\ b.joinVertex # b.source /\ b.source # 0
        /\ b.joinEdge # 0 => b.source \notin b.edge[b.joinEdge]
    BY <1>6, <1>20 DEF Sound, Stated
  <2>2. c.source \in Nodes(b) /\ c.source # n
    BY <1>2, <1>6, <1>15, <2>1
  <2>3. ASSUME c.joinEdge # 0 PROVE c.source \notin c.edge[c.joinEdge]
    <3>1. CASE c.joinEdge = b.joinEdge /\ b.joinEdge # e
      BY <1>6, <1>8, <1>15, <2>1, <2>3, <3>1
    <3>2. CASE b.joinEdge = e /\ c.joinEdge \in halves
      BY <1>3, <1>4, <1>6, <2>1, <2>2, <2>3, <3>2, <1>17
    <3> QED  BY <1>17, <2>3, <3>1, <3>2
  <2> QED  BY <1>6, <1>17, <2>1, <2>2, <2>3
<1>21. Stated(c)
  BY <1>6, <1>16, <1>18, <1>20 DEF Sound, Stated
<1>22. Newest(c) \in Nodes(c) /\ Newest(c) \notin Nodes(b) /\ Newest(c) # 0
       /\ Nodes(b) \subseteq Nodes(c)
  BY <1>2
<1> QED  BY <1>6, <1>7, <1>10, <1>11, <1>19, <1>21, <1>22 DEF Sound

-----------------------------------------------------------------------------
(* Moves of the cursors *)

LEMMA CursorsMoved ==
  ASSUME NEW b, NEW c, Sound(b), DOMAIN c = Fields, SameGraph(b, c), c.raised = FALSE,
         c.kind \in {"retrace", "loop"},
         c.state \in {"DISCOVERING", "RETRACE_PENDING", "RETRACING", "EXIT_PENDING"},
         RefersTo(c, Nodes(b), Edges(b)),
         Stated(c)
  PROVE  Sound(c)
<1>1. Simple(c) /\ Rooted(c) /\ Nodes(c) = Nodes(b) /\ Edges(c) = Edges(b)
  BY GraphKept DEF Sound
<1>2. Shape(c)
  BY DEF Sound, Shape, SameGraph
<1> QED  BY <1>1, <1>2 DEF Sound, Referring, RefersTo

\* What a sound builder has.
LEMMA SoundFields ==
  ASSUME NEW b, Sound(b)
  PROVE  /\ DOMAIN b = Fields /\ b.raised = FALSE
         /\ b.kind \in {"retrace", "loop"}
         /\ b.state \in {"DISCOVERING", "RETRACE_PENDING", "RETRACING", "EXIT_PENDING"}
         /\ RefersTo(b, Nodes(b), Edges(b))
         /\ 0 \notin Nodes(b) /\ 0 \notin Edges(b)
         /\ \A e \in Edges(b) : b.edge[e] \subseteq Nodes(b)
         /\ Stated(b)
<1>1. 0 \notin Nodes(b)
  <2>1. DOMAIN b.component = 1 .. Len(b.component) /\ Len(b.component) \in Nat
    BY LenProperties DEF Sound, Shape
  <2> QED  BY <2>1 DEF Nodes
<1>2. 0 \notin Edges(b) /\ \A e \in Edges(b) : b.edge[e] \subseteq Nodes(b)
  BY EdgesAreOld DEF Sound, Simple
<1> QED  BY <1>1, <1>2 DEF Sound, Shape, Referring

LEMMA LeftoverSound ==
  ASSUME NEW b, Sound(b), NEW l
  PROVE  LET c == [b EXCEPT !.leftover = l]
         IN  Sound(c) /\ c.state = b.state /\ SameGraph(b, c)
<1> DEFINE c == [b EXCEPT !.leftover = l]
<1>1. DOMAIN c = Fields /\ SameGraph(b, c) /\ SameCursors(b, c) /\ c.raised = b.raised
  BY SoundFields DEF Fields, SameGraph, SameCursors
<1> HIDE DEF c
<1>2. Stated(c)
  BY <1>1, SoundFields, ZenonT(30) DEF Stated, SameCursors, SameGraph
<1>3. c.kind \in {"retrace", "loop"} /\ c.raised = FALSE
      /\ c.state \in {"DISCOVERING", "RETRACE_PENDING", "RETRACING", "EXIT_PENDING"}
      /\ RefersTo(c, Nodes(b), Edges(b))
  <2>1. /\ c.current = b.current /\ c.source = b.source
        /\ c.joinVertex = b.joinVertex /\ c.exitVertex = b.exitVertex
        /\ c.retrace = b.retrace /\ c.pending = b.pending
        /\ c.joinEdge = b.joinEdge /\ c.exitEdge = b.exitEdge
        /\ c.state = b.state /\ c.kind = b.kind /\ c.raised = b.raised
    BY <1>1 DEF SameCursors
  <2> QED  BY <2>1, SoundFields DEF RefersTo
<1>4. Sound(c)
  BY <1>1, <1>2, <1>3, CursorsMoved
<1> QED  BY <1>1, <1>4 DEF SameCursors, c

\* A sound builder that discovers, as every handler of new ground leaves it.
Discovers(b) == Sound(b) /\ b.state = "DISCOVERING"

LEMMA DiscoveredSound ==
  ASSUME NEW b, Discovers(b), NEW c \in Discovered(b)
  PROVE  Discovers(c)
<1>1. Discovers(Extended(b))
  BY ExtendedSound DEF Discovers
<1>2. Discovers(Extended(Extended(b)))
  BY <1>1, ExtendedSound DEF Discovers
<1>3. PICK d \in {b, Extended(b), Extended(Extended(b))} :
        \E l : c = [d EXCEPT !.leftover = l]
  BY DEF Discovered
<1>4. Discovers(d)
  BY <1>1, <1>2
<1> QED  BY <1>3, <1>4, LeftoverSound DEF Discovers

LEMMA CommittedSound ==
  ASSUME NEW b, Discovers(b), NEW c \in Committed(b)
  PROVE  Discovers(c)
<1>1. Discovers(Extended(b))
  BY ExtendedSound DEF Discovers
<1>2. PICK d \in {b, Extended(b)} : c = [d EXCEPT !.leftover = FALSE]
  BY DEF Committed
<1>3. Discovers(d)
  BY <1>1
<1> QED  BY <1>2, <1>3, LeftoverSound DEF Discovers

LEMMA AfterReversalSound ==
  ASSUME NEW b, Discovers(b), NEW c \in AfterReversal(b)
  PROVE  Discovers(c)
BY CommittedSound DEF AfterReversal

\* _cancel_retrace_pending goes on from where the retrace was pending from.
LEMMA CancelledSound ==
  ASSUME NEW b, Sound(b), b.state = "RETRACE_PENDING", NEW c \in Cancelled(b)
  PROVE  Discovers(c)
<1> DEFINE m == Cleared(b)
           d == [m EXCEPT !.state = "DISCOVERING",
                          !.current = IF b.source \in Nodes(b) THEN b.source ELSE @]
<1>1. DOMAIN b = Fields
  BY SoundFields
<1>2. /\ DOMAIN m = Fields /\ SameGraph(b, m) /\ m.raised = b.raised
      /\ m.pending = 0 /\ m.kind = "retrace" /\ m.source = 0
      /\ m.joinEdge = 0 /\ m.joinVertex = 0 /\ m.current = b.current
      /\ m.retrace = b.retrace /\ m.exitEdge = b.exitEdge /\ m.exitVertex = b.exitVertex
  BY <1>1 DEF Cleared, Fields, SameGraph
<1>3. b.source \in Nodes(b) /\ b.source # 0
  BY SoundFields DEF Stated, RefersTo
<1>4. c \in Discovered(d)
  BY DEF Cancelled
<1> HIDE DEF m
<1>5. /\ DOMAIN d = Fields /\ SameGraph(b, d) /\ d.raised = b.raised
      /\ d.pending = 0 /\ d.kind = "retrace" /\ d.source = 0
      /\ d.joinEdge = 0 /\ d.joinVertex = 0 /\ d.current = b.source
      /\ d.retrace = b.retrace /\ d.exitEdge = b.exitEdge /\ d.exitVertex = b.exitVertex
      /\ d.state = "DISCOVERING"
  BY <1>2, <1>3 DEF Fields, SameGraph
<1> HIDE DEF d
<1>6. Stated(d)
  BY <1>3, <1>5 DEF Stated
<1>7. Sound(d)
  <2>1. /\ RefersTo(d, Nodes(b), Edges(b))
        /\ d.raised = FALSE
    BY <1>3, <1>5, SoundFields DEF RefersTo
  <2> QED  BY <1>5, <1>6, <2>1, CursorsMoved
<1> QED  BY <1>4, <1>5, <1>7, DiscoveredSound DEF Discovers

\* _start_retrace_pending, _start_loop_pending: not along an edge at the source.
LEMMA PendingSound ==
  ASSUME NEW b, Discovers(b), NEW how, NEW e \in Edges(b),
         \/ how = "retrace"
         \/ how = "loop" /\ e \notin Incident(b, b.current)
  PROVE  Sound(Pending(b, how, e))
<1> DEFINE c == Pending(b, how, e)
<1>1. /\ Sound(b) /\ b.state = "DISCOVERING" /\ DOMAIN b = Fields /\ b.raised = FALSE
      /\ RefersTo(b, Nodes(b), Edges(b)) /\ 0 \notin Edges(b) /\ b.current # 0
  BY SoundFields DEF Discovers, Stated
<1>2. /\ DOMAIN c = Fields /\ SameGraph(b, c) /\ c.raised = b.raised
      /\ c.state = "RETRACE_PENDING" /\ c.kind = how /\ c.pending = e
      /\ c.source = b.current /\ c.joinVertex = 0
      /\ c.joinEdge = IF how = "loop" THEN e ELSE 0
      /\ c.current = b.current /\ c.retrace = b.retrace
      /\ c.exitEdge = b.exitEdge /\ c.exitVertex = b.exitVertex
  BY <1>1 DEF Pending, Fields, SameGraph
<1> HIDE DEF c
<1>3. RefersTo(c, Nodes(b), Edges(b)) /\ c.raised = FALSE
  BY <1>1, <1>2 DEF RefersTo
<1>4. how = "loop" => b.current \notin c.edge[e]
  BY <1>2 DEF Incident, SameGraph
<1>5. Stated(c)
  BY <1>1, <1>2, <1>4 DEF Stated
<1>6. Sound(c)
  BY <1>1, <1>2, <1>3, <1>5, CursorsMoved
<1> QED  BY <1>6 DEF c

\* Onto an edge that is there, at one of its ends or in its middle.
LEMMA OnEdgeSound ==
  ASSUME NEW b, Sound(b), NEW e \in Edges(b), NEW v \in Snapped(b, e), NEW c,
         DOMAIN c = Fields, SameGraph(b, c), c.raised = b.raised,
         c.kind \in {"retrace", "loop"},
         c.state = "RETRACING", c.retrace = e, c.current = v,
         c.source \in {0, b.source}, c.pending \in {0, b.pending},
         c.joinEdge \in {0, b.joinEdge}, c.joinVertex \in {0, b.joinVertex},
         c.exitEdge \in {0, b.exitEdge}, c.exitVertex \in {0, b.exitVertex}
  PROVE  Sound(c)
<1>1. /\ RefersTo(b, Nodes(b), Edges(b)) /\ 0 \notin Edges(b) /\ b.raised = FALSE
      /\ b.edge[e] \subseteq Nodes(b)
  BY SoundFields
<1>2. v \in Nodes(b) \cup {0}
  BY <1>1 DEF Snapped
<1>3. RefersTo(c, Nodes(b), Edges(b))
  BY <1>1, <1>2 DEF RefersTo
<1>4. Stated(c)
  BY <1>1 DEF Stated
<1> QED  BY <1>1, <1>3, <1>4, CursorsMoved

LEMMA RetracingSound ==
  ASSUME NEW b, Sound(b), b.pending \in Edges(b), NEW c \in Retracing(b)
  PROVE  Sound(c)
<1> DEFINE m == Cleared(b)
<1>1. DOMAIN b = Fields
  BY SoundFields
<1>2. PICK v \in Snapped(b, b.pending) :
        c = [m EXCEPT !.state = "RETRACING", !.retrace = b.pending, !.current = v]
  BY DEF Retracing
<1>3. /\ DOMAIN m = Fields /\ SameGraph(b, m) /\ m.raised = b.raised
      /\ m.pending = 0 /\ m.kind = "retrace" /\ m.source = 0
      /\ m.joinEdge = 0 /\ m.joinVertex = 0
      /\ m.exitEdge = b.exitEdge /\ m.exitVertex = b.exitVertex
  BY <1>1 DEF Cleared, Fields, SameGraph
<1> HIDE DEF m
<1>4. /\ DOMAIN c = Fields /\ SameGraph(b, c) /\ c.raised = b.raised
      /\ c.pending = 0 /\ c.kind = "retrace" /\ c.source = 0
      /\ c.joinEdge = 0 /\ c.joinVertex = 0
      /\ c.exitEdge = b.exitEdge /\ c.exitVertex = b.exitVertex
      /\ c.state = "RETRACING" /\ c.retrace = b.pending /\ c.current = v
  BY <1>2, <1>3 DEF Fields, SameGraph
<1> QED  BY <1>4, OnEdgeSound

\* _enter_retrace: a loop is closed between two vertices that are both there, and
\* are not the same.
LEMMA EnteredSound ==
  ASSUME NEW b, Sound(b), b.state = "RETRACE_PENDING", NEW c \in Entered(b)
  PROVE  Sound(c)
<1>1. /\ RefersTo(b, Nodes(b), Edges(b)) /\ 0 \notin Nodes(b) /\ 0 \notin Edges(b)
      /\ b.kind \in {"retrace", "loop"} /\ Stated(b)
      /\ \A e \in Edges(b) : b.edge[e] \subseteq Nodes(b)
  BY SoundFields
<1>2. b.pending \in Edges(b) /\ b.source \in Nodes(b) /\ b.source # 0
  BY <1>1 DEF RefersTo, Stated
<1>3. CASE b.kind = "retrace"
  BY <1>2, <1>3, RetracingSound DEF Entered
<1>4. CASE b.kind = "loop"
  <2>1. /\ b.joinEdge \in Edges(b) \/ b.joinVertex \in Nodes(b)
        /\ b.joinVertex # b.source
        /\ b.joinEdge # 0 => b.source \notin b.edge[b.joinEdge]
    BY <1>1, <1>4 DEF RefersTo, Stated
  <2>2. PICK j \in Joins(b) : c \in Retracing(AddEdge(j[1], b.source, j[2]))
    BY <1>2, <1>4, <2>1 DEF Entered
  <2>3. /\ Sound(j[1]) /\ j[1].source = b.source /\ j[1].state = b.state
        /\ b.source \in Nodes(j[1]) /\ j[2] \in Nodes(j[1]) /\ j[2] # b.source
    <3>1. CASE b.joinVertex \in Nodes(b)
      <4>1. j[1] = b /\ j[2] = b.joinVertex
        BY <3>1 DEF Joins
      <4> QED  BY <1>2, <2>1, <3>1, <4>1
    <3>2. CASE b.joinVertex \notin Nodes(b)
      <4>1. b.joinEdge \in Edges(b) /\ b.source \notin b.edge[b.joinEdge]
        BY <1>1, <2>1, <3>2
      <4>2. CASE \E v \in b.edge[b.joinEdge] : j = <<b, v>>
        BY <1>1, <1>2, <4>1, <4>2
      <4>3. CASE \E s \in Split(b, b.joinEdge) : j = <<s, Newest(s)>>
        <5>1. PICK s \in Split(b, b.joinEdge) : j = <<s, Newest(s)>>
          BY <4>3
        <5>2. /\ Sound(s) /\ s.state = b.state /\ s.source = b.source
              /\ Nodes(b) \subseteq Nodes(s) /\ Newest(s) \in Nodes(s)
              /\ Newest(s) \notin Nodes(b)
          BY <4>1, SplitSound
        <5> QED  BY <1>2, <5>1, <5>2
      <4> QED  BY <3>2, <4>2, <4>3 DEF Joins
    <3> QED  BY <3>1, <3>2
  <2> DEFINE d == AddEdge(j[1], b.source, j[2])
  <2>4. Sound(d) /\ SameCursors(j[1], d)
    BY <2>3, AddEdgeSound
  <2> HIDE DEF d
  <2>5. d.state = "RETRACE_PENDING"
    BY <2>3, <2>4 DEF SameCursors
  <2>6. d.pending \in Edges(d)
    BY <2>4, <2>5, SoundFields DEF RefersTo, Stated
  <2> QED  BY <2>2, <2>4, <2>6, RetracingSound DEF d
<1> QED  BY <1>1, <1>3, <1>4

\* _begin_exit: the anchor is on the edge retraced last.
LEMMA ExitBegunSound ==
  ASSUME NEW b, Sound(b), b.state = "RETRACING", NEW c \in ExitBegun(b)
  PROVE  Sound(c)
<1>1. /\ DOMAIN b = Fields /\ RefersTo(b, Nodes(b), Edges(b)) /\ 0 \notin Edges(b)
      /\ b.raised = FALSE /\ b.kind \in {"retrace", "loop"} /\ Stated(b)
      /\ \A e \in Edges(b) : b.edge[e] \subseteq Nodes(b)
  BY SoundFields
<1>2. b.retrace \in Edges(b)
  BY <1>1 DEF RefersTo, Stated
<1>3. PICK v \in Snapped(b, b.retrace) :
        c = [b EXCEPT !.state = "EXIT_PENDING", !.exitVertex = v,
                      !.exitEdge = IF v = 0 THEN b.retrace ELSE 0]
  BY <1>2 DEF ExitBegun
<1>4. v \in Nodes(b) \cup {0}
  BY <1>1, <1>2 DEF Snapped
<1>5. /\ DOMAIN c = Fields /\ SameGraph(b, c) /\ c.raised = b.raised /\ c.kind = b.kind
      /\ c.state = "EXIT_PENDING" /\ c.exitVertex = v
      /\ c.exitEdge = (IF v = 0 THEN b.retrace ELSE 0)
      /\ c.current = b.current /\ c.source = b.source /\ c.joinVertex = b.joinVertex
      /\ c.retrace = b.retrace /\ c.pending = b.pending /\ c.joinEdge = b.joinEdge
  BY <1>1, <1>3 DEF Fields, SameGraph
<1>6. RefersTo(c, Nodes(b), Edges(b))
  BY <1>1, <1>2, <1>4, <1>5 DEF RefersTo
<1>7. Stated(c)
  BY <1>1, <1>2, <1>5 DEF Stated
<1> QED  BY <1>1, <1>5, <1>6, <1>7, CursorsMoved

\* _confirm_exit: there is an anchor, and new ground begins at it.
LEMMA ExitConfirmedSound ==
  ASSUME NEW b, Sound(b), b.state = "EXIT_PENDING", NEW c \in ExitConfirmed(b)
  PROVE  Discovers(c)
<1>1. /\ RefersTo(b, Nodes(b), Edges(b)) /\ 0 \notin Nodes(b) /\ Stated(b)
  BY SoundFields
<1>2. b.exitVertex # 0 \/ b.exitEdge \in Edges(b)
  BY <1>1 DEF RefersTo, Stated
<1>3. \A a \in Anchors(b) : Sound(a[1]) /\ a[2] \in Nodes(a[1])
  <2>1. CASE b.exitVertex # 0
    BY <1>1, <2>1 DEF Anchors, RefersTo
  <2>2. CASE b.exitVertex = 0
    <3> SUFFICES ASSUME NEW a \in Anchors(b)
                 PROVE  Sound(a[1]) /\ a[2] \in Nodes(a[1])
      OBVIOUS
    <3>1. PICK s \in Split(b, b.exitEdge) : a = <<s, Newest(s)>>
      BY <1>2, <2>2 DEF Anchors
    <3> QED  BY <1>2, <2>2, <3>1, SplitSound
  <2> QED  BY <2>1, <2>2
<1>4. Anchors(b) # {}
  <2>1. CASE b.exitVertex # 0
    BY <2>1 DEF Anchors
  <2>2. CASE b.exitVertex = 0
    <3>1. Split(b, b.exitEdge) # {}
      <4> DEFINE h == Halves(b)
                 j == Newest(Halved(b, b.exitEdge))
      <4>1. PICK r : r \in Remapped(b.retrace, b.exitEdge, h)
        BY DEF Remapped, Halves
      <4>2. PICK p : p \in Remapped(b.pending, b.exitEdge, h)
        BY DEF Remapped, Halves
      <4>3. PICK y : y \in RemappedAnchor(b.joinEdge, b.joinVertex, b.exitEdge, h, j)
        BY DEF RemappedAnchor
      <4>4. PICK x : x \in RemappedAnchor(b.exitEdge, b.exitVertex, b.exitEdge, h, j)
        BY DEF RemappedAnchor
      <4>5. Redirected(Halved(b, b.exitEdge), r, p, y, x) \in Split(b, b.exitEdge)
        BY <4>1, <4>2, <4>3, <4>4 DEF Split
      <4> QED  BY <4>5
    <3> QED  BY <1>2, <2>2, <3>1 DEF Anchors
  <2> QED  BY <2>1, <2>2
<1>5. PICK a \in Anchors(b) :
        c \in Discovered([a[1] EXCEPT
                !.state = "DISCOVERING", !.current = a[2], !.retrace = 0,
                !.exitEdge = 0, !.exitVertex = 0, !.leftover = FALSE])
  BY <1>4 DEF ExitConfirmed
<1> DEFINE s == a[1]
           d == [s EXCEPT
                !.state = "DISCOVERING", !.current = a[2], !.retrace = 0,
                !.exitEdge = 0, !.exitVertex = 0, !.leftover = FALSE]
<1>6. Sound(s) /\ a[2] \in Nodes(s)
  BY <1>3
<1> HIDE DEF s
<1>7. /\ DOMAIN s = Fields /\ RefersTo(s, Nodes(s), Edges(s)) /\ s.raised = FALSE
      /\ s.kind \in {"retrace", "loop"} /\ 0 \notin Nodes(s)
  BY <1>6, SoundFields
<1>8. /\ DOMAIN d = Fields /\ SameGraph(s, d) /\ d.raised = s.raised /\ d.kind = s.kind
      /\ d.state = "DISCOVERING" /\ d.current = a[2] /\ d.retrace = 0
      /\ d.exitEdge = 0 /\ d.exitVertex = 0
      /\ d.source = s.source /\ d.joinVertex = s.joinVertex
      /\ d.pending = s.pending /\ d.joinEdge = s.joinEdge
  BY <1>7 DEF Fields, SameGraph
<1>9. c \in Discovered(d)
  BY <1>5 DEF s
<1> HIDE DEF d
<1>10. RefersTo(d, Nodes(s), Edges(s)) /\ Stated(d)
  BY <1>6, <1>7, <1>8 DEF RefersTo, Stated
<1>11. Discovers(d)
  BY <1>6, <1>7, <1>8, <1>10, CursorsMoved DEF Discovers
<1> QED  BY <1>9, <1>11, DiscoveredSound

\* _handle_relocation: a new root.
LEMMA JumpedSound ==
  ASSUME NEW b, Sound(b)
  PROVE  Sound(Jumped(b))
<1> DEFINE l == [Cleared(b) EXCEPT !.jumps = @ + 1]
           m == AddVertex(l)
           c == Jumped(b)
           n == Len(b.component) + 1
<1>1. /\ DOMAIN b = Fields /\ RefersTo(b, Nodes(b), Edges(b)) /\ b.raised = FALSE
      /\ 0 \notin Nodes(b)
  BY SoundFields
<1>2. /\ b.jumps \in Nat /\ b.jumps + 1 \in Nat
  BY DEF Sound, Shape
<1>3. /\ n \in Nat /\ n > 1 /\ n \notin Nodes(b)
      /\ Append(b.component, b.jumps + 1) \in Seq(Nat)
      /\ Len(Append(b.component, b.jumps + 1)) = n
      /\ DOMAIN Append(b.component, b.jumps + 1) = Nodes(b) \cup {n}
  BY <1>2, OneVertexMore DEF Sound
<1> HIDE DEF n
<1>4. /\ DOMAIN l = Fields /\ l.component = b.component /\ l.edge = b.edge
      /\ l.nextEdge = b.nextEdge /\ l.jumps = b.jumps + 1 /\ l.raised = b.raised
      /\ l.pending = 0 /\ l.kind = "retrace" /\ l.source = 0
      /\ l.joinEdge = 0 /\ l.joinVertex = 0
  <2> DEFINE k == Cleared(b)
  <2>1. /\ DOMAIN k = Fields /\ k.component = b.component /\ k.edge = b.edge
        /\ k.nextEdge = b.nextEdge /\ k.jumps = b.jumps /\ k.raised = b.raised
        /\ k.pending = 0 /\ k.kind = "retrace" /\ k.source = 0
        /\ k.joinEdge = 0 /\ k.joinVertex = 0
    BY <1>1 DEF Cleared, Fields
  <2> HIDE DEF k
  <2>2. l = [k EXCEPT !.jumps = @ + 1]
    BY DEF k
  <2> HIDE DEF l
  <2> QED  BY <2>1, <2>2 DEF Fields
<1>5. c = [m EXCEPT !.state = "DISCOVERING", !.current = Newest(m), !.retrace = 0,
                !.exitEdge = 0, !.exitVertex = 0, !.leftover = FALSE]
  BY DEF Jumped
<1> HIDE DEF l, c
<1>6. /\ DOMAIN m = Fields /\ m.component = Append(b.component, b.jumps + 1)
      /\ m.edge = b.edge /\ m.nextEdge = b.nextEdge /\ m.jumps = b.jumps + 1
      /\ m.raised = b.raised /\ SameCursors(l, m)
  BY <1>4, VertexAdded
<1>7. Newest(m) = n
  BY <1>3, <1>6 DEF Newest
<1> HIDE DEF m
<1>8. /\ DOMAIN c = Fields /\ SameGraph(m, c) /\ c.raised = m.raised
      /\ c.kind = m.kind /\ c.state = "DISCOVERING" /\ c.current = n /\ c.retrace = 0
      /\ c.exitEdge = 0 /\ c.exitVertex = 0 /\ c.source = m.source
      /\ c.joinVertex = m.joinVertex /\ c.pending = m.pending /\ c.joinEdge = m.joinEdge
  BY <1>5, <1>6, <1>7 DEF Fields, SameGraph
<1>9. /\ c.component = Append(b.component, b.jumps + 1) /\ c.edge = b.edge
      /\ c.nextEdge = b.nextEdge /\ c.jumps = b.jumps + 1
  BY <1>6, <1>8 DEF SameGraph
<1>10. Nodes(c) = Nodes(b) \cup {n} /\ Edges(c) = Edges(b)
  BY <1>3, <1>9 DEF Nodes, Edges
<1>11. /\ c.kind = "retrace" /\ c.source = 0 /\ c.pending = 0
       /\ c.joinEdge = 0 /\ c.joinVertex = 0 /\ c.raised = FALSE
  BY <1>1, <1>4, <1>6, <1>8 DEF SameCursors
<1>12. Shape(c)
  <2>1. c.component \in Seq(Nat) /\ Len(c.component) > 0 /\ c.jumps \in Nat
    BY <1>2, <1>3, <1>9
  <2> QED  BY <1>8, <1>9, <1>11, <2>1 DEF Sound, Shape
<1>13. Simple(c)
  BY <1>9, <1>10 DEF Sound, Simple
<1>14. Rooted(c)
  <2>1. ASSUME NEW piece \in SUBSET Nodes(c), piece # {}, Closed(c, piece)
        PROVE  \/ n \in piece /\ b.jumps + 1 > b.jumps
               \/ \E rest \in SUBSET Nodes(b) :
                    rest # {} /\ rest \subseteq piece /\ Closed(b, rest)
    <3>1. Closed(b, piece)
      BY <1>9, <1>10, <2>1 DEF Closed
    <3> QED  BY <1>2, <1>10, <2>1, <3>1
  <2>2. Shape(b) /\ Rooted(b) /\ c.jumps \in Nat /\ b.jumps <= c.jumps
        /\ b.jumps + 1 <= c.jumps
    BY <1>2, <1>9 DEF Sound
  <2> QED  BY <1>2, <1>9, <2>1, <2>2, RootedGrows DEF n
<1>15. Referring(c) /\ Stated(c)
  BY <1>3, <1>8, <1>10, <1>11 DEF Referring, RefersTo, Stated
<1> QED  BY <1>12, <1>13, <1>14, <1>15 DEF Sound, c

-----------------------------------------------------------------------------
(* The handlers of add_pose *)

LEMMA DiscoveringSound ==
  ASSUME NEW b, Discovers(b), NEW c \in Discovering(b)
  PROVE  Sound(c)
<1>1. PICK r \in AfterReversal(b) :
        c \in Discovered(r)
                \cup {Pending(r, "retrace", e) : e \in Incident(r, r.current)}
                \cup {Pending(r, "loop", e) : e \in LoopEdges(r)}
  BY DEF Discovering
<1>2. Discovers(r)
  BY AfterReversalSound
<1>3. CASE c \in Discovered(r)
  BY <1>2, <1>3, DiscoveredSound DEF Discovers
<1>4. CASE \E e \in Incident(r, r.current) : c = Pending(r, "retrace", e)
  BY <1>2, <1>4, PendingSound DEF Incident
<1>5. CASE \E e \in LoopEdges(r) : c = Pending(r, "loop", e)
  BY <1>2, <1>5, PendingSound DEF LoopEdges
<1> QED  BY <1>1, <1>3, <1>4, <1>5

\* A retrace that goes on along the next edge stays pending.
LEMMA BeyondSound ==
  ASSUME NEW b, Sound(b), b.state = "RETRACE_PENDING", NEW v \in Nodes(b),
         NEW e \in Edges(b)
  PROVE  LET c == [b EXCEPT !.pending = e, !.current = IF b.kind = "retrace" THEN v ELSE @]
         IN  Sound(c) /\ c.state = "RETRACE_PENDING"
<1> DEFINE c == [b EXCEPT !.pending = e, !.current = IF b.kind = "retrace" THEN v ELSE @]
<1>1. /\ DOMAIN b = Fields /\ RefersTo(b, Nodes(b), Edges(b)) /\ 0 \notin Edges(b)
      /\ b.raised = FALSE /\ b.kind \in {"retrace", "loop"} /\ Stated(b)
  BY SoundFields
<1>2. /\ DOMAIN c = Fields /\ SameGraph(b, c) /\ c.raised = b.raised /\ c.kind = b.kind
      /\ c.state = b.state /\ c.exitVertex = b.exitVertex /\ c.exitEdge = b.exitEdge
      /\ c.current = (IF b.kind = "retrace" THEN v ELSE b.current)
      /\ c.source = b.source /\ c.joinVertex = b.joinVertex
      /\ c.retrace = b.retrace /\ c.pending = e /\ c.joinEdge = b.joinEdge
  BY <1>1 DEF Fields, SameGraph
<1> HIDE DEF c
<1>3. RefersTo(c, Nodes(b), Edges(b))
  BY <1>1, <1>2 DEF RefersTo
<1>4. Stated(c)
  BY <1>1, <1>2 DEF Stated, SameGraph
<1>5. Sound(c)
  BY <1>1, <1>2, <1>3, <1>4, CursorsMoved
<1> QED  BY <1>2, <1>5 DEF c

LEMMA RetracePendingSound ==
  ASSUME NEW b, Sound(b), b.state = "RETRACE_PENDING", NEW c \in RetracePending(b)
  PROVE  Sound(c)
<1> DEFINE beyond(v) ==
             {[b EXCEPT !.pending = e, !.current = IF b.kind = "retrace" THEN v ELSE @] :
                e \in Incident(b, v) \ {b.pending}}
           valid == {b} \cup UNION {beyond(v) : v \in b.edge[b.pending]}
<1>1. b.pending \in Edges(b) /\ \A e \in Edges(b) : b.edge[e] \subseteq Nodes(b)
  BY SoundFields DEF RefersTo, Stated
<1>2. ASSUME NEW d \in valid
      PROVE  Sound(d) /\ d.state = "RETRACE_PENDING"
  <2>1. CASE d = b
    BY <2>1
  <2>2. ASSUME NEW v \in b.edge[b.pending], d \in beyond(v)
        PROVE  Sound(d) /\ d.state = "RETRACE_PENDING"
    <3>1. PICK e \in Incident(b, v) \ {b.pending} :
            d = [b EXCEPT !.pending = e, !.current = IF b.kind = "retrace" THEN v ELSE @]
      BY <2>2
    <3>2. v \in Nodes(b) /\ e \in Edges(b)
      BY <1>1 DEF Incident
    <3> QED  BY <3>1, <3>2, BeyondSound
  <2> QED  BY <1>2, <2>1, <2>2
<1>3. c \in Cancelled(b) \/ c \in valid \/ \E d \in valid : c \in Entered(d)
  BY <1>1 DEF RetracePending
<1> HIDE DEF valid
<1>4. CASE c \in Cancelled(b)
  BY <1>4, CancelledSound DEF Discovers
<1>5. CASE \E d \in valid : c \in Entered(d)
  BY <1>2, <1>5, EnteredSound
<1> QED  BY <1>2, <1>3, <1>4, <1>5

\* Along an edge, from wherever on it.
LEMMA CurrentSound ==
  ASSUME NEW b, Sound(b), b.state = "RETRACING", NEW v \in Nodes(b)
  PROVE  LET c == [b EXCEPT !.current = v]
         IN  Sound(c) /\ c.state = "RETRACING"
<1> DEFINE c == [b EXCEPT !.current = v]
<1>1. /\ DOMAIN b = Fields /\ RefersTo(b, Nodes(b), Edges(b)) /\ b.raised = FALSE
      /\ b.kind \in {"retrace", "loop"} /\ Stated(b)
  BY SoundFields
<1>2. /\ DOMAIN c = Fields /\ SameGraph(b, c) /\ c.raised = b.raised /\ c.kind = b.kind
      /\ c.state = b.state /\ c.exitVertex = b.exitVertex /\ c.exitEdge = b.exitEdge
      /\ c.current = v /\ c.source = b.source /\ c.joinVertex = b.joinVertex
      /\ c.retrace = b.retrace /\ c.pending = b.pending /\ c.joinEdge = b.joinEdge
  BY <1>1 DEF Fields, SameGraph
<1> HIDE DEF c
<1>3. RefersTo(c, Nodes(b), Edges(b)) /\ Stated(c)
  BY <1>1, <1>2 DEF RefersTo, Stated
<1>4. Sound(c)
  BY <1>1, <1>2, <1>3, CursorsMoved
<1> QED  BY <1>2, <1>4 DEF c

LEMMA HandleRetracingSound ==
  ASSUME NEW b, Sound(b), b.state = "RETRACING", NEW c \in HandleRetracing(b)
  PROVE  Sound(c)
<1> DEFINE past == {b} \cup
             {d \in {[b EXCEPT !.current = v] : v \in Nodes(b)} :
                b.retrace \in Edges(b) /\ d.current \in b.edge[b.retrace]}
           on == (Edges(b) \cap {b.retrace})
                   \cup UNION {Incident(b, d.current) : d \in past}
<1>1. /\ DOMAIN b = Fields /\ RefersTo(b, Nodes(b), Edges(b))
      /\ b.kind \in {"retrace", "loop"}
  BY SoundFields
<1>2. ASSUME NEW d \in past PROVE Sound(d) /\ d.state = "RETRACING"
  <2>1. d = b \/ \E v \in Nodes(b) : d = [b EXCEPT !.current = v]
    BY <1>2
  <2>2. ASSUME NEW v \in Nodes(b), d = [b EXCEPT !.current = v]
        PROVE  Sound(d) /\ d.state = "RETRACING"
    BY <2>2, CurrentSound
  <2> QED  BY <2>1, <2>2
<1>3. \/ \E d \in past : c \in ExitBegun(d)
      \/ \E e \in on : \E v \in Snapped(b, e) : c = [b EXCEPT !.retrace = e, !.current = v]
  <2> DEFINE at(e) == {[b EXCEPT !.retrace = e, !.current = v] : v \in Snapped(b, e)}
  <2>1. HandleRetracing(b) =
          (UNION {ExitBegun(d) : d \in past}) \cup UNION {at(e) : e \in on}
    BY DEF HandleRetracing
  <2> HIDE DEF past, on
  <2>2. \/ \E d \in past : c \in ExitBegun(d)
        \/ \E e \in on : c \in at(e)
    BY <2>1
  <2> QED  BY <2>2
<1>4. on \subseteq Edges(b)
  BY DEF Incident
<1> HIDE DEF past, on
<1>5. CASE \E d \in past : c \in ExitBegun(d)
  BY <1>2, <1>5, ExitBegunSound
<1>6. CASE \E e \in on : \E v \in Snapped(b, e) : c = [b EXCEPT !.retrace = e, !.current = v]
  <2>0. PICK e \in Edges(b) :
          \E v \in Snapped(b, e) : c = [b EXCEPT !.retrace = e, !.current = v]
    BY <1>4, <1>6
  <2>1. PICK v \in Snapped(b, e) : c = [b EXCEPT !.retrace = e, !.current = v]
    BY <2>0
  <2>2. /\ DOMAIN c = Fields /\ SameGraph(b, c) /\ c.raised = b.raised /\ c.kind = b.kind
        /\ c.state = b.state /\ c.exitVertex = b.exitVertex /\ c.exitEdge = b.exitEdge
        /\ c.current = v /\ c.source = b.source /\ c.joinVertex = b.joinVertex
        /\ c.retrace = e /\ c.pending = b.pending /\ c.joinEdge = b.joinEdge
    BY <1>1, <2>1 DEF Fields, SameGraph
  <2> QED  BY <1>1, <2>2, OnEdgeSound
<1> QED  BY <1>3, <1>5, <1>6

LEMMA ExitPendingSound ==
  ASSUME NEW b, Sound(b), b.state = "EXIT_PENDING", NEW c \in ExitPending(b)
  PROVE  Sound(c)
<1> DEFINE back == IF b.exitEdge \in Edges(b) THEN {b.exitEdge} ELSE Incident(b, b.exitVertex)
<1>1. DOMAIN b = Fields /\ b.kind \in {"retrace", "loop"}
  BY SoundFields
<1>2. back \subseteq Edges(b)
  BY DEF Incident
<1>3. \/ c = b \/ c \in ExitConfirmed(b)
      \/ \E e \in back : \E v \in Snapped(b, e) :
           c = [b EXCEPT !.state = "RETRACING", !.retrace = e, !.current = v,
                         !.exitEdge = 0, !.exitVertex = 0]
  <2> DEFINE at(e) == {[b EXCEPT !.state = "RETRACING", !.retrace = e, !.current = v,
                               !.exitEdge = 0, !.exitVertex = 0] :
                         v \in Snapped(b, e)}
  <2>1. ExitPending(b) = {b} \cup ExitConfirmed(b) \cup UNION {at(e) : e \in back}
    BY DEF ExitPending
  <2> HIDE DEF back
  <2>2. c = b \/ c \in ExitConfirmed(b) \/ \E e \in back : c \in at(e)
    BY <2>1
  <2> QED  BY <2>2
<1> HIDE DEF back
<1>4. CASE c \in ExitConfirmed(b)
  BY <1>4, ExitConfirmedSound DEF Discovers
<1>5. ASSUME NEW e \in back, NEW v \in Snapped(b, e),
             c = [b EXCEPT !.state = "RETRACING", !.retrace = e, !.current = v,
                           !.exitEdge = 0, !.exitVertex = 0]
      PROVE  Sound(c)
  <2>1. /\ DOMAIN c = Fields /\ SameGraph(b, c) /\ c.raised = b.raised /\ c.kind = b.kind
        /\ c.state = "RETRACING" /\ c.exitVertex = 0 /\ c.exitEdge = 0
        /\ c.current = v /\ c.source = b.source /\ c.joinVertex = b.joinVertex
        /\ c.retrace = e /\ c.pending = b.pending /\ c.joinEdge = b.joinEdge
    BY <1>1, <1>5 DEF Fields, SameGraph
  <2> QED  BY <1>1, <1>2, <2>1, OnEdgeSound
<1> QED  BY <1>3, <1>4, <1>5

-----------------------------------------------------------------------------
(* The calls *)

\* The first pose: one vertex, a root.
LEMMA FirstPose ==
  Sound(Extended(NewBuilder))
<1> DEFINE b == NewBuilder
           c == Extended(b)
<1>1. /\ DOMAIN b = Fields /\ b.component = <<>> /\ b.edge = <<>> /\ b.nextEdge = 1
      /\ b.jumps = 0 /\ b.state = "DISCOVERING" /\ b.current = 0 /\ b.retrace = 0
      /\ b.kind = "retrace" /\ b.pending = 0 /\ b.source = 0 /\ b.joinEdge = 0
      /\ b.joinVertex = 0 /\ b.exitEdge = 0 /\ b.exitVertex = 0 /\ b.raised = FALSE
  BY DEF NewBuilder, Fields
<1> HIDE DEF b
<1> DEFINE m == AddVertex(b)
<1>2. /\ DOMAIN m = Fields /\ m.component = Append(<<>>, 0)
      /\ m.edge = <<>> /\ m.nextEdge = 1 /\ m.jumps = 0 /\ SameCursors(b, m)
      /\ m.raised = FALSE
  BY <1>1, VertexAdded
<1>3. /\ m.component = <<0>> /\ Newest(m) = 1
  BY <1>2 DEF Newest
<1>4. c = [m EXCEPT !.current = 1]
  BY <1>1, <1>3 DEF Extended
<1> HIDE DEF m, c
<1>5. /\ DOMAIN c = Fields /\ c.component = <<0>> /\ c.edge = <<>> /\ c.nextEdge = 1
      /\ c.jumps = 0 /\ c.raised = FALSE /\ c.state = m.state /\ c.current = 1
      /\ c.kind = m.kind /\ c.retrace = m.retrace /\ c.pending = m.pending
      /\ c.source = m.source /\ c.joinEdge = m.joinEdge /\ c.joinVertex = m.joinVertex
      /\ c.exitEdge = m.exitEdge /\ c.exitVertex = m.exitVertex
  BY <1>2, <1>3, <1>4 DEF Fields
<1>6. /\ c.state = "DISCOVERING" /\ c.kind = "retrace" /\ c.retrace = 0 /\ c.pending = 0
      /\ c.source = 0 /\ c.joinEdge = 0 /\ c.joinVertex = 0
      /\ c.exitEdge = 0 /\ c.exitVertex = 0
  BY <1>1, <1>2, <1>5 DEF SameCursors
<1>7. Nodes(c) = {1} /\ Edges(c) = {} /\ c.component[1] = 0
  BY <1>5 DEF Nodes, Edges
<1>8. Shape(c)
  <2>1. c.component \in Seq(Nat) /\ Len(c.component) = 1
    BY <1>5
  <2> QED  BY <1>5, <1>6, <2>1 DEF Shape
<1>9. Simple(c)
  BY <1>7 DEF Simple
<1>10. Rooted(c)
  <2>1. Roots(c) = {1}
    BY <1>7 DEF Roots
  <2> QED  BY <1>5, <1>7, <2>1 DEF Rooted
<1>11. Referring(c) /\ Stated(c)
  BY <1>5, <1>6, <1>7 DEF Referring, RefersTo, Stated
<1> QED  BY <1>8, <1>9, <1>10, <1>11 DEF Sound, b, c

LEMMA NotEmpty ==
  ASSUME NEW b, Sound(b)
  PROVE  b.component # <<>>
BY DEF Sound, Shape

\* add_pose, without and with a relocation.
LEMMA PoseAddedSound ==
  ASSUME NEW b, b = NewBuilder \/ Sound(b), NEW c \in PoseAdded(b)
  PROVE  Sound(c)
<1>1. CASE b = NewBuilder
  <2>1. b.component = <<>>
    BY <1>1 DEF NewBuilder
  <2> QED  BY <1>1, <2>1, FirstPose DEF PoseAdded
<1>2. CASE Sound(b)
  <2>1. b.component # <<>>
    BY <1>2, NotEmpty
  <2>2. \/ c = b
        \/ b.state = "DISCOVERING" /\ c \in Discovering(b)
        \/ b.state = "RETRACE_PENDING" /\ c \in RetracePending(b)
        \/ b.state = "RETRACING" /\ c \in HandleRetracing(b)
        \/ b.state = "EXIT_PENDING" /\ c \in ExitPending(b)
    BY <1>2, <2>1, SoundFields DEF PoseAdded
  <2> QED
    BY <1>2, <2>2, DiscoveringSound, RetracePendingSound, HandleRetracingSound,
       ExitPendingSound DEF Discovers
<1> QED  BY <1>1, <1>2

LEMMA RelocatedSound ==
  ASSUME NEW b, Sound(b), NEW c \in Relocated(b)
  PROVE  Sound(c)
BY ExitConfirmedSound, JumpedSound DEF Relocated, Discovers

LEMMA CornerMarkedSound ==
  ASSUME NEW b, Sound(b), NEW c \in CornerMarked(b)
  PROVE  Sound(c)
BY SplitSound DEF CornerMarked

LEMMA FinalizedSound ==
  ASSUME NEW b, Sound(b), NEW c \in Finalized(b)
  PROVE  Sound(c)
<1>1. CASE b.finalized
  BY <1>1 DEF Finalized
<1>2. CASE ~ b.finalized
  <2>1. PICK s \in Settled(b) :
          \E d \in IF s.state = "DISCOVERING" /\ s.leftover THEN Committed(s) ELSE {s} :
            c = [d EXCEPT !.finalized = TRUE]
    BY <1>2 DEF Finalized
  <2>2. Sound(s)
    BY CancelledSound, ExitConfirmedSound DEF Settled, Discovers
  <2>3. PICK d : Sound(d) /\ c = [d EXCEPT !.finalized = TRUE]
    BY <2>1, <2>2, CommittedSound DEF Discovers
  <2>4. DOMAIN d = Fields /\ d.raised = FALSE /\ d.kind \in {"retrace", "loop"}
        /\ d.state \in {"DISCOVERING", "RETRACE_PENDING", "RETRACING", "EXIT_PENDING"}
        /\ RefersTo(d, Nodes(d), Edges(d)) /\ Stated(d)
    BY <2>3, SoundFields
  <2>5. DOMAIN c = Fields /\ SameGraph(d, c) /\ SameCursors(d, c) /\ c.raised = d.raised
    BY <2>3, <2>4 DEF Fields, SameGraph, SameCursors
  <2>6. /\ c.raised = FALSE /\ c.kind \in {"retrace", "loop"}
        /\ c.state \in {"DISCOVERING", "RETRACE_PENDING", "RETRACING", "EXIT_PENDING"}
        /\ RefersTo(c, Nodes(d), Edges(d))
    BY <2>4, <2>5 DEF SameCursors, RefersTo
  <2>7. Stated(c)
    BY <2>4, <2>5 DEF SameCursors, SameGraph, Stated
  <2> QED  BY <2>3, <2>5, <2>6, <2>7, CursorsMoved
<1> QED  BY <1>1, <1>2

-----------------------------------------------------------------------------
(* The recorder *)

LEMMA RecorderInit == Init => BuilderInv
BY DEF Init, BuilderInv

LEMMA FinishSound ==
  ASSUME BuilderInv, NEW written, Finish(topology, written)
  PROVE  BuilderInv'
<1>1. CASE topology.component = <<>> \/ topology.finalized
  BY <1>1 DEF Finish, BuilderInv
<1>2. CASE topology.component # <<>> /\ ~ topology.finalized
  <2>1. Sound(topology)
    BY <1>2 DEF BuilderInv, NewBuilder
  <2>2. PICK c \in CornerMarked(topology) : topology' \in Finalized(c)
    BY <1>2 DEF Finish
  <2> QED  BY <2>1, <2>2, CornerMarkedSound, FinalizedSound DEF BuilderInv
<1> QED  BY <1>1, <1>2

LEMMA RecorderNext == BuilderInv /\ [Next]_vars => BuilderInv'
<1> SUFFICES ASSUME BuilderInv, [Next]_vars PROVE BuilderInv'
  OBVIOUS
<1>1. CASE on_odometry
  <2>1. PICK b \in PoseAdded(topology) : topology' \in CornerMarked(b)
    BY <1>1 DEF on_odometry, Takes
  <2> QED  BY <2>1, PoseAddedSound, CornerMarkedSound DEF BuilderInv
<1>2. CASE on_relocation
  <2>1. PICK b \in Relocated(topology) : topology' \in CornerMarked(b)
    BY <1>2 DEF on_relocation, Takes
  <2>2. Sound(topology)
    BY <1>2 DEF on_relocation, BuilderInv, NewBuilder
  <2> QED  BY <2>1, <2>2, RelocatedSound, CornerMarkedSound DEF BuilderInv
<1>3. CASE \E written \in BOOLEAN : on_save(written) \/ Interrupt(written)
  BY <1>3, FinishSound DEF on_save, Interrupt
<1>4. CASE on_reset
  BY <1>4 DEF on_reset, BuilderInv
<1>5. CASE UNCHANGED topology
  BY <1>5 DEF BuilderInv
<1> QED  BY <1>1, <1>2, <1>3, <1>4, <1>5 DEF Next, vars, write_snapshot, on_start

\* The inductive invariant: a builder that has seen a pose is sound, for every
\* sequence of poses, corners, relocations, splits and calls.
THEOREM RecordingInvariant == Spec => []BuilderInv
BY RecorderInit, RecorderNext, PTL DEF Spec

\* CursorsValid: no handler goes on from a vertex or an edge that is gone, though
\* corners split edges in every state (_split_edge, _enter_retrace, _confirm_exit).
THEOREM CursorsCorrect == Spec => []CursorsValid
<1>1. BuilderInv => CursorsValid
  <2> SUFFICES ASSUME BuilderInv PROVE CursorsValid
    OBVIOUS
  <2>1. CASE topology = NewBuilder
    BY <2>1 DEF CursorsValid, NewBuilder
  <2>2. CASE Sound(topology)
    <3> DEFINE b == topology
    <3>1. /\ RefersTo(b, Nodes(b), Edges(b)) /\ Stated(b) /\ b.raised = FALSE
          /\ b.state \in {"DISCOVERING", "RETRACE_PENDING", "RETRACING", "EXIT_PENDING"}
      BY <2>2, SoundFields
    <3>2. b.state = "DISCOVERING" => b.current \in Nodes(b)
      BY <3>1 DEF RefersTo, Stated
    <3>3. b.state = "RETRACE_PENDING" =>
            /\ b.pending \in Edges(b) /\ b.source \in Nodes(b)
            /\ b.kind = "loop" =>
                 b.joinEdge \in Edges(b) \/ b.joinVertex \in Nodes(b) \ {b.source}
      BY <3>1 DEF RefersTo, Stated
    <3>4. b.state = "RETRACING" => b.retrace \in Edges(b)
      BY <3>1 DEF RefersTo, Stated
    <3>5. b.state = "EXIT_PENDING" => b.exitEdge \in Edges(b) \/ b.exitVertex \in Nodes(b)
      BY <3>1 DEF RefersTo, Stated
    <3> QED  BY <3>1, <3>2, <3>3, <3>4, <3>5 DEF CursorsValid
  <2> QED  BY <2>1, <2>2 DEF BuilderInv
<1> QED  BY <1>1, RecordingInvariant, PTL

\* What the document says of an edge: its two ends.
LEMMA DocumentEdge ==
  ASSUME NEW b, Sound(b), NEW e \in Edges(b)
  PROVE  LET d == Document(b).edges[e]
         IN  /\ d.first # d.second /\ {d.first, d.second} = b.edge[e]
             /\ d.weight = 0 /\ d.dir = 0 /\ d.mode = "bidirectional"
<1> DEFINE u == CHOOSE u \in b.edge[e] : TRUE
           w == CHOOSE w \in b.edge[e] : b.edge[e] = {u, w}
<1>1. PICK x, y \in Nodes(b) : x # y /\ b.edge[e] = {x, y}
  BY DEF Sound, Simple
<1>2. u \in b.edge[e]
  BY <1>1
<1>3. \E z \in b.edge[e] : b.edge[e] = {u, z}
  BY <1>1, <1>2
<1>4. w \in b.edge[e] /\ b.edge[e] = {u, w}
  BY <1>3
<1>5. Document(b).edges[e] = [first |-> u, second |-> w, weight |-> 0, dir |-> 0,
                              mode |-> "bidirectional"]
  BY DEF Document
<1> HIDE DEF u, w
<1>6. u # w
  BY <1>1, <1>4
<1> QED  BY <1>4, <1>5, <1>6

\* RecordedMapLoads: the planner's loader accepts every document the recorder
\* writes (_split_edge, _enter_retrace; TopologyGraph::load).
THEOREM RecordedMapCorrect == Spec => []RecordedMapLoads
<1>1. BuilderInv => RecordedMapLoads
  <2> SUFFICES ASSUME BuilderInv, topology.component # <<>>
               PROVE  Loadable(Document(topology))
    BY DEF RecordedMapLoads
  <2> DEFINE b == topology
             doc == Document(b)
  <2>1. Sound(b)
    BY DEF BuilderInv, NewBuilder
  <2>2. DOMAIN doc.vertices = Nodes(b) /\ DOMAIN doc.edges = Edges(b)
    BY DEF Document
  <2>3. Nodes(b) # {}
    <3>1. Len(b.component) \in Nat /\ Len(b.component) > 0
          /\ Nodes(b) = 1 .. Len(b.component)
      BY <2>1, LenProperties DEF Sound, Shape, Nodes
    <3> QED  BY <3>1
  <2> DEFINE at(e) == doc.edges[e]
  <2>4. \A e \in Edges(b) :
          /\ at(e).first # at(e).second /\ {at(e).first, at(e).second} = b.edge[e]
          /\ at(e).weight = 0 /\ at(e).dir = 0 /\ at(e).mode = "bidirectional"
    BY <2>1, DocumentEdge
  <2>5. \A e \in Edges(b) : b.edge[e] \subseteq Nodes(b)
    BY <2>1, SoundFields
  <2> HIDE DEF doc, b
  <2>6. \A e \in Edges(b) : EdgeIsValid(doc, doc.edges[e])
    BY <2>2, <2>4, <2>5 DEF EdgeIsValid, TravelModes, ModeOfDirection
  <2>7. \A e, f \in Edges(b) :
          EndPoints(doc.edges[e]) = EndPoints(doc.edges[f]) => e = f
    <3>1. \A e \in Edges(b) : EndPoints(doc.edges[e]) = b.edge[e]
      BY <2>4 DEF EndPoints
    <3> QED  BY <2>1, <3>1 DEF Sound, Simple
  <2> QED  BY <2>2, <2>3, <2>6, <2>7 DEF Loadable, doc, b
<1> QED  BY <1>1, RecordingInvariant, PTL

\* NoStrayPieces: the graph falls apart only where the robot was carried
\* (_handle_relocation, _cancel_retrace_pending, _confirm_exit).
THEOREM PiecesCorrect == Spec => []NoStrayPieces
<1>1. BuilderInv => NoStrayPieces
  <2> SUFFICES ASSUME BuilderInv PROVE NoStrayPieces
    OBVIOUS
  <2>1. CASE topology = NewBuilder
    <3>1. Nodes(topology) = {}
      BY <2>1 DEF Nodes, NewBuilder
    <3> QED  BY <3>1 DEF NoStrayPieces
  <2>2. CASE Sound(topology)
    BY <2>2 DEF Sound, Rooted, Closed, NoStrayPieces
  <2> QED  BY <2>1, <2>2 DEF BuilderInv
<1> QED  BY <1>1, RecordingInvariant, PTL

\* RecordingSound: the three together.
THEOREM RecordingCorrect == Spec => []RecordingSound
BY CursorsCorrect, RecordedMapCorrect, PiecesCorrect, PTL DEF RecordingSound
-----------------------------------------------------------------------------
(* The data recorder.  Its promise is about what is on disk; the invariant  *)
(* has to know what is on the way there: that stamps in the queues and in   *)
(* hand are not used yet, and how many rows, clouds and poses there are at  *)
(* each place of the thread.                                                *)

Message == [stamp : 1..MaxStamp, kind : Kinds]

NodeType == [at : ThreadPlaces, odometry : Message \cup {NoMessage},
             cloud : Message \cup {NoMessage},
             odom_frame : {NoFrame, "expected", "other"},
             cloud_frame : {NoFrame, "expected", "other"}, frame_count : Nat]
DiskType == [pose : {"none", "partial", "final"}, rows : Seq(Nat), pcd : Seq(Nat),
             manifest : {"none", "recording", "complete"}, frames : Nat]

DataTypes ==
  /\ last \in [odometry : 0..MaxStamp, cloud : 0..MaxStamp]
  /\ odometry_queue_ \in Seq(Message) /\ cloud_queue_ \in Seq(Message)
  /\ Len(odometry_queue_) <= QueueSize /\ Len(cloud_queue_) <= QueueSize
  /\ node \in NodeType /\ disk \in DiskType
  /\ live \in Seq(Nat)

\* A queue of growing stamps none of which is in use, or later than the last sent.
Unused(q, used, latest) ==
  /\ \A i \in DOMAIN q : q[i].stamp <= latest /\ q[i].stamp \notin used
  /\ \A i, j \in DOMAIN q : i < j => q[i].stamp < q[j].stamp
  /\ \A s \in used : s <= latest

\* What is on disk and what the thread is about to put there.
Entries(s) == {s[k] : k \in DOMAIN s}
OdometryInHand == node.at \in {"checking", "writing", "appending"}
CloudInHand == node.at \in {"checking", "writing"}
UsedOdometry == Entries(disk.rows) \cup (IF OdometryInHand THEN {node.odometry.stamp} ELSE {})
UsedClouds == Entries(disk.pcd) \cup (IF CloudInHand THEN {node.cloud.stamp} ELSE {})

QueuesUnused ==
  /\ Unused(odometry_queue_, UsedOdometry, last.odometry)
  /\ Unused(cloud_queue_, UsedClouds, last.cloud)

HandsUnused ==
  /\ OdometryInHand => node.odometry.stamp \notin Entries(disk.rows)
  /\ CloudInHand => node.cloud.stamp \notin Entries(disk.pcd)

Ended == {"closing", "completing", "down"}

\* A torn row is the end of the recording.
Whole == node.at \notin Ended => Torn \notin Entries(disk.rows)

\* How far the thread is with frame number frame_count.
Lengths(rows, pcd, published, counted) ==
  /\ Len(disk.rows) = rows /\ Len(disk.pcd) = pcd
  /\ Len(live) = published /\ disk.frames = counted

Covered ==
  /\ Len(live) <= Len(disk.rows) /\ Len(live) <= Len(disk.pcd)
  /\ disk.frames <= Len(disk.rows) /\ disk.frames <= Len(disk.pcd)

Counts ==
  LET f == node.frame_count
  IN  /\ node.at \in {"waiting", "matching", "checking", "writing"} => Lengths(f, f, f, f)
      /\ node.at = "appending" => Lengths(f, f + 1, f, f)
      /\ node.at = "counting" => Lengths(f + 1, f + 1, f, f)
      /\ node.at = "publishing" => f > 0 /\ Lengths(f, f, f - 1, f)
      /\ node.at \in {"closing", "completing"} =>
           /\ Covered /\ f <= Len(disk.rows) /\ f <= Len(disk.pcd)
           /\ \/ Len(disk.rows) = f /\ Len(disk.pcd) = f
              \/ Torn \in Entries(disk.rows)
      /\ node.at = "down" => Covered

\* The frame under way, in the places where it is.
UnderWay ==
  /\ node.at \in {"checking", "writing", "appending", "counting", "publishing"} =>
       /\ node.odometry \in Message /\ node.cloud \in Message
       /\ Delta(node.cloud, node.odometry) <= Slop
  /\ node.at \in {"appending", "counting", "publishing"} =>
       disk.pcd[Len(live) + 1] = node.cloud.stamp
  /\ node.at \in {"counting", "publishing"} => disk.rows[Len(live) + 1] = node.odometry.stamp

Files ==
  /\ node.at \notin Ended \ {"closing"} => disk.pose = "partial"
  /\ node.at = "completing" => disk.pose = "final"
  /\ node.at # "down" => disk.manifest = "recording"
  /\ disk = EmptyDirectory => live = <<>>

DataInv ==
  /\ DataTypes /\ QueuesUnused /\ HandsUnused /\ Whole /\ Counts /\ UnderWay /\ Files
  /\ FramesTraceable /\ RecordedOnce /\ ManifestTrue

-----------------------------------------------------------------------------
(* Queues and files *)

LEMMA StampsAreNumbers ==
  /\ \A m \in Message : m.stamp \in Nat /\ m.stamp >= 1 /\ m.stamp <= MaxStamp
  /\ \A q \in Seq(Message) : \A i \in 1..Len(q) : q[i] \in Message /\ q[i].stamp \in Nat
<1>1. ASSUME NEW m \in Message
      PROVE  m.stamp \in Nat /\ m.stamp >= 1 /\ m.stamp <= MaxStamp
  <2>1. m.stamp \in 1..MaxStamp
    BY DEF Message
  <2> QED
    BY <2>1, RecorderAssumption
<1>2. ASSUME NEW q \in Seq(Message), NEW i \in 1..Len(q)
      PROVE  q[i] \in Message
  OBVIOUS
<1> QED
  BY <1>1, <1>2

LEMMA PushKeepsUnused ==
  ASSUME NEW q \in Seq(Message), NEW used \in SUBSET Nat, NEW latest \in Nat, NEW m \in Message,
         Len(q) <= QueueSize, Unused(q, used, latest), m.stamp > latest
  PROVE  /\ Push(q, m) \in Seq(Message) /\ Len(Push(q, m)) <= QueueSize
         /\ Unused(Push(q, m), used, m.stamp)
<1> USE RecorderAssumption
<1>1. m.stamp \in Nat /\ \A s \in used : s <= m.stamp /\ s # m.stamp
  <2>1. m.stamp \in Nat
    BY StampsAreNumbers
  <2>2. \A s \in used : s <= latest
    BY DEF Unused
  <2> HIDE DEF Message
  <2> QED
    BY <2>1, <2>2
<1>2. \A i \in 1..Len(q) : q[i] \in Message /\ q[i].stamp \in Nat
  BY StampsAreNumbers
<1>3. CASE Len(q) < QueueSize
  <2>1. Push(q, m) = Append(q, m)
    BY <1>3 DEF Push
  <2> QED
    BY <1>1, <1>2, <1>3, <2>1 DEF Unused
<1>4. CASE Len(q) >= QueueSize
  <2>1. Push(q, m) = Append(Tail(q), m) /\ q # <<>>
    BY <1>4 DEF Push
  <2>2. /\ Tail(q) \in Seq(Message) /\ Len(Tail(q)) = Len(q) - 1
        /\ \A i \in 1..Len(Tail(q)) : Tail(q)[i] = q[i + 1]
    BY <2>1, HeadTailProperties
  <2>3. \A i \in 1..Len(Tail(q)) : Append(Tail(q), m)[i] = q[i + 1] /\ i + 1 \in 1..Len(q)
    BY <2>2
  <2>4. /\ Append(Tail(q), m) \in Seq(Message) /\ Len(Append(Tail(q), m)) = Len(q)
        /\ Append(Tail(q), m)[Len(q)] = m
    BY <2>2
  <2> DEFINE t == Append(Tail(q), m)
  <2>5. /\ t \in Seq(Message) /\ Len(t) = Len(q) /\ t[Len(q)] = m /\ Len(q) \in Nat
        /\ DOMAIN t = 1..Len(q) /\ DOMAIN q = 1..Len(q)
        /\ \A i \in 1..Len(q) : i < Len(q) => t[i] = q[i + 1] /\ i + 1 \in 1..Len(q)
    <3>1. Len(q) \in Nat /\ DOMAIN q = 1..Len(q)
      OBVIOUS
    <3>2. t \in Seq(Message) /\ Len(t) = Len(q) /\ t[Len(q)] = m
      BY <2>4
    <3>3. DOMAIN t = 1..Len(q)
      <4> HIDE DEF t
      <4> QED
        BY <3>2
    <3>4. ASSUME NEW i \in 1..Len(q), i < Len(q)
          PROVE  t[i] = q[i + 1] /\ i + 1 \in 1..Len(q)
      <4>1. i \in 1..Len(Tail(q))
        BY <2>2, <3>1, <3>4
      <4> QED
        BY <2>3, <4>1
    <3> HIDE DEF t
    <3> QED
      BY <3>1, <3>2, <3>3, <3>4
  <2> HIDE DEF t
  <2>6. \A i \in 1..Len(q) : t[i].stamp = IF i < Len(q) THEN q[i + 1].stamp ELSE m.stamp
    <3>1. Len(q) \in Nat
      BY <2>5
    <3>2. \A i \in 1..Len(q) : i = Len(q) \/ i < Len(q)
      BY <3>1
    <3> QED
      BY <2>5, <3>2
  <2>7. Unused(t, used, m.stamp)
    <3>1. ASSUME NEW i \in 1..Len(q)
          PROVE  t[i].stamp <= m.stamp /\ t[i].stamp \notin used
      <4>1. CASE i < Len(q)
        <5>1. i + 1 \in 1..Len(q) /\ t[i].stamp = q[i + 1].stamp
          BY <2>5, <2>6, <4>1
        <5>2. q[i + 1].stamp <= latest /\ q[i + 1].stamp \notin used
          BY <2>5, <5>1 DEF Unused
        <5> QED
          BY <1>1, <1>2, <5>1, <5>2
      <4>2. CASE ~ (i < Len(q))
        <5>1. t[i].stamp = m.stamp
          BY <2>6, <4>2
        <5> QED
          BY <1>1, <5>1
      <4> QED
        BY <4>1, <4>2
    <3>2. ASSUME NEW i \in 1..Len(q), NEW j \in 1..Len(q), i < j
          PROVE  t[i].stamp < t[j].stamp
      <4>1. i < Len(q) /\ i + 1 \in 1..Len(q) /\ t[i].stamp = q[i + 1].stamp
        BY <2>5, <2>6, <3>2
      <4>2. CASE j < Len(q)
        <5>1. j + 1 \in 1..Len(q) /\ t[j].stamp = q[j + 1].stamp
          BY <2>5, <2>6, <4>2
        <5>2. q[i + 1].stamp < q[j + 1].stamp
          BY <2>5, <3>2, <4>1, <5>1, SMTT(30) DEF Unused
        <5> QED
          BY <4>1, <5>1, <5>2
      <4>3. CASE ~ (j < Len(q))
        <5>1. t[j].stamp = m.stamp
          BY <2>6, <4>3
        <5>2. q[i + 1].stamp <= latest
          BY <2>5, <4>1 DEF Unused
        <5> QED
          BY <1>1, <1>2, <4>1, <5>1, <5>2
      <4> QED
        BY <4>2, <4>3
    <3> QED
      BY <1>1, <2>5, <3>1, <3>2 DEF Unused
  <2> QED
    BY <2>1, <2>5, <2>7 DEF t
<1> QED
  BY <1>3, <1>4

LEMMA WithoutKeepsUnused ==
  ASSUME NEW q \in Seq(Message), NEW used \in SUBSET Nat, NEW latest \in Nat, NEW i \in DOMAIN q,
         Unused(q, used, latest)
  PROVE  /\ WithoutIndex(q, i) \in Seq(Message) /\ Len(WithoutIndex(q, i)) <= Len(q)
         /\ Unused(WithoutIndex(q, i), used \cup {q[i].stamp}, latest)
<1> DEFINE r == WithoutIndex(q, i)
<1>1. \A k \in 1..Len(q) : q[k] \in Message /\ q[k].stamp \in Nat
  BY StampsAreNumbers
<1>2. Len(q) \in Nat /\ Len(q) >= 1 /\ i \in 1..Len(q)
  OBVIOUS
<1>3. r \in Seq(Message) /\ Len(r) = Len(q) - 1
  BY <1>1, <1>2 DEF WithoutIndex
<1>4. \A k \in 1..Len(r) : r[k] = IF k < i THEN q[k] ELSE q[k + 1]
  BY <1>2, <1>3 DEF WithoutIndex
<1>5. DOMAIN r = 1..Len(r) /\ DOMAIN q = 1..Len(q)
  BY <1>3
<1> HIDE DEF r
<1>6. \A k \in 1..Len(r) : \E n \in 1..Len(q) \ {i} :
         r[k] = q[n] /\ n = IF k < i THEN k ELSE k + 1
  <2> SUFFICES ASSUME NEW k \in 1..Len(r)
               PROVE  \E n \in 1..Len(q) \ {i} : r[k] = q[n] /\ n = IF k < i THEN k ELSE k + 1
    OBVIOUS
  <2>1. k \in 1..Len(q) /\ k + 1 \in 1..Len(q)
    BY <1>2, <1>3
  <2>2. k < i => k # i
    BY <1>2
  <2>3. ~ (k < i) => k + 1 # i
    BY <1>2, <2>1
  <2>4. r[k] = q[IF k < i THEN k ELSE k + 1]
    BY <1>4
  <2> QED
    BY <2>1, <2>2, <2>3, <2>4
<1>7. Unused(r, used \cup {q[i].stamp}, latest)
  <2>1. ASSUME NEW k \in 1..Len(r)
        PROVE  r[k].stamp <= latest /\ r[k].stamp \notin used \cup {q[i].stamp}
    <3>1. PICK n \in 1..Len(q) \ {i} : r[k] = q[n]
      BY <1>6
    <3>2. q[n].stamp <= latest /\ q[n].stamp \notin used
      BY <1>5 DEF Unused
    <3>3. q[n].stamp # q[i].stamp
      <4>1. n < i \/ i < n
        BY <1>2
      <4>2. q[n].stamp < q[i].stamp \/ q[i].stamp < q[n].stamp
        BY <1>2, <1>5, <4>1 DEF Unused
      <4> QED
        BY <1>1, <1>2, <4>2
    <3> QED
      BY <3>1, <3>2, <3>3
  <2>2. ASSUME NEW j \in 1..Len(r), NEW k \in 1..Len(r), j < k
        PROVE  r[j].stamp < r[k].stamp
    <3>1. PICK m \in 1..Len(q) \ {i} : r[j] = q[m] /\ m = IF j < i THEN j ELSE j + 1
      BY <1>6
    <3>2. PICK n \in 1..Len(q) \ {i} : r[k] = q[n] /\ n = IF k < i THEN k ELSE k + 1
      BY <1>6
    <3>3. m < n
      BY <1>2, <1>3, <2>2, <3>1, <3>2
    <3> QED
      BY <1>5, <3>1, <3>2, <3>3 DEF Unused
  <2>3. \A s \in used \cup {q[i].stamp} : s <= latest
    BY <1>2 DEF Unused
  <2> QED
    BY <1>5, <2>1, <2>2, <2>3 DEF Unused
<1> QED
  BY <1>2, <1>3, <1>7 DEF r

LEMMA FewerUsed ==
  ASSUME NEW q, NEW used, NEW latest, Unused(q, used, latest),
         NEW fewer \in SUBSET used
  PROVE  Unused(q, fewer, latest)
BY DEF Unused

Distinct(s) == \A j, k \in DOMAIN s : s[j] = s[k] => j = k

LEMMA AppendedEntries ==
  ASSUME NEW s \in Seq(Nat), NEW x \in Nat
  PROVE  /\ Append(s, x) \in Seq(Nat) /\ Len(Append(s, x)) = Len(s) + 1
         /\ Append(s, x)[Len(s) + 1] = x
         /\ \A k \in 1..Len(s) : Append(s, x)[k] = s[k]
         /\ Entries(Append(s, x)) = Entries(s) \cup {x}
         /\ x \notin Entries(s) /\ Distinct(s) => Distinct(Append(s, x))
<1>1. /\ Append(s, x) \in Seq(Nat) /\ Len(Append(s, x)) = Len(s) + 1
      /\ Append(s, x)[Len(s) + 1] = x /\ Len(s) \in Nat
      /\ DOMAIN Append(s, x) = 1..(Len(s) + 1) /\ DOMAIN s = 1..Len(s)
  OBVIOUS
<1>2. \A k \in 1..Len(s) : Append(s, x)[k] = s[k]
  OBVIOUS
<1>3. Entries(Append(s, x)) = Entries(s) \cup {x}
  <2>1. 1..(Len(s) + 1) = 1..Len(s) \cup {Len(s) + 1}
    BY <1>1
  <2> DEFINE t == Append(s, x)
  <2>2. {t[k] : k \in 1..(Len(s) + 1)} = {t[k] : k \in 1..Len(s)} \cup {t[Len(s) + 1]}
    BY <2>1
  <2>3. {t[k] : k \in 1..Len(s)} = {s[k] : k \in 1..Len(s)}
    BY <1>2
  <2> QED
    BY <1>1, <2>2, <2>3 DEF Entries
<1>4. ASSUME x \notin Entries(s), Distinct(s)
      PROVE  Distinct(Append(s, x))
  <2>1. \A k \in 1..Len(s) : s[k] # x
    BY <1>1, <1>4, Zenon DEF Entries
  <2> QED
    BY <1>1, <1>2, <1>4, <2>1 DEF Distinct
<1> QED
  BY <1>1, <1>2, <1>3, <1>4

LEMMA InDomain ==
  ASSUME NEW s \in Seq(Nat), NEW n \in Nat, n <= Len(s), NEW k \in 1..n
  PROVE  k \in DOMAIN s
OBVIOUS

LEMMA WrittenIsAppended ==
  ASSUME NEW s \in Seq(Nat), NEW x \in Nat, NEW n \in Nat, Len(s) = n
  PROVE  [k \in 1..(n + 1) |-> IF k <= n THEN s[k] ELSE x] = Append(s, x)
<1> DEFINE t == [k \in 1..(n + 1) |-> IF k <= n THEN s[k] ELSE x]
<1>1. /\ Append(s, x) \in Seq(Nat) /\ Len(Append(s, x)) = n + 1
      /\ \A k \in 1..(n + 1) : Append(s, x)[k] = IF k <= n THEN s[k] ELSE x
  OBVIOUS
<1>2. t \in Seq(Nat) /\ Len(t) = n + 1
  OBVIOUS
<1> HIDE DEF t
<1>3. \A k \in 1..(n + 1) : t[k] = Append(s, x)[k]
  BY <1>1 DEF t
<1>4. t = Append(s, x)
  BY <1>1, <1>2, <1>3
<1> QED
  BY <1>4 DEF t

-----------------------------------------------------------------------------
(* The steps.  A step that leaves the files and the queues alone, and takes *)
(* no message in hand, disturbs what the place of the thread stands for.    *)

LEMMA UsedAreNumbers ==
  ASSUME DataInv
  PROVE  UsedOdometry \in SUBSET Nat /\ UsedClouds \in SUBSET Nat
<1>1. Entries(disk.rows) \subseteq Nat /\ Entries(disk.pcd) \subseteq Nat
  <2>1. disk.rows \in Seq(Nat) /\ disk.pcd \in Seq(Nat)
    BY DEF DataInv, DataTypes, NodeType, DiskType
  <2>2. \A s \in Seq(Nat) : \A k \in DOMAIN s : s[k] \in Nat
    OBVIOUS
  <2> QED
    BY <2>1, <2>2 DEF Entries
<1>2. OdometryInHand => node.odometry.stamp \in Nat
  BY StampsAreNumbers DEF DataInv, UnderWay, OdometryInHand
<1>3. CloudInHand => node.cloud.stamp \in Nat
  BY StampsAreNumbers DEF DataInv, UnderWay, CloudInHand
<1> QED
  BY <1>1, <1>2, <1>3 DEF UsedOdometry, UsedClouds


\* A step that writes no frame and takes no message in hand.
LEMMA QuietStep ==
  ASSUME DataInv, UNCHANGED <<last, odometry_queue_, cloud_queue_, live>>,
         disk'.rows = disk.rows, disk'.pcd = disk.pcd,
         node'.odometry = node.odometry, node'.cloud = node.cloud,
         OdometryInHand' => OdometryInHand, CloudInHand' => CloudInHand,
         node'.at \notin Ended => node.at \notin Ended
  PROVE  QueuesUnused' /\ HandsUnused' /\ Whole' /\ FramesTraceable' /\ RecordedOnce'
<1>1. /\ UsedOdometry' \in SUBSET UsedOdometry /\ UsedClouds' \in SUBSET UsedClouds
  BY DEF UsedOdometry, UsedClouds
<1>2. QueuesUnused'
  BY <1>1, FewerUsed DEF DataInv, QueuesUnused
<1>3. HandsUnused' /\ Whole'
  BY DEF DataInv, HandsUnused, Whole
<1>4. FramesTraceable' /\ RecordedOnce'
  BY DEF DataInv, FramesTraceable, RecordedOnce
<1> QED
  BY <1>2, <1>3, <1>4

LEMMA StartKeeps ==
  ASSUME DataInv, Start
  PROVE  DataInv'
<1>1. disk.rows = <<>> /\ disk.pcd = <<>> /\ disk.frames = 0 /\ live = <<>>
      /\ disk.manifest = "none" /\ Len(live) = 0 /\ Len(disk.rows) = 0
  BY DEF Start, EmptyDirectory, DataInv, Files
<1>2. /\ disk'.rows = <<>> /\ disk'.pcd = <<>> /\ disk'.frames = 0 /\ live' = <<>>
      /\ disk'.pose = "partial" /\ disk'.manifest \in {"none", "recording"}
      /\ odometry_queue_' = <<>> /\ cloud_queue_' = <<>> /\ last' = last
      /\ \/ node' = NewNode /\ disk'.manifest = "recording"
         \/ node' = node
  BY <1>1 DEF Start, DataInv, DataTypes, NodeType, DiskType
<1>3. DataTypes'
  <2>1. node' \in NodeType
    BY <1>2 DEF DataInv, DataTypes, NodeType, DiskType, NewNode, ThreadPlaces
  <2>2. disk' \in DiskType
    BY DEF Start, DataInv, DataTypes, NodeType, DiskType
  <2> QED
    BY <1>2, <2>1, <2>2, RecorderAssumption DEF DataInv, DataTypes, NodeType, DiskType
<1>4. node.at = "down" /\ node'.at \in {"waiting", "down"} /\ (node'.at = "waiting" => node' = NewNode)
  BY <1>2 DEF Start, NewNode
<1>5. ~ OdometryInHand' /\ ~ CloudInHand' /\ Entries(disk'.rows) = {} /\ Entries(disk'.pcd) = {}
  BY <1>2, <1>4 DEF OdometryInHand, CloudInHand, Entries
<1>6. QueuesUnused'
  BY <1>2, <1>5 DEF QueuesUnused, Unused, UsedOdometry, UsedClouds
<1>7. HandsUnused' /\ Whole'
  BY <1>5 DEF HandsUnused, Whole
<1>8. Counts'
  BY <1>2, <1>4 DEF Counts, Lengths, Covered, NewNode
<1>9. UnderWay' /\ Files'
  BY <1>2, <1>4 DEF UnderWay, Files, Ended, EmptyDirectory
<1>10. FramesTraceable' /\ RecordedOnce' /\ ManifestTrue'
  BY <1>2 DEF FramesTraceable, RecordedOnce, ManifestTrue
<1> QED
  BY <1>3, <1>6, <1>7, <1>8, <1>9, <1>10 DEF DataInv

LEMMA OdometryKeeps ==
  ASSUME DataInv, onOdometry
  PROVE  DataInv'
<1>1. PICK m \in Messages(last.odometry) :
        /\ last' = [last EXCEPT !.odometry = m.stamp]
        /\ odometry_queue_' = Push(odometry_queue_, m)
  BY DEF onOdometry
<1>2. m \in Message /\ m.stamp \in 0..MaxStamp /\ m.stamp > last.odometry
  BY RecorderAssumption DEF Messages, Message, DataInv, DataTypes, NodeType, DiskType
<1>3. /\ node.at = "waiting" /\ node'.at = "matching" /\ node' = [node EXCEPT !.at = "matching"]
      /\ cloud_queue_' = cloud_queue_ /\ disk' = disk /\ live' = live
      /\ last'.odometry = m.stamp /\ last'.cloud = last.cloud
      /\ last' \in [odometry : 0..MaxStamp, cloud : 0..MaxStamp]
  BY <1>1, <1>2 DEF onOdometry, Goes, DataInv, DataTypes, NodeType, DiskType
<1>4. /\ odometry_queue_' \in Seq(Message) /\ Len(odometry_queue_') <= QueueSize
      /\ Unused(odometry_queue_', UsedOdometry, m.stamp)
  <2>1. /\ odometry_queue_ \in Seq(Message) /\ last.odometry \in Nat /\ Len(odometry_queue_) <= QueueSize
        /\ UsedOdometry \in SUBSET Nat /\ Unused(odometry_queue_, UsedOdometry, last.odometry)
    BY UsedAreNumbers, RecorderAssumption DEF DataInv, DataTypes, NodeType, DiskType, QueuesUnused
  <2> QED
    BY <1>1, <1>2, <2>1, PushKeepsUnused
<1>5. DataTypes'
  BY <1>3, <1>4 DEF DataInv, DataTypes, NodeType, DiskType, ThreadPlaces
<1>6. QueuesUnused'
  <2>1. UsedOdometry' = UsedOdometry /\ UsedClouds' = UsedClouds
    BY <1>3 DEF UsedOdometry, UsedClouds, OdometryInHand, CloudInHand
  <2> QED
    BY <1>3, <1>4, <2>1 DEF QueuesUnused, DataInv
<1>7. HandsUnused' /\ Whole'
  BY <1>3 DEF HandsUnused, Whole, DataInv, OdometryInHand, CloudInHand, Ended
<1>8. Counts' /\ UnderWay' /\ Files'
  BY <1>3 DEF Counts, Lengths, UnderWay, Files, Ended, DataInv
<1>9. FramesTraceable' /\ RecordedOnce' /\ ManifestTrue'
  BY <1>3 DEF FramesTraceable, RecordedOnce, ManifestTrue, DataInv
<1> QED
  BY <1>5, <1>6, <1>7, <1>8, <1>9 DEF DataInv

LEMMA CloudKeeps ==
  ASSUME DataInv, onPointCloud
  PROVE  DataInv'
<1>1. PICK m \in Messages(last.cloud) :
        /\ last' = [last EXCEPT !.cloud = m.stamp]
        /\ cloud_queue_' = Push(cloud_queue_, m)
  BY DEF onPointCloud
<1>2. m \in Message /\ m.stamp \in 0..MaxStamp /\ m.stamp > last.cloud
  BY RecorderAssumption DEF Messages, Message, DataInv, DataTypes, NodeType, DiskType
<1>3. /\ node.at = "waiting" /\ node'.at = "matching" /\ node' = [node EXCEPT !.at = "matching"]
      /\ odometry_queue_' = odometry_queue_ /\ disk' = disk /\ live' = live
      /\ last'.cloud = m.stamp /\ last'.odometry = last.odometry
      /\ last' \in [odometry : 0..MaxStamp, cloud : 0..MaxStamp]
  BY <1>1, <1>2 DEF onPointCloud, Goes, DataInv, DataTypes, NodeType, DiskType
<1>4. /\ cloud_queue_' \in Seq(Message) /\ Len(cloud_queue_') <= QueueSize
      /\ Unused(cloud_queue_', UsedClouds, m.stamp)
  <2>1. /\ cloud_queue_ \in Seq(Message) /\ last.cloud \in Nat /\ Len(cloud_queue_) <= QueueSize
        /\ UsedClouds \in SUBSET Nat /\ Unused(cloud_queue_, UsedClouds, last.cloud)
    BY UsedAreNumbers, RecorderAssumption DEF DataInv, DataTypes, NodeType, DiskType, QueuesUnused
  <2> QED
    BY <1>1, <1>2, <2>1, PushKeepsUnused
<1>5. DataTypes'
  BY <1>3, <1>4 DEF DataInv, DataTypes, NodeType, DiskType, ThreadPlaces
<1>6. QueuesUnused'
  <2>1. UsedOdometry' = UsedOdometry /\ UsedClouds' = UsedClouds
    BY <1>3 DEF UsedOdometry, UsedClouds, OdometryInHand, CloudInHand
  <2> QED
    BY <1>3, <1>4, <2>1 DEF QueuesUnused, DataInv
<1>7. HandsUnused' /\ Whole'
  BY <1>3 DEF HandsUnused, Whole, DataInv, OdometryInHand, CloudInHand, Ended
<1>8. Counts' /\ UnderWay' /\ Files'
  BY <1>3 DEF Counts, Lengths, UnderWay, Files, Ended, DataInv
<1>9. FramesTraceable' /\ RecordedOnce' /\ ManifestTrue'
  BY <1>3 DEF FramesTraceable, RecordedOnce, ManifestTrue, DataInv
<1> QED
  BY <1>5, <1>6, <1>7, <1>8, <1>9 DEF DataInv

\* Steps that only move the thread.
LEMMA MoveKeeps ==
  ASSUME DataInv, NoMatch \/ Interrupted \/ Killed
  PROVE  DataInv'
<1>1. /\ UNCHANGED <<last, odometry_queue_, cloud_queue_, disk, live>>
      /\ node'.odometry = node.odometry /\ node'.cloud = node.cloud
      /\ node'.frame_count = node.frame_count /\ node.at # "down"
      /\ \/ node.at = "matching" /\ node'.at = "waiting"
         \/ node.at \in {"waiting", "matching"} /\ node'.at = "closing"
         \/ node'.at = "down"
  BY DEF NoMatch, Interrupted, Killed, Goes, DataInv, DataTypes, NodeType, DiskType
<1>2. DataTypes'
  BY DEF NoMatch, Interrupted, Killed, Goes, DataInv, DataTypes, NodeType, DiskType, ThreadPlaces
<1>3. QueuesUnused' /\ HandsUnused' /\ Whole' /\ FramesTraceable' /\ RecordedOnce'
  BY <1>1, QuietStep DEF OdometryInHand, CloudInHand, Ended
<1>4. ManifestTrue' /\ UnderWay' /\ Files'
  BY <1>1 DEF DataInv, ManifestTrue, UnderWay, Files, Ended
<1>5. Counts'
  BY <1>1, <1>2, SMTT(30) DEF DataInv, DataTypes, NodeType, DiskType, Counts, Lengths, Covered, ThreadPlaces
<1> QED
  BY <1>2, <1>3, <1>4, <1>5 DEF DataInv

LEMMA CheckKeeps ==
  ASSUME DataInv, CheckPair
  PROVE  DataInv'
<1>1. /\ UNCHANGED <<last, odometry_queue_, cloud_queue_, disk, live>>
      /\ node'.odometry = node.odometry /\ node'.cloud = node.cloud
      /\ node'.frame_count = node.frame_count /\ node.at = "checking"
      /\ node'.at \in {"writing", "matching"} /\ node' \in NodeType
  BY ZenonT(30) DEF CheckPair, FramesChecked, Frame, DataInv, DataTypes, NodeType, DiskType, ThreadPlaces
<1>2. DataTypes'
  BY <1>1 DEF DataInv, DataTypes, NodeType, DiskType
<1>3. QueuesUnused' /\ HandsUnused' /\ Whole' /\ FramesTraceable' /\ RecordedOnce'
  BY <1>1, QuietStep DEF OdometryInHand, CloudInHand, Ended
<1>4. ManifestTrue' /\ UnderWay' /\ Files'
  BY <1>1 DEF DataInv, ManifestTrue, UnderWay, Files, Ended
<1>5. Counts'
  BY <1>1, <1>2 DEF DataInv, Counts, Lengths
<1> QED
  BY <1>2, <1>3, <1>4, <1>5 DEF DataInv

LEMMA TakeKeeps ==
  ASSUME DataInv, TakePair
  PROVE  DataInv'
<1>1. PICK c \in DOMAIN cloud_queue_, o \in DOMAIN odometry_queue_ :
       /\ Delta(cloud_queue_[c], odometry_queue_[o]) <= Slop
       /\ node' = [node EXCEPT !.at = "checking", !.odometry = odometry_queue_[o],
                               !.cloud = cloud_queue_[c]]
       /\ odometry_queue_' = WithoutIndex(odometry_queue_, o)
       /\ cloud_queue_' = WithoutIndex(cloud_queue_, c)
  BY DEF TakePair, InSlop
<1>2. odometry_queue_[o] \in Message /\ cloud_queue_[c] \in Message
  BY DEF DataInv, DataTypes, NodeType, DiskType
<1>3. /\ UNCHANGED <<last, disk, live>> /\ node.at = "matching" /\ node'.at = "checking"
      /\ node'.odometry = odometry_queue_[o] /\ node'.cloud = cloud_queue_[c]
      /\ node'.frame_count = node.frame_count
  BY <1>1 DEF TakePair, DataInv, DataTypes, NodeType, DiskType
<1>4. /\ odometry_queue_ \in Seq(Message) /\ cloud_queue_ \in Seq(Message)
      /\ Len(odometry_queue_) <= QueueSize /\ Len(cloud_queue_) <= QueueSize
      /\ last.odometry \in Nat /\ last.cloud \in Nat /\ QueueSize \in Nat
      /\ UsedOdometry \in SUBSET Nat /\ UsedClouds \in SUBSET Nat
      /\ Unused(odometry_queue_, UsedOdometry, last.odometry)
      /\ Unused(cloud_queue_, UsedClouds, last.cloud)
  BY UsedAreNumbers, RecorderAssumption DEF DataInv, DataTypes, NodeType, DiskType, QueuesUnused
<1>5. /\ odometry_queue_' \in Seq(Message) /\ Len(odometry_queue_') <= Len(odometry_queue_)
      /\ Unused(odometry_queue_', UsedOdometry \cup {odometry_queue_[o].stamp}, last.odometry)
  BY <1>1, <1>4, WithoutKeepsUnused
<1>6. /\ cloud_queue_' \in Seq(Message) /\ Len(cloud_queue_') <= Len(cloud_queue_)
      /\ Unused(cloud_queue_', UsedClouds \cup {cloud_queue_[c].stamp}, last.cloud)
  BY <1>1, <1>4, WithoutKeepsUnused
<1>7. DataTypes'
  <2>1. Len(odometry_queue_') <= QueueSize /\ Len(cloud_queue_') <= QueueSize
    BY <1>4, <1>5, <1>6
  <2>2. node' \in NodeType
    BY <1>1, <1>2 DEF DataInv, DataTypes, NodeType, DiskType, ThreadPlaces
  <2> QED
    BY <1>3, <1>5, <1>6, <2>1, <2>2 DEF DataInv, DataTypes, NodeType, DiskType
<1>8. QueuesUnused'
  <2>1. /\ UsedOdometry' = UsedOdometry \cup {odometry_queue_[o].stamp}
        /\ UsedClouds' = UsedClouds \cup {cloud_queue_[c].stamp}
    BY <1>3 DEF UsedOdometry, UsedClouds, OdometryInHand, CloudInHand
  <2> QED
    BY <1>3, <1>5, <1>6, <2>1 DEF QueuesUnused
<1>9. HandsUnused'
  <2>1. odometry_queue_[o].stamp \notin UsedOdometry /\ cloud_queue_[c].stamp \notin UsedClouds
    BY <1>4 DEF Unused
  <2> QED
    BY <1>3, <2>1 DEF HandsUnused, UsedOdometry, UsedClouds
<1>10. Whole' /\ Files'
  BY <1>3 DEF Whole, Files, DataInv, Ended
<1>11. Counts' /\ UnderWay'
  BY <1>1, <1>2, <1>3 DEF Counts, Lengths, UnderWay, DataInv
<1>12. FramesTraceable' /\ RecordedOnce' /\ ManifestTrue'
  BY <1>3 DEF FramesTraceable, RecordedOnce, ManifestTrue, DataInv
<1> QED
  BY <1>7, <1>8, <1>9, <1>10, <1>11, <1>12 DEF DataInv

LEMMA CountKeeps ==
  ASSUME DataInv, CountFrame
  PROVE  DataInv'
<1>1. /\ UNCHANGED <<last, odometry_queue_, cloud_queue_, live>>
      /\ node'.odometry = node.odometry /\ node'.cloud = node.cloud
      /\ node'.frame_count = node.frame_count + 1 /\ node.at = "counting"
      /\ node'.at = "publishing" /\ disk'.rows = disk.rows /\ disk'.pcd = disk.pcd
      /\ disk'.frames = node.frame_count + 1 /\ disk'.manifest = disk.manifest
      /\ disk'.pose = disk.pose /\ node.frame_count \in Nat
  BY DEF CountFrame, DataInv, DataTypes, NodeType, DiskType
<1>2. DataTypes'
  <2>0. node.frame_count + 1 \in Nat
    BY <1>1
  <2>1. node' \in NodeType
    BY <2>0 DEF CountFrame, DataInv, DataTypes, NodeType, DiskType, ThreadPlaces
  <2>2. disk' \in DiskType
    BY <2>0 DEF CountFrame, DataInv, DataTypes, NodeType, DiskType
  <2> QED
    BY <1>1, <2>1, <2>2 DEF DataInv, DataTypes, NodeType, DiskType
<1>3. QueuesUnused' /\ HandsUnused' /\ Whole' /\ FramesTraceable' /\ RecordedOnce'
  BY <1>1, QuietStep DEF OdometryInHand, CloudInHand, Ended
<1>4. Counts' /\ UnderWay'
  BY <1>1 DEF DataInv, Counts, Lengths, UnderWay
<1>5. Files' /\ ManifestTrue'
  BY <1>1 DEF DataInv, Counts, Lengths, ManifestTrue, Files, Ended, EmptyDirectory
<1> QED
  BY <1>2, <1>3, <1>4, <1>5 DEF DataInv

LEMMA CloseKeeps ==
  ASSUME DataInv, ClosePoses \/ Complete
  PROVE  DataInv'
<1>1. /\ UNCHANGED <<last, odometry_queue_, cloud_queue_, live>>
      /\ node'.odometry = node.odometry /\ node'.cloud = node.cloud
      /\ node'.frame_count = node.frame_count /\ node.at \in {"closing", "completing"}
      /\ disk'.rows = disk.rows /\ disk'.pcd = disk.pcd /\ node.frame_count \in Nat
      /\ \/ /\ node'.at = "completing" /\ disk'.pose = "final"
            /\ disk'.manifest = disk.manifest /\ disk'.frames = disk.frames
         \/ /\ node'.at = "down" /\ disk' = disk
         \/ /\ node.at = "completing" /\ node'.at = "down" /\ disk'.pose = disk.pose
            /\ disk'.manifest = "complete" /\ disk'.frames = node.frame_count
  BY DEF ClosePoses, Complete, Goes, DataInv, DataTypes, NodeType, DiskType
<1>2. DataTypes'
  <2>1. node' \in NodeType
    BY ZenonT(30) DEF ClosePoses, Complete, Goes, DataInv, DataTypes, NodeType, DiskType, ThreadPlaces
  <2>2. disk' \in DiskType
    BY DEF ClosePoses, Complete, DataInv, DataTypes, NodeType, DiskType
  <2> QED
    BY <1>1, <2>1, <2>2 DEF DataInv, DataTypes, NodeType, DiskType
<1>3. QueuesUnused' /\ HandsUnused' /\ Whole' /\ FramesTraceable' /\ RecordedOnce'
  BY <1>1, QuietStep DEF OdometryInHand, CloudInHand, Ended
<1>4. Counts' /\ UnderWay'
  BY <1>1 DEF DataInv, Counts, Covered, UnderWay
<1>5. Files'
  BY <1>1 DEF DataInv, Files, Ended, EmptyDirectory
<1>6. ManifestTrue'
  <2>1. Covered /\ disk.manifest = "recording"
    BY <1>1 DEF DataInv, Counts, Files
  <2>2. CASE disk'.manifest = disk.manifest
    BY <1>1, <2>1, <2>2 DEF ManifestTrue, Covered
  <2>3. CASE /\ node.at = "completing" /\ disk'.pose = disk.pose /\ disk'.frames = node.frame_count
    <3>1. /\ disk.pose = "final" /\ node.frame_count <= Len(disk.rows)
          /\ node.frame_count <= Len(disk.pcd)
          /\ \/ Len(disk.rows) = node.frame_count /\ Len(disk.pcd) = node.frame_count
             \/ Torn \in Entries(disk.rows)
      BY <2>3 DEF DataInv, Counts, Files
    <3>2. Torn \in Entries(disk.rows) => \E k \in DOMAIN disk'.rows : disk'.rows[k] = Torn
      BY <1>1 DEF Entries
    <3> QED
      BY <1>1, <2>3, <3>1, <3>2 DEF ManifestTrue
  <2> QED
    BY <1>1, <2>2, <2>3
<1> QED
  BY <1>2, <1>3, <1>4, <1>5, <1>6 DEF DataInv

LEMMA WriteKeeps ==
  ASSUME DataInv, writePcd
  PROVE  DataInv'
<1>1. /\ UNCHANGED <<last, odometry_queue_, cloud_queue_, live>>
      /\ node'.odometry = node.odometry /\ node'.cloud = node.cloud
      /\ node'.frame_count = node.frame_count /\ node.at = "writing"
      /\ node'.at = "appending" /\ disk'.rows = disk.rows /\ disk'.frames = disk.frames
      /\ disk'.manifest = disk.manifest /\ disk'.pose = disk.pose
      /\ node.frame_count \in Nat /\ disk.pcd \in Seq(Nat) /\ disk.rows \in Seq(Nat)
      /\ live \in Seq(Nat)
  BY DEF writePcd, Goes, DataInv, DataTypes, NodeType, DiskType
<1>2. /\ Lengths(node.frame_count, node.frame_count, node.frame_count, node.frame_count)
      /\ node.cloud \in Message /\ node.odometry \in Message
      /\ Delta(node.cloud, node.odometry) <= Slop
      /\ node.cloud.stamp \notin Entries(disk.pcd)
      /\ node.odometry.stamp \notin Entries(disk.rows)
  BY <1>1 DEF DataInv, Counts, UnderWay, HandsUnused, OdometryInHand, CloudInHand
<1>3. node.cloud.stamp \in Nat
  BY <1>2, StampsAreNumbers
<1>4. disk'.pcd = Append(disk.pcd, node.cloud.stamp)
  <2>1. disk'.pcd = [k \in 1..(node.frame_count + 1) |->
                       IF k <= node.frame_count THEN disk.pcd[k] ELSE node.cloud.stamp]
    BY DEF writePcd, DataInv, DataTypes, NodeType, DiskType
  <2> QED
    BY <1>1, <1>2, <1>3, <2>1, WrittenIsAppended DEF Lengths
<1>5. /\ disk'.pcd \in Seq(Nat) /\ Len(disk'.pcd) = node.frame_count + 1
      /\ disk'.pcd[node.frame_count + 1] = node.cloud.stamp
      /\ \A k \in 1..node.frame_count : disk'.pcd[k] = disk.pcd[k]
      /\ Entries(disk'.pcd) = Entries(disk.pcd) \cup {node.cloud.stamp}
      /\ Distinct(disk.pcd) => Distinct(disk'.pcd)
  BY <1>1, <1>2, <1>3, <1>4, AppendedEntries DEF Lengths
<1>6. DataTypes'
  <2>1. node' \in NodeType
    BY DEF writePcd, Goes, DataInv, DataTypes, NodeType, DiskType, ThreadPlaces
  <2>2. disk' \in DiskType
    BY <1>5 DEF writePcd, DataInv, DataTypes, NodeType, DiskType
  <2> QED
    BY <1>1, <2>1, <2>2 DEF DataInv, DataTypes, NodeType, DiskType
<1>7. QueuesUnused'
  <2>1. UsedOdometry' = UsedOdometry /\ UsedClouds' = UsedClouds
    BY <1>1, <1>5 DEF UsedOdometry, UsedClouds, OdometryInHand, CloudInHand
  <2> QED
    BY <1>1, <2>1 DEF DataInv, QueuesUnused
<1>8. HandsUnused' /\ Whole' /\ Files'
  BY <1>1, <1>2 DEF DataInv, HandsUnused, OdometryInHand, CloudInHand, Whole, Ended, Files,
       EmptyDirectory
<1>9. Counts' /\ UnderWay'
  BY <1>1, <1>2, <1>5 DEF Counts, Lengths, UnderWay
<1>10. FramesTraceable'
  <2> SUFFICES ASSUME NEW k \in DOMAIN live
               PROVE  /\ k \in DOMAIN disk'.rows /\ disk'.rows[k] = live[k]
                      /\ k \in DOMAIN disk'.pcd
                      /\ disk'.pcd[k] - live[k] <= Slop /\ live[k] - disk'.pcd[k] <= Slop
    BY <1>1 DEF FramesTraceable
  <2>1. k \in 1..node.frame_count
    BY <1>1, <1>2 DEF Lengths
  <2>2. disk'.rows[k] = disk.rows[k] /\ disk'.pcd[k] = disk.pcd[k]
    BY <1>1, <1>5, <2>1
  <2>3. k \in DOMAIN disk'.rows /\ k \in DOMAIN disk'.pcd
    <3>1. /\ node.frame_count <= Len(disk'.rows) /\ node.frame_count <= Len(disk'.pcd)
          /\ disk'.rows \in Seq(Nat) /\ disk'.pcd \in Seq(Nat)
      <4>1. Len(disk.rows) = node.frame_count
        BY <1>2 DEF Lengths
      <4>2. node.frame_count <= node.frame_count + 1
        BY <1>1
      <4>3. Len(disk'.rows) = node.frame_count /\ disk'.rows \in Seq(Nat)
        BY <1>1, <4>1
      <4> QED
        BY <1>1, <1>5, <4>2, <4>3
    <3> QED
      BY <1>1, <2>1, <3>1, InDomain
  <2> QED
    BY <2>2, <2>3 DEF DataInv, FramesTraceable
<1>11. RecordedOnce' /\ ManifestTrue'
  BY <1>1, <1>2, <1>5 DEF DataInv, RecordedOnce, Distinct, ManifestTrue, Lengths, Files, Ended
<1> QED
  BY <1>6, <1>7, <1>8, <1>9, <1>10, <1>11 DEF DataInv

\* A row with the stamp of the message in hand, or one that was torn.
LEMMA AppendKeeps ==
  ASSUME DataInv, node.at = "appending", NEW stamp \in {node.odometry.stamp, Torn}, 
         Goes(IF stamp = Torn THEN "closing" ELSE "counting"),
         disk' = [disk EXCEPT !.rows = Append(@, stamp)],
         UNCHANGED <<last, odometry_queue_, cloud_queue_, live>>
  PROVE  DataInv'
<1>1. /\ node'.odometry = node.odometry /\ node'.cloud = node.cloud
      /\ node'.frame_count = node.frame_count
      /\ node'.at = IF stamp = Torn THEN "closing" ELSE "counting"
      /\ disk'.rows = Append(disk.rows, stamp) /\ disk'.pcd = disk.pcd
      /\ disk'.manifest = disk.manifest /\ disk'.pose = disk.pose /\ disk'.frames = disk.frames
      /\ node.frame_count \in Nat /\ disk.pcd \in Seq(Nat) /\ disk.rows \in Seq(Nat)
      /\ live \in Seq(Nat)
  BY DEF Goes, DataInv, DataTypes, NodeType, DiskType
<1>2. /\ Lengths(node.frame_count, node.frame_count + 1, node.frame_count, node.frame_count)
      /\ node.cloud \in Message /\ node.odometry \in Message
      /\ Delta(node.cloud, node.odometry) <= Slop
      /\ node.odometry.stamp \notin Entries(disk.rows) /\ Torn \notin Entries(disk.rows)
      /\ disk.pcd[node.frame_count + 1] = node.cloud.stamp
  BY DEF DataInv, Counts, Lengths, UnderWay, HandsUnused, OdometryInHand, Whole, Ended
<1>3. node.odometry.stamp \in Nat /\ node.odometry.stamp # Torn /\ stamp \in Nat
  BY <1>2, StampsAreNumbers DEF Torn
<1>4. /\ disk'.rows \in Seq(Nat) /\ Len(disk'.rows) = node.frame_count + 1
      /\ disk'.rows[node.frame_count + 1] = stamp
      /\ \A k \in 1..node.frame_count : disk'.rows[k] = disk.rows[k]
      /\ Entries(disk'.rows) = Entries(disk.rows) \cup {stamp}
      /\ Distinct(disk.rows) => Distinct(disk'.rows)
  BY <1>1, <1>2, <1>3, AppendedEntries DEF Lengths
<1>5. DataTypes'
  <2>1. node' \in NodeType
    BY DEF Goes, DataInv, DataTypes, NodeType, DiskType, ThreadPlaces
  <2>2. disk' \in DiskType
    BY <1>1, <1>4 DEF DataInv, DataTypes, NodeType, DiskType
  <2> QED
    BY <1>1, <2>1, <2>2 DEF DataInv, DataTypes, NodeType, DiskType
<1>6. QueuesUnused'
  <2>1. CASE stamp = Torn
    <3>1. Unused(odometry_queue_, Entries(disk.rows) \cup {Torn}, last.odometry)
      <4>1. Unused(odometry_queue_, Entries(disk.rows), last.odometry)
        BY FewerUsed DEF DataInv, QueuesUnused, UsedOdometry
      <4>2. \A i \in DOMAIN odometry_queue_ : odometry_queue_[i].stamp # Torn
        <5>1. odometry_queue_ \in Seq(Message)
          BY DEF DataInv, DataTypes
        <5>2. \A i \in 1..Len(odometry_queue_) :
                odometry_queue_[i] \in Message /\ odometry_queue_[i].stamp >= 1
                  /\ odometry_queue_[i].stamp \in Nat
          BY <5>1, StampsAreNumbers
        <5>3. \A k \in Nat : k >= 1 => k # Torn
          BY DEF Torn
        <5> QED
          BY <5>1, <5>2, <5>3
      <4>3. Torn <= last.odometry
        BY RecorderAssumption DEF DataInv, DataTypes, NodeType, DiskType, Torn
      <4> QED
        BY <4>1, <4>2, <4>3 DEF Unused
    <3>2. UsedOdometry' = Entries(disk.rows) \cup {Torn} /\ UsedClouds' = UsedClouds
      BY <1>1, <1>4, <2>1 DEF UsedOdometry, UsedClouds, OdometryInHand, CloudInHand
    <3> QED
      BY <3>1, <3>2 DEF DataInv, QueuesUnused
  <2>2. CASE stamp # Torn
    <3>1. UsedOdometry' = UsedOdometry /\ UsedClouds' = UsedClouds
      BY <1>1, <1>4, <2>2 DEF UsedOdometry, UsedClouds, OdometryInHand, CloudInHand
    <3> QED
      BY <3>1 DEF DataInv, QueuesUnused
  <2> QED
    BY <2>1, <2>2
<1>7. HandsUnused' /\ Files'
  BY <1>1, <1>4 DEF DataInv, HandsUnused, OdometryInHand, CloudInHand, Ended, Files,
       EmptyDirectory
<1>8. Whole'
  BY <1>1, <1>2, <1>4 DEF Whole, Ended
<1>9. Counts'
  BY <1>1, <1>2, <1>4 DEF Counts, Lengths, Covered
<1>10. UnderWay'
  BY <1>1, <1>2, <1>4 DEF UnderWay, Lengths
<1>11. FramesTraceable'
  <2> SUFFICES ASSUME NEW k \in DOMAIN live
               PROVE  /\ k \in DOMAIN disk'.rows /\ disk'.rows[k] = live[k]
                      /\ k \in DOMAIN disk'.pcd
                      /\ disk'.pcd[k] - live[k] <= Slop /\ live[k] - disk'.pcd[k] <= Slop
    BY <1>1 DEF FramesTraceable
  <2>1. k \in 1..node.frame_count
    BY <1>1, <1>2, SMTT(30) DEF Lengths
  <2>2. disk'.rows[k] = disk.rows[k] /\ disk'.pcd[k] = disk.pcd[k]
    BY <1>1, <1>4, <2>1
  <2>3. k \in DOMAIN disk'.rows /\ k \in DOMAIN disk'.pcd
    <3>1. /\ node.frame_count <= Len(disk'.rows) /\ node.frame_count <= Len(disk'.pcd)
          /\ disk'.rows \in Seq(Nat) /\ disk'.pcd \in Seq(Nat)
      BY <1>1, <1>2, <1>4 DEF Lengths
    <3> QED
      BY <1>1, <2>1, <3>1, InDomain
  <2> QED
    BY <2>2, <2>3 DEF DataInv, FramesTraceable
<1>12. RecordedOnce'
  BY <1>1, <1>2, <1>4, SMTT(30) DEF DataInv, RecordedOnce, Distinct
<1>13. ManifestTrue'
  BY <1>1, <1>2, <1>4 DEF DataInv, ManifestTrue, Lengths, Files, Ended
<1> QED
  BY <1>5, <1>6, <1>7, <1>8, <1>9, <1>10, <1>11, <1>12, <1>13 DEF DataInv

LEMMA PublishKeeps ==
  ASSUME DataInv, PublishPose
  PROVE  DataInv'
<1>1. /\ UNCHANGED <<last, odometry_queue_, cloud_queue_, disk>>
      /\ node'.odometry = node.odometry /\ node'.cloud = node.cloud
      /\ node'.frame_count = node.frame_count
      /\ node.at = "publishing" /\ node'.at = "matching"
      /\ live' = Append(live, node.odometry.stamp)
      /\ node.frame_count \in Nat /\ disk.pcd \in Seq(Nat) /\ disk.rows \in Seq(Nat)
      /\ live \in Seq(Nat)
  BY DEF PublishPose, Goes, DataInv, DataTypes, NodeType, DiskType
<1>2. /\ node.frame_count > 0
      /\ Lengths(node.frame_count, node.frame_count, node.frame_count - 1, node.frame_count)
      /\ node.cloud \in Message /\ node.odometry \in Message
      /\ Delta(node.cloud, node.odometry) <= Slop
      /\ disk.pcd[Len(live) + 1] = node.cloud.stamp
      /\ disk.rows[Len(live) + 1] = node.odometry.stamp
  BY <1>1 DEF DataInv, Counts, UnderWay
<1>3. node.odometry.stamp \in Nat /\ node.cloud.stamp \in Nat
  BY <1>2, StampsAreNumbers
<1>4. /\ live' \in Seq(Nat) /\ Len(live') = Len(live) + 1 /\ Len(live') = node.frame_count
      /\ live'[Len(live) + 1] = node.odometry.stamp
      /\ \A k \in 1..Len(live) : live'[k] = live[k]
  <2>1. Len(live) + 1 = node.frame_count
    BY <1>1, <1>2 DEF Lengths
  <2> QED
    BY <1>1, <1>3, <2>1, AppendedEntries
<1>5. DataTypes'
  <2>1. node' \in NodeType
    BY DEF PublishPose, Goes, DataInv, DataTypes, NodeType, DiskType, ThreadPlaces
  <2> QED
    BY <1>1, <1>4, <2>1 DEF DataInv, DataTypes, NodeType, DiskType
<1>6. QueuesUnused' /\ HandsUnused' /\ Whole'
  <2>1. UsedOdometry' = UsedOdometry /\ UsedClouds' = UsedClouds
    BY <1>1 DEF UsedOdometry, UsedClouds, OdometryInHand, CloudInHand
  <2> QED
    BY <1>1, <2>1 DEF DataInv, QueuesUnused, HandsUnused, OdometryInHand, CloudInHand, Whole, Ended
<1>7. Counts'
  BY <1>1, <1>2, <1>4 DEF Counts, Lengths
<1>8. UnderWay' /\ Files' /\ RecordedOnce' /\ ManifestTrue'
  <2>1. disk # EmptyDirectory
    BY <1>1 DEF DataInv, Files, Ended, EmptyDirectory
  <2> QED
    BY <1>1, <2>1 DEF DataInv, UnderWay, Files, RecordedOnce, ManifestTrue, Ended
<1>9. FramesTraceable'
  <2> SUFFICES ASSUME NEW k \in 1..node.frame_count
               PROVE  /\ k \in DOMAIN disk.rows /\ disk.rows[k] = live'[k]
                      /\ k \in DOMAIN disk.pcd
                      /\ disk.pcd[k] - live'[k] <= Slop /\ live'[k] - disk.pcd[k] <= Slop
    <3>1. DOMAIN live' = 1..node.frame_count
      BY <1>4
    <3> QED
      BY <1>1, <3>1 DEF FramesTraceable
  <2>1. k \in DOMAIN disk.rows /\ k \in DOMAIN disk.pcd
    BY <1>1, <1>2, SMTT(30) DEF Lengths
  <2>2. CASE k \in 1..Len(live)
    BY <1>4, <2>1, <2>2 DEF DataInv, FramesTraceable
  <2>3. CASE k = Len(live) + 1
    BY <1>2, <1>3, <1>4, <2>1, <2>3, RecorderAssumption DEF Delta
  <2> QED
    BY <1>1, <1>4, <2>2, <2>3
<1> QED
  BY <1>5, <1>6, <1>7, <1>8, <1>9 DEF DataInv

LEMMA ThrowKeeps ==
  ASSUME DataInv, WriteThrows
  PROVE  DataInv'
<1>1. CASE node.at = "appending"
  <2>1. Goes("closing") /\ disk' = [disk EXCEPT !.rows = Append(@, Torn)]
        /\ UNCHANGED <<last, odometry_queue_, cloud_queue_, live>>
    BY <1>1 DEF WriteThrows
  <2> QED
    BY <1>1, <2>1, AppendKeeps
<1>2. CASE node.at \in {"writing", "counting"}
  <2>1. /\ UNCHANGED <<last, odometry_queue_, cloud_queue_, disk, live>>
        /\ node'.odometry = node.odometry /\ node'.cloud = node.cloud
        /\ node.frame_count \in Nat /\ node'.frame_count \in Nat
        /\ node'.at = "closing"
        /\ node.at = "writing" => node'.frame_count = node.frame_count
        /\ node.at = "counting" => node'.frame_count = node.frame_count + 1
        /\ node'.odom_frame = node.odom_frame /\ node'.cloud_frame = node.cloud_frame
    <3>1. CASE node.at = "writing"
      <4>1. Goes("closing") /\ UNCHANGED <<last, odometry_queue_, cloud_queue_, disk, live>>
        BY <3>1 DEF WriteThrows
      <4> QED
        BY <3>1, <4>1 DEF Goes, DataInv, DataTypes, NodeType, DiskType
    <3>2. CASE node.at = "counting"
      <4>1. node' = [node EXCEPT !.at = "closing", !.frame_count = @ + 1]
            /\ UNCHANGED <<last, odometry_queue_, cloud_queue_, disk, live>>
        BY <3>2 DEF WriteThrows
      <4> QED
        BY <3>2, <4>1 DEF DataInv, DataTypes, NodeType, DiskType
    <3> QED
      BY <1>2, <3>1, <3>2
  <2>2. DataTypes'
    <3>1. node' = [node EXCEPT !.at = "closing", !.frame_count = node'.frame_count]
      BY <1>2, <2>1 DEF WriteThrows, Goes, DataInv, DataTypes, NodeType, DiskType
    <3>2. node' \in NodeType
      BY <2>1, <3>1 DEF DataInv, DataTypes, NodeType, DiskType, ThreadPlaces
    <3> QED
      BY <2>1, <3>2 DEF DataInv, DataTypes, NodeType, DiskType
  <2>3. QueuesUnused' /\ HandsUnused' /\ Whole' /\ FramesTraceable' /\ RecordedOnce'
    BY <1>2, <2>1, QuietStep DEF OdometryInHand, CloudInHand, Ended
  <2>4. ManifestTrue' /\ UnderWay' /\ Files'
    BY <1>2, <2>1 DEF DataInv, ManifestTrue, UnderWay, Files, Ended
  <2>5. Counts'
    BY <1>2, <2>1 DEF DataInv, Counts, Lengths, Covered
  <2> QED
    BY <2>2, <2>3, <2>4, <2>5 DEF DataInv
<1> QED
  BY <1>1, <1>2 DEF WriteThrows

-----------------------------------------------------------------------------
LEMMA DataStep ==
  ASSUME DataInv, [DataNext]_recorderVars
  PROVE  DataInv'
<1>1. CASE AppendRow
  <2>1. node.odometry.stamp # Torn
    BY <1>1, StampsAreNumbers DEF AppendRow, DataInv, UnderWay, Torn
  <2> QED
    BY <1>1, <2>1, AppendKeeps DEF AppendRow
<1>2. CASE UNCHANGED recorderVars
  BY <1>2 DEF recorderVars, DataInv, DataTypes, NodeType, DiskType, QueuesUnused, UsedOdometry, UsedClouds,
       HandsUnused, OdometryInHand, CloudInHand, Whole, Counts, Lengths, Covered, UnderWay,
       Files, FramesTraceable, RecordedOnce, ManifestTrue
<1> QED
  BY <1>1, <1>2, StartKeeps, OdometryKeeps, CloudKeeps, MoveKeeps, TakeKeeps, CheckKeeps,
     WriteKeeps, CountKeeps, PublishKeeps, ThrowKeeps, CloseKeeps DEF DataNext

LEMMA DataStart == DataInit => DataInv
<1> SUFFICES ASSUME DataInit PROVE DataInv
  OBVIOUS
<1>1. /\ node.at = "down" /\ node.frame_count = 0 /\ disk = EmptyDirectory /\ live = <<>>
      /\ disk.rows = <<>> /\ disk.pcd = <<>> /\ disk.frames = 0 /\ disk.manifest = "none"
      /\ odometry_queue_ = <<>> /\ cloud_queue_ = <<>>
      /\ last = [odometry |-> 0, cloud |-> 0]
  BY DEF DataInit, NewNode, EmptyDirectory
<1>2. DataTypes
  <2>1. node \in NodeType
    BY DEF DataInit, NewNode, NodeType, ThreadPlaces
  <2>2. disk \in DiskType
    BY DEF DataInit, EmptyDirectory, DiskType
  <2> QED
    BY <1>1, <2>1, <2>2, RecorderAssumption DEF DataTypes, NodeType, DiskType
<1>3. UsedOdometry = {} /\ UsedClouds = {}
  BY <1>1 DEF UsedOdometry, UsedClouds, OdometryInHand, CloudInHand, Entries
<1>4. QueuesUnused /\ HandsUnused /\ Whole
  BY <1>1, <1>3 DEF QueuesUnused, Unused, HandsUnused, OdometryInHand, CloudInHand, Whole, Ended
<1>5. Counts /\ UnderWay /\ Files
  BY <1>1 DEF Counts, Covered, UnderWay, Files, Ended
<1>6. FramesTraceable /\ RecordedOnce /\ ManifestTrue
  BY <1>1 DEF FramesTraceable, RecordedOnce, ManifestTrue
<1> QED
  BY <1>2, <1>4, <1>5, <1>6 DEF DataInv

\* Whatever is sent, wherever a write fails or the node is killed: every pose that
\* was published can be traced to its row and its cloud, no message is recorded twice,
\* and the manifest counts what is on disk (recordPair, writeManifest, finalize).
THEOREM DataCorrect == DataSpec => []DataSafe
<1>1. DataInv => DataSafe
  BY DEF DataInv, DataTypes, NodeType, DiskType, DataSafe, RecorderTypeOK
<1> QED
  BY <1>1, DataStart, DataStep, PTL DEF DataSpec

-----------------------------------------------------------------------------
(* The editor: the documents of a session *)

-----------------------------------------------------------------------------
(* The inductive invariant *)

Ids == 1 .. MaxId
Forms == Attributes \cup {0}
Points == [at : Nat, attr : Forms]
Lines == [ends : Nat \X Nat, weight : Nat, attr : Forms]

\* Elements by their ids.
ById(R) == UNION {[S -> R] : S \in SUBSET Ids}

Measured(d) ==
  \A i \in DOMAIN d.e : d.e[i].weight = Length(d.v, d.e[i].ends[1], d.e[i].ends[2])

Good == {d \in [version : Nat, v : ById(Points), e : ById(Lines)] :
           Valid(d) /\ Measured(d) /\ JoinedOnce(d.e)}

\* Every document is good, and what is selected is there when a file is loaded.
EditorInv ==
  /\ document \in Good /\ file \in Good
  /\ undos \in Seq(Good) /\ redos \in Seq(Good)
  /\ kind \in {"vertices", "edges"}
  /\ Ready => selected \in Elements(document, kind) \cup {0}

-----------------------------------------------------------------------------
(* Ids *)

\* A set of numbers that is not empty has a least one.
LEMMA LeastId ==
  ASSUME NEW S \in SUBSET Nat, S # {}
  PROVE  \E m \in S : \A k \in S : m <= k
<1>1. IsWellFoundedOn(OpToRel(<, Nat), Nat)
  BY NatLessThanWellFounded
<1>2. PICK m \in S : \A k \in S : ~ (<<k, m>> \in OpToRel(<, Nat))
  BY <1>1, WFMin
<1>3. \A k \in S : ~ (k < m)
  BY <1>2 DEF OpToRel
<1> QED  BY <1>3

LEMMA MinIsThere ==
  ASSUME NEW S \in SUBSET Nat, S # {}
  PROVE  Min(S) \in S
<1>1. \E m \in S : \A k \in S : m =< k
  BY LeastId
<1> QED  BY <1>1 DEF Min

\* The greatest id is the one that lies least below the bound.
LEMMA MaxIsThere ==
  ASSUME NEW S \in SUBSET Ids, S # {}
  PROVE  Max(S) \in S /\ \A k \in S : k <= Max(S)
<1> DEFINE below == {MaxId - k : k \in S}
<1>1. MaxId \in Nat
  BY EditorAssumption
<1>2. below \in SUBSET Nat /\ below # {}
  <2>1. \A k \in S : k \in Nat /\ MaxId - k \in Nat
    BY <1>1 DEF Ids
  <2> QED  BY <2>1
<1>3. PICK m \in below : \A n \in below : m <= n
  BY <1>2, LeastId
<1>4. PICK k \in S : m = MaxId - k
  BY <1>3
<1>5. \A l \in S : k >= l
  <2>1. \A l \in S : l \in Nat /\ MaxId - k <= MaxId - l
    BY <1>1, <1>3, <1>4 DEF Ids
  <2> QED  BY <1>1, <2>1
<1>6. \E x \in S : \A y \in S : x >= y
  BY <1>5
<1>7. Max(S) \in S /\ \A y \in S : Max(S) >= y
  BY <1>6 DEF Max
<1> QED  BY <1>1, <1>7 DEF Ids

\* nextId() is a number that no element has.
LEMMA NextIdIsNew ==
  ASSUME NEW S \in SUBSET Ids
  PROVE  nextId(S) \in Nat \ {0} /\ nextId(S) \notin S
<1>1. CASE S = {}
  BY <1>1 DEF nextId
<1>2. CASE S # {}
  <2>1. Max(S) \in S /\ \A k \in S : k <= Max(S)
    BY <1>2, MaxIsThere
  <2>2. Max(S) \in Nat \ {0} /\ \A k \in S : k \in Nat
    <3>1. \A k \in Ids : k \in Nat \ {0}
      BY DEF Ids
    <3> HIDE DEF Ids
    <3> QED  BY <2>1, <3>1
  <2> HIDE DEF Ids
  <2>3. nextId(S) = 1 + Max(S)
    BY <1>2 DEF nextId
  <2> QED  BY <2>1, <2>2, <2>3
<1> QED  BY <1>1, <1>2

-----------------------------------------------------------------------------
(* Good documents *)

LEMMA LengthType ==
  ASSUME NEW v, NEW a, NEW b, v[a].at \in Nat, v[b].at \in Nat
  PROVE  Length(v, a, b) \in Nat
BY DEF Length

\* What a good document consists of.
LEMMA GoodParts ==
  ASSUME NEW d \in Good
  PROVE  /\ d = [version |-> d.version, v |-> d.v, e |-> d.e] /\ d.version \in Nat
         /\ DOMAIN d.v \in SUBSET Ids /\ d.v \in [DOMAIN d.v -> Points] /\ DOMAIN d.v # {}
         /\ DOMAIN d.e \in SUBSET Ids /\ d.e \in [DOMAIN d.e -> Lines]
         /\ \A i \in DOMAIN d.e :
              /\ d.e[i].ends[1] # d.e[i].ends[2]
              /\ d.e[i].ends[1] \in DOMAIN d.v /\ d.e[i].ends[2] \in DOMAIN d.v
              /\ d.e[i].weight = Length(d.v, d.e[i].ends[1], d.e[i].ends[2])
         /\ JoinedOnce(d.e)
<1>1. /\ d \in [version : Nat, v : ById(Points), e : ById(Lines)]
      /\ Valid(d) /\ Measured(d) /\ JoinedOnce(d.e)
  BY DEF Good
<1>2. /\ d.v \in ById(Points) /\ d.e \in ById(Lines) /\ d.version \in Nat
      /\ d = [version |-> d.version, v |-> d.v, e |-> d.e]
  BY <1>1
<1>3. PICK S \in SUBSET Ids : d.v \in [S -> Points]
  BY <1>2 DEF ById
<1>4. PICK T \in SUBSET Ids : d.e \in [T -> Lines]
  BY <1>2 DEF ById
<1>5. DOMAIN d.v = S /\ DOMAIN d.e = T
  BY <1>3, <1>4
<1> QED  BY <1>1, <1>2, <1>3, <1>4, <1>5 DEF Valid, Measured

\* And what makes one.
LEMMA MakeGood ==
  ASSUME NEW n \in Nat, NEW v, NEW e, NEW S \in SUBSET Ids, NEW T \in SUBSET Ids,
         v \in [S -> Points], e \in [T -> Lines], S # {},
         \A i \in T :
           /\ e[i].ends[1] # e[i].ends[2] /\ e[i].ends[1] \in S /\ e[i].ends[2] \in S
           /\ e[i].weight = Length(v, e[i].ends[1], e[i].ends[2]),
         JoinedOnce(e)
  PROVE  [version |-> n, v |-> v, e |-> e] \in Good
<1> DEFINE d == [version |-> n, v |-> v, e |-> e]
<1>1. d.v = v /\ d.e = e /\ DOMAIN v = S /\ DOMAIN e = T
  OBVIOUS
<1>2. v \in ById(Points) /\ e \in ById(Lines)
  BY DEF ById
<1>3. d \in [version : Nat, v : ById(Points), e : ById(Lines)]
  BY <1>2
<1>4. \A i \in T : e[i].weight >= 0
  <2>1. \A i \in T : e[i].weight \in Nat
    BY DEF Lines
  <2> QED  BY <2>1
<1> HIDE DEF d
<1>5. Valid(d)
  BY <1>1, <1>4 DEF Valid
<1>6. Measured(d)
  BY <1>1 DEF Measured
<1> QED  BY <1>1, <1>3, <1>5, <1>6 DEF Good, d

\* Edges that keep their ends, or go, join no two vertices twice.
LEMMA JoinedStays ==
  ASSUME NEW e, NEW f, JoinedOnce(e), DOMAIN f \subseteq DOMAIN e,
         \A i \in DOMAIN f : f[i].ends = e[i].ends
  PROVE  JoinedOnce(f)
BY DEF JoinedOnce

\* The forms change no place, no end and no weight.
LEMMA VerticesPainted ==
  ASSUME NEW d \in Good, NEW v \in [DOMAIN d.v -> Points],
         \A i \in DOMAIN d.v : v[i].at = d.v[i].at
  PROVE  [d EXCEPT !.v = v] \in Good
<1>1. [d EXCEPT !.v = v] = [version |-> d.version, v |-> v, e |-> d.e]
  BY GoodParts
<1>2. \A i \in DOMAIN d.e :
        Length(v, d.e[i].ends[1], d.e[i].ends[2]) = Length(d.v, d.e[i].ends[1], d.e[i].ends[2])
  BY GoodParts DEF Length
<1> QED  BY <1>1, <1>2, GoodParts, MakeGood

LEMMA EdgesPainted ==
  ASSUME NEW d \in Good, NEW e \in [DOMAIN d.e -> Lines],
         \A i \in DOMAIN d.e : e[i].ends = d.e[i].ends /\ e[i].weight = d.e[i].weight
  PROVE  [d EXCEPT !.e = e] \in Good
<1>1. [d EXCEPT !.e = e] = [version |-> d.version, v |-> d.v, e |-> e]
  BY GoodParts
<1>2. JoinedOnce(e)
  BY GoodParts, JoinedStays
<1> QED  BY <1>1, <1>2, GoodParts, MakeGood

-----------------------------------------------------------------------------
(* What the operations of TopologyDocument keep *)

\* A vertex that is moved takes the weights of its edges with it.
LEMMA MovedGood ==
  ASSUME NEW d \in Good, NEW id \in DOMAIN d.v, NEW at \in Nat
  PROVE  LET m == recomputeIncidentWeights([d EXCEPT !.v[id].at = at], id)
         IN  /\ m \in Good /\ m.version = d.version
             /\ DOMAIN m.v = DOMAIN d.v /\ DOMAIN m.e = DOMAIN d.e
<1> DEFINE v == [d.v EXCEPT ![id].at = at]
           c == [d EXCEPT !.v[id].at = at]
           length(i) == Length(v, d.e[i].ends[1], d.e[i].ends[2])
           e == [i \in DOMAIN d.e |->
                   IF i \in IncidentEdges(d, id) THEN [d.e[i] EXCEPT !.weight = length(i)]
                   ELSE d.e[i]]
<1>1. /\ c = [version |-> d.version, v |-> v, e |-> d.e] /\ c.v = v /\ c.e = d.e
      /\ d.version \in Nat
  BY GoodParts
<1>2. IncidentEdges(c, id) = IncidentEdges(d, id)
  BY <1>1 DEF IncidentEdges
<1>3. recomputeIncidentWeights(c, id) = [c EXCEPT !.e = e]
  BY <1>1, <1>2 DEF recomputeIncidentWeights
<1>4. recomputeIncidentWeights(c, id) = [version |-> d.version, v |-> v, e |-> e]
  BY <1>1, <1>3
<1>5. v \in [DOMAIN d.v -> Points] /\ \A a \in DOMAIN d.v \ {id} : v[a] = d.v[a]
  BY GoodParts DEF Points
<1>6. ASSUME NEW i \in DOMAIN d.e
      PROVE  /\ d.e[i] \in Lines /\ length(i) \in Nat
             /\ i \notin IncidentEdges(d, id) => length(i) = d.e[i].weight
  <2>1. d.e[i] \in Lines /\ d.e[i].ends[1] \in DOMAIN d.v /\ d.e[i].ends[2] \in DOMAIN d.v
    BY GoodParts
  <2>2. \A a \in DOMAIN d.v : v[a].at \in Nat
    BY <1>5 DEF Points
  <2>3. length(i) \in Nat
    BY <2>1, <2>2, LengthType
  <2>4. ASSUME i \notin IncidentEdges(d, id) PROVE length(i) = d.e[i].weight
    <3>1. d.e[i].ends[1] # id /\ d.e[i].ends[2] # id
      BY <2>4 DEF IncidentEdges
    <3> HIDE DEF v
    <3>2. v[d.e[i].ends[1]] = d.v[d.e[i].ends[1]] /\ v[d.e[i].ends[2]] = d.v[d.e[i].ends[2]]
      BY <1>5, <2>1, <3>1
    <3>3. length(i) = Length(d.v, d.e[i].ends[1], d.e[i].ends[2])
      BY <3>2 DEF Length
    <3> QED  BY <3>3, GoodParts
  <2> QED  BY <2>1, <2>3, <2>4
<1> HIDE DEF length, v, c
<1>7. \A i \in DOMAIN d.e : e[i].ends = d.e[i].ends /\ e[i].weight = length(i)
  BY <1>6 DEF Lines
<1>8. e \in [DOMAIN d.e -> Lines]
  BY <1>6 DEF Lines
<1> HIDE DEF e
<1>9. [version |-> d.version, v |-> v, e |-> e] \in Good
  <2>1. \A i \in DOMAIN d.e : e[i].weight = Length(v, e[i].ends[1], e[i].ends[2])
    BY <1>7 DEF length
  <2>2. \A i \in DOMAIN d.e :
          /\ e[i].ends[1] # e[i].ends[2]
          /\ e[i].ends[1] \in DOMAIN d.v /\ e[i].ends[2] \in DOMAIN d.v
    BY <1>7, GoodParts
  <2>3. DOMAIN d.v \in SUBSET Ids /\ DOMAIN d.e \in SUBSET Ids /\ DOMAIN d.v # {}
    BY GoodParts
  <2>4. JoinedOnce(e)
    <3>1. DOMAIN e = DOMAIN d.e
      BY <1>8
    <3> QED  BY <1>7, <3>1, GoodParts, JoinedStays
  <2> QED  BY <1>1, <1>5, <1>8, <2>1, <2>2, <2>3, <2>4, MakeGood
<1>10. DOMAIN v = DOMAIN d.v /\ DOMAIN e = DOMAIN d.e
  BY <1>5, <1>8
<1> QED  BY <1>4, <1>9, <1>10 DEF c

\* A new vertex has no edges, and no id that is taken.
LEMMA VertexAddedGood ==
  ASSUME NEW d \in Good, NEW at \in Nat, nextId(DOMAIN d.v) <= MaxId
  PROVE  /\ addVertex(d, at) \in Good /\ addVertex(d, at).version = d.version
         /\ nextId(DOMAIN d.v) \in DOMAIN addVertex(d, at).v
<1> DEFINE n == nextId(DOMAIN d.v)
           S == DOMAIN d.v \cup {n}
           v == [j \in S |-> IF j = n THEN [at |-> at, attr |-> 0] ELSE d.v[j]]
<1>1. addVertex(d, at) = [version |-> d.version, v |-> v, e |-> d.e]
  BY GoodParts DEF addVertex, With
<1>2. n \in Nat \ {0} /\ n \notin DOMAIN d.v
  BY NextIdIsNew, GoodParts
<1> HIDE DEF n
<1>3. n \in Ids
  BY <1>2, EditorAssumption DEF Ids, n
<1>4. S \in SUBSET Ids /\ v \in [S -> Points]
  BY <1>3, GoodParts DEF Points, Forms
<1>5. \A a \in DOMAIN d.v : v[a] = d.v[a]
  BY <1>2
<1> HIDE DEF v
<1>6. ASSUME NEW i \in DOMAIN d.e
      PROVE  /\ d.e[i].ends[1] \in S /\ d.e[i].ends[2] \in S
             /\ d.e[i].weight = Length(v, d.e[i].ends[1], d.e[i].ends[2])
  <2>1. /\ d.e[i].ends[1] \in DOMAIN d.v /\ d.e[i].ends[2] \in DOMAIN d.v
        /\ d.e[i].weight = Length(d.v, d.e[i].ends[1], d.e[i].ends[2])
    BY GoodParts, SMTT(30)
  <2>2. /\ v[d.e[i].ends[1]] = d.v[d.e[i].ends[1]]
        /\ v[d.e[i].ends[2]] = d.v[d.e[i].ends[2]]
    BY <1>5, <2>1
  <2>3. Length(v, d.e[i].ends[1], d.e[i].ends[2]) = Length(d.v, d.e[i].ends[1], d.e[i].ends[2])
    BY <2>2 DEF Length
  <2> QED  BY <2>1, <2>3
<1>7. [version |-> d.version, v |-> v, e |-> d.e] \in Good
  BY <1>4, <1>6, GoodParts, MakeGood
<1>8. DOMAIN v = S
  BY <1>4
<1> QED  BY <1>1, <1>7, <1>8 DEF n

\* A new edge joins two vertices that are there, and has their distance.
LEMMA EdgeAddedGood ==
  ASSUME NEW d \in Good, NEW a \in DOMAIN d.v, NEW b \in DOMAIN d.v, a # b,
         \A i \in DOMAIN d.e : {d.e[i].ends[1], d.e[i].ends[2]} # {a, b},
         nextId(DOMAIN d.e) <= MaxId
  PROVE  /\ addEdge(d, a, b) \in Good /\ addEdge(d, a, b).version = d.version
         /\ nextId(DOMAIN d.e) \in DOMAIN addEdge(d, a, b).e
<1> DEFINE n == nextId(DOMAIN d.e)
           T == DOMAIN d.e \cup {n}
           new == [ends |-> <<a, b>>, weight |-> Length(d.v, a, b), attr |-> 0]
           e == [j \in T |-> IF j = n THEN new ELSE d.e[j]]
<1>1. addEdge(d, a, b) = [version |-> d.version, v |-> d.v, e |-> e]
  <2>1. addEdge(d, a, b) = [d EXCEPT !.e = With(d.e, n, new)]
    BY DEF addEdge
  <2>2. With(d.e, n, new) = e
    BY DEF With
  <2> HIDE DEF new, e
  <2> QED  BY <2>1, <2>2, GoodParts
<1>2. n \in Nat \ {0} /\ n \notin DOMAIN d.e
  BY NextIdIsNew, GoodParts
<1> HIDE DEF n
<1>3. n \in Ids
  BY <1>2, EditorAssumption DEF Ids, n
<1>4. new \in Lines
  <2>1. d.v[a].at \in Nat /\ d.v[b].at \in Nat
    BY GoodParts DEF Points
  <2>2. Length(d.v, a, b) \in Nat
    BY <2>1, LengthType
  <2>3. a \in Nat /\ b \in Nat
    BY GoodParts DEF Ids
  <2> QED  BY <2>2, <2>3 DEF Lines, Forms
<1>5. T \in SUBSET Ids /\ e \in [T -> Lines]
  BY <1>3, <1>4, GoodParts
<1>6. new.ends[1] = a /\ new.ends[2] = b /\ new.weight = Length(d.v, a, b)
  OBVIOUS
<1> HIDE DEF new
<1>7. \A i \in T :
        /\ e[i].ends[1] # e[i].ends[2]
        /\ e[i].ends[1] \in DOMAIN d.v /\ e[i].ends[2] \in DOMAIN d.v
        /\ e[i].weight = Length(d.v, e[i].ends[1], e[i].ends[2])
  BY <1>6, GoodParts
<1>8. JoinedOnce(e)
  <2>1. DOMAIN e = T /\ e[n] = new /\ \A i \in DOMAIN d.e : e[i] = d.e[i]
    BY <1>2
  <2> HIDE DEF e
  <2>2. ASSUME NEW i \in T, NEW j \in T,
               {e[i].ends[1], e[i].ends[2]} = {e[j].ends[1], e[j].ends[2]}
        PROVE  i = j
    <3>1. CASE i \in DOMAIN d.e /\ j \in DOMAIN d.e
      BY <2>1, <2>2, <3>1, GoodParts DEF JoinedOnce
    <3>2. CASE i = n \/ j = n
      BY <1>6, <2>1, <2>2, <3>2
    <3> QED  BY <3>1, <3>2
  <2> QED  BY <2>1, <2>2 DEF JoinedOnce
<1> HIDE DEF e
<1>9. [version |-> d.version, v |-> d.v, e |-> e] \in Good
  BY <1>5, <1>7, <1>8, GoodParts, MakeGood
<1>10. DOMAIN e = T
  BY <1>5
<1> QED  BY <1>1, <1>9, <1>10 DEF n

\* The edges of a vertex go with it.
LEMMA VertexRemovedGood ==
  ASSUME NEW d \in Good, NEW id \in DOMAIN d.v, Cardinality(DOMAIN d.v) > 1
  PROVE  removeVertex(d, id) \in Good /\ removeVertex(d, id).version = d.version
<1> DEFINE S == DOMAIN d.v \ {id}
           T == DOMAIN d.e \ IncidentEdges(d, id)
           v == [j \in S |-> d.v[j]]
           e == [j \in T |-> d.e[j]]
<1>1. removeVertex(d, id) = [version |-> d.version, v |-> v, e |-> e]
  <2>1. v = Without(d.v, {id}) /\ e = Without(d.e, IncidentEdges(d, id))
    BY DEF Without
  <2> HIDE DEF v, e
  <2>2. removeVertex(d, id) = [d EXCEPT !.v = v, !.e = e]
    BY <2>1 DEF removeVertex
  <2> QED  BY <2>2, GoodParts
<1>2. S # {}
  <2>1. ASSUME S = {} PROVE FALSE
    <3>1. DOMAIN d.v = {id}
      BY <2>1
    <3>2. Cardinality(DOMAIN d.v) = 1
      BY <3>1, FS_Singleton
    <3> QED  BY <3>2
  <2> QED  BY <2>1
<1>3. S \in SUBSET Ids /\ T \in SUBSET Ids /\ v \in [S -> Points] /\ e \in [T -> Lines]
  BY GoodParts
<1>4. ASSUME NEW i \in T
      PROVE  /\ e[i].ends[1] # e[i].ends[2] /\ e[i].ends[1] \in S /\ e[i].ends[2] \in S
             /\ e[i].weight = Length(v, e[i].ends[1], e[i].ends[2])
  <2>1. e[i] = d.e[i]
    OBVIOUS
  <2>2. e[i].ends[1] \in S /\ e[i].ends[2] \in S
    BY <2>1, GoodParts DEF IncidentEdges
  <2>3. \A a \in S : v[a] = d.v[a]
    OBVIOUS
  <2> HIDE DEF e, v
  <2>4. /\ d.e[i].ends[1] # d.e[i].ends[2]
        /\ d.e[i].weight = Length(d.v, d.e[i].ends[1], d.e[i].ends[2])
    BY GoodParts
  <2>5. Length(v, d.e[i].ends[1], d.e[i].ends[2]) = Length(d.v, d.e[i].ends[1], d.e[i].ends[2])
    BY <2>1, <2>2, <2>3 DEF Length
  <2> QED  BY <2>1, <2>2, <2>4, <2>5
<1>5. JoinedOnce(e)
  BY GoodParts, JoinedStays
<1> HIDE DEF v, e
<1>6. [version |-> d.version, v |-> v, e |-> e] \in Good
  <2>1. d.version \in Nat
    BY GoodParts
  <2> QED  BY <1>2, <1>3, <1>4, <1>5, <2>1, MakeGood
<1> QED  BY <1>1, <1>6

LEMMA EdgeRemovedGood ==
  ASSUME NEW d \in Good, NEW id
  PROVE  removeEdge(d, id) \in Good /\ removeEdge(d, id).version = d.version
<1> DEFINE T == DOMAIN d.e \ {id}
           e == [j \in T |-> d.e[j]]
<1>1. removeEdge(d, id) = [version |-> d.version, v |-> d.v, e |-> e]
  BY GoodParts DEF removeEdge, Without
<1>2. T \in SUBSET Ids /\ e \in [T -> Lines] /\ \A i \in T : e[i] = d.e[i]
  BY GoodParts
<1>3. JoinedOnce(e)
  BY GoodParts, JoinedStays
<1> HIDE DEF e
<1>4. [version |-> d.version, v |-> d.v, e |-> e] \in Good
  BY <1>2, <1>3, GoodParts, MakeGood
<1> QED  BY <1>1, <1>4

-----------------------------------------------------------------------------
(* What the panel keeps *)

\* The new half of the invariant: documents and stacks, and the selection.
Kept == document' \in Good /\ undos' \in Seq(Good) /\ redos' \in Seq(Good)
Chosen == kind' \in {"vertices", "edges"} /\ selected' \in Elements(document', kind') \cup {0}

\* The document before an edit, or before a delete that fails, on the undo stack.
LEMMA RememberKeeps ==
  ASSUME EditorInv, Remember
  PROVE  undos' \in Seq(Good) /\ redos' \in Seq(Good)
<1>1. /\ redos' = <<>> /\ undos' = Keep(Append(undos, document))
      /\ document \in Good /\ undos \in Seq(Good)
  BY DEF Remember, EditorInv
<1>2. Append(undos, document) \in Seq(Good) /\ Append(undos, document) # <<>>
  BY <1>1, AppendProperties
<1>3. Keep(Append(undos, document)) \in Seq(Good)
  BY <1>2, HeadTailProperties DEF Keep
<1>4. redos' \in Seq(Good)
  BY <1>1, EmptySeq
<1> QED  BY <1>1, <1>3, <1>4

\* An edit to a good document.
LEMMA CommitKeeps ==
  ASSUME EditorInv, NEW d \in Good, Commit(d)
  PROVE  /\ Kept
         /\ document'.v = d.v /\ document'.e = d.e /\ document'.version = d.version + 1
<1>1. document' = [d EXCEPT !.version = @ + 1] /\ Remember
  BY DEF Commit
<1>2. document' = [version |-> d.version + 1, v |-> d.v, e |-> d.e] /\ d.version \in Nat
  BY <1>1, GoodParts
<1>3. [version |-> d.version + 1, v |-> d.v, e |-> d.e] \in Good
  <2>1. d.version + 1 \in Nat
    BY <1>2
  <2> QED  BY <2>1, GoodParts, MakeGood
<1> QED  BY <1>1, <1>2, <1>3, RememberKeeps DEF Kept

\* populateSelection() selects an element that is there, or none.
LEMMA PopulateChooses ==
  ASSUME NEW d \in Good, NEW page \in {"vertices", "edges"}, NEW preferred,
         populateSelection(d, page, preferred)
  PROVE  kind' = page /\ selected' \in Elements(d, page) \cup {0}
<1> DEFINE ids == Elements(d, page)
<1>1. ids \in SUBSET Nat
  <2>1. ids \in SUBSET Ids
    BY GoodParts DEF Elements
  <2> QED  BY <2>1 DEF Ids
<1>2. ids # {} => Min(ids) \in ids
  BY <1>1, MinIsThere
<1>3. /\ kind' = page
      /\ selected' = IF preferred \in ids THEN preferred
                     ELSE IF ids = {} THEN 0 ELSE Min(ids)
  BY DEF populateSelection
<1> HIDE DEF ids
<1>4. selected' \in ids \cup {0}
  BY <1>2, <1>3
<1> QED  BY <1>3, <1>4 DEF ids

\* The selection stays where it is when no element comes or goes.
LEMMA ChoiceStays ==
  ASSUME EditorInv, Ready, UNCHANGED choice,
         DOMAIN document'.v = DOMAIN document.v, DOMAIN document'.e = DOMAIN document.e
  PROVE  Chosen
BY DEF EditorInv, Chosen, choice, Elements

LEMMA NothingEdited ==
  ASSUME EditorInv, UNCHANGED <<document, stacks>>
  PROVE  Kept /\ document' = document
BY DEF EditorInv, Kept, stacks

-----------------------------------------------------------------------------
(* The forms *)

LEMMA applyChangesKeeps ==
  ASSUME EditorInv, NEW at \in Places, NEW attr \in Attributes, applyChanges(at, attr)
  PROVE  Kept /\ Chosen
<1> DEFINE m == Moved(selected, at)
<1>1. document \in Good /\ at \in Nat /\ attr \in Forms
  BY EditorAssumption DEF EditorInv, Forms
<1>2. UNCHANGED choice /\ selected # 0 /\ Ready
  BY DEF applyChanges
<1>3. CASE kind = "vertices"
  <2>1. selected \in DOMAIN document.v
    BY <1>2, <1>3 DEF EditorInv, Elements
  <2>2. m \in Good /\ DOMAIN m.v = DOMAIN document.v /\ DOMAIN m.e = DOMAIN document.e
    BY <1>1, <2>1, MovedGood DEF Moved
  <2> HIDE DEF m
  <2> DEFINE v == [m.v EXCEPT ![selected].attr = attr]
             d == [m EXCEPT !.v[selected].attr = attr]
  <2>3. d = [m EXCEPT !.v = v]
    BY <2>2, GoodParts
  <2>4. v \in [DOMAIN m.v -> Points] /\ \A i \in DOMAIN m.v : v[i].at = m.v[i].at
    <3>1. m.v \in [DOMAIN m.v -> Points] /\ selected \in DOMAIN m.v
      BY <2>1, <2>2, GoodParts
    <3> DEFINE p == [m.v[selected] EXCEPT !.attr = attr]
    <3>2. m.v[selected] \in Points
      BY <3>1
    <3>3. p \in Points /\ p.at = m.v[selected].at
      BY <1>1, <3>2 DEF Points
    <3>4. v = [m.v EXCEPT ![selected] = p]
      BY <3>1
    <3> HIDE DEF p, v
    <3>5. v \in [DOMAIN m.v -> Points]
      BY <3>1, <3>3, <3>4
    <3>6. \A i \in DOMAIN m.v : v[i] = IF i = selected THEN p ELSE m.v[i]
      BY <3>1, <3>4
    <3> QED  BY <3>3, <3>5, <3>6
  <2>5. d \in Good
    <3> HIDE DEF v, d
    <3> QED  BY <2>2, <2>3, <2>4, VerticesPainted
  <2>6. DOMAIN d.v = DOMAIN document.v /\ DOMAIN d.e = DOMAIN document.e
    BY <2>2, <2>3, <2>4, GoodParts
  <2>7. Commit(d)
    BY <1>3 DEF applyChanges, m
  <2> HIDE DEF d
  <2> QED  BY <1>2, <2>5, <2>6, <2>7, CommitKeeps, ChoiceStays
<1>4. CASE kind # "vertices"
  <2>1. selected \in DOMAIN document.e
    BY <1>2, <1>4 DEF EditorInv, Elements
  <2> DEFINE e == [document.e EXCEPT ![selected].attr = attr]
             d == [document EXCEPT !.e[selected].attr = attr]
  <2>2. d = [document EXCEPT !.e = e]
    BY <1>1, GoodParts
  <2>3. /\ e \in [DOMAIN document.e -> Lines]
        /\ \A i \in DOMAIN document.e :
             e[i].ends = document.e[i].ends /\ e[i].weight = document.e[i].weight
    BY <1>1, <2>1, GoodParts DEF Lines
  <2>4. d \in Good
    <3> HIDE DEF e, d
    <3> QED  BY <1>1, <2>2, <2>3, EdgesPainted
  <2>5. DOMAIN d.v = DOMAIN document.v /\ DOMAIN d.e = DOMAIN document.e
    BY <1>1, <2>2, <2>3, GoodParts
  <2>6. Commit(d)
    BY <1>4 DEF applyChanges
  <2> HIDE DEF d
  <2> QED  BY <1>2, <2>4, <2>5, <2>6, CommitKeeps, ChoiceStays
<1> QED  BY <1>3, <1>4

\* A document with the attributes of some edges, or of some vertices, changed.
PaintedEdges(attr, some) ==
  [document EXCEPT !.e = [i \in DOMAIN @ |-> IF i \in some THEN [@[i] EXCEPT !.attr = attr] ELSE @[i]]]
PaintedVertices(attr, some) ==
  [document EXCEPT !.v = [i \in DOMAIN @ |-> IF i \in some THEN [@[i] EXCEPT !.attr = attr] ELSE @[i]]]

LEMMA PaintedEdgesGood ==
  ASSUME document \in Good, NEW attr \in Attributes, NEW some
  PROVE  LET d == PaintedEdges(attr, some)
         IN  /\ d \in Good /\ d.version = document.version
             /\ DOMAIN d.v = DOMAIN document.v /\ DOMAIN d.e = DOMAIN document.e
<1> DEFINE e == [i \in DOMAIN document.e |->
                   IF i \in some THEN [document.e[i] EXCEPT !.attr = attr] ELSE document.e[i]]
           d == PaintedEdges(attr, some)
<1>1. d = [document EXCEPT !.e = e]
  BY DEF PaintedEdges
<1>2. /\ e \in [DOMAIN document.e -> Lines]
      /\ \A i \in DOMAIN document.e :
           e[i].ends = document.e[i].ends /\ e[i].weight = document.e[i].weight
  BY GoodParts DEF Lines, Forms
<1> HIDE DEF e, d
<1>3. d \in Good
  BY <1>1, <1>2, EdgesPainted
<1>4. /\ DOMAIN d.v = DOMAIN document.v /\ DOMAIN d.e = DOMAIN document.e
      /\ d.version = document.version
  BY <1>1, <1>2, GoodParts
<1> QED  BY <1>3, <1>4 DEF d

LEMMA PaintedVerticesGood ==
  ASSUME document \in Good, NEW attr \in Attributes, NEW some
  PROVE  LET d == PaintedVertices(attr, some)
         IN  /\ d \in Good /\ d.version = document.version
             /\ DOMAIN d.v = DOMAIN document.v /\ DOMAIN d.e = DOMAIN document.e
<1> DEFINE v == [i \in DOMAIN document.v |->
                   IF i \in some THEN [document.v[i] EXCEPT !.attr = attr] ELSE document.v[i]]
           d == PaintedVertices(attr, some)
<1>1. d = [document EXCEPT !.v = v]
  BY DEF PaintedVertices
<1>2. /\ v \in [DOMAIN document.v -> Points]
      /\ \A i \in DOMAIN document.v : v[i].at = document.v[i].at
  BY GoodParts DEF Points, Forms
<1> HIDE DEF v, d
<1>3. d \in Good
  BY <1>1, <1>2, VerticesPainted
<1>4. /\ DOMAIN d.v = DOMAIN document.v /\ DOMAIN d.e = DOMAIN document.e
      /\ d.version = document.version
  BY <1>1, <1>2, GoodParts
<1> QED  BY <1>3, <1>4 DEF d

LEMMA applyAllKeeps ==
  ASSUME EditorInv, NEW attr \in Attributes, applyAllObstacleMode(attr)
  PROVE  Kept /\ Chosen
<1> DEFINE d == PaintedEdges(attr, DOMAIN document.e)
<1>1. document \in Good
  BY DEF EditorInv
<1>2. d \in Good /\ DOMAIN d.v = DOMAIN document.v /\ DOMAIN d.e = DOMAIN document.e
  BY <1>1, PaintedEdgesGood
<1>3. [document EXCEPT !.e = [i \in DOMAIN @ |-> [@[i] EXCEPT !.attr = attr]]] = d
  BY DEF PaintedEdges
<1>4. Commit(d) /\ UNCHANGED choice /\ Ready
  BY <1>3 DEF applyAllObstacleMode
<1> HIDE DEF d
<1> QED  BY <1>2, <1>4, CommitKeeps, ChoiceStays

LEMMA applyBatchKeeps ==
  ASSUME EditorInv, NEW attr \in Attributes, applyBatchChanges(attr)
  PROVE  Kept /\ Chosen
<1> DEFINE c == PaintedVertices(attr, batch.vertices)
           d == PaintedEdges(attr, batch.edges)
<1>1. document \in Good
  BY DEF EditorInv
<1>2. c \in Good /\ DOMAIN c.v = DOMAIN document.v /\ DOMAIN c.e = DOMAIN document.e
  BY <1>1, PaintedVerticesGood
<1>3. d \in Good /\ DOMAIN d.v = DOMAIN document.v /\ DOMAIN d.e = DOMAIN document.e
  BY <1>1, PaintedEdgesGood
<1>4. UNCHANGED choice /\ Ready /\ (Commit(c) \/ Commit(d))
  BY DEF applyBatchChanges, PaintedVertices, PaintedEdges
<1> HIDE DEF c, d
<1> QED  BY <1>2, <1>3, <1>4, CommitKeeps, ChoiceStays

\* A delete that takes hold, and one that fails in add-edge mode.
LEMMA DeletedKeeps ==
  ASSUME EditorInv, Ready, NEW d \in Good, Deleted(d)
  PROVE  Kept /\ Chosen
<1>1. CASE DeleteFails
  <2>1. Remember /\ UNCHANGED <<document, choice>>
    BY <1>1 DEF DeleteFails
  <2>2. Kept
    BY <2>1, RememberKeeps DEF Kept, EditorInv
  <2> QED  BY <2>1, <2>2, ChoiceStays
<1>2. CASE ~ DeleteFails
  <2>1. Commit(d) /\ populateSelection(document', kind, 0)
    BY <1>2 DEF Deleted
  <2>2. Kept /\ document' \in Good
    BY <2>1, CommitKeeps DEF Kept
  <2>3. kind \in {"vertices", "edges"}
    BY DEF EditorInv
  <2>4. kind' = kind /\ selected' \in Elements(document', kind) \cup {0}
    BY <2>1, <2>2, <2>3, PopulateChooses
  <2> QED  BY <2>2, <2>3, <2>4 DEF Chosen
<1> QED  BY <1>1, <1>2

LEMMA deleteVertexKeeps ==
  ASSUME EditorInv, deleteSelectedVertex
  PROVE  Kept /\ Chosen
<1> DEFINE d == removeVertex(document, selected)
<1>1. document \in Good /\ selected \in DOMAIN document.v
  BY DEF EditorInv, Elements, deleteSelectedVertex
<1>2. d \in Good /\ Deleted(d) /\ Ready
  BY <1>1, VertexRemovedGood DEF deleteSelectedVertex
<1> HIDE DEF d
<1> QED  BY <1>2, DeletedKeeps

LEMMA deleteEdgeKeeps ==
  ASSUME EditorInv, deleteSelectedEdge
  PROVE  Kept /\ Chosen
<1> DEFINE d == removeEdge(document, selected)
<1>1. d \in Good /\ Deleted(d) /\ Ready
  BY EdgeRemovedGood DEF EditorInv, deleteSelectedEdge
<1> HIDE DEF d
<1> QED  BY <1>1, DeletedKeeps

-----------------------------------------------------------------------------
(* Clicks on the map *)

\* The least id of the vertices, or of the edges, at a place.
LEMMA NearestIsThere ==
  ASSUME EditorInv, NEW at \in Places
  PROVE  /\ VerticesAt(at) # {} => Min(VerticesAt(at)) \in DOMAIN document.v
         /\ EdgesAt(at) # {} => Min(EdgesAt(at)) \in DOMAIN document.e
<1>1. document \in Good
  BY DEF EditorInv
<1>2. DOMAIN document.v \in SUBSET Nat /\ DOMAIN document.e \in SUBSET Nat
  BY <1>1, GoodParts DEF Ids
<1>3. VerticesAt(at) \subseteq DOMAIN document.v /\ EdgesAt(at) \subseteq DOMAIN document.e
  BY DEF VerticesAt, EdgesAt
<1> QED  BY <1>2, <1>3, MinIsThere

LEMMA addVertexKeeps ==
  ASSUME EditorInv, NEW at \in Places, addVertexAt(at)
  PROVE  Kept /\ Chosen
<1> DEFINE d == addVertex(document, at)
<1>1. document \in Good /\ at \in Nat
  BY EditorAssumption DEF EditorInv
<1>2. d \in Good
  BY <1>1, VertexAddedGood DEF addVertexAt
<1>3. Kept
  BY <1>2, CommitKeeps DEF addVertexAt
<1>4. kind' = "vertices" /\ selected' \in Elements(document', "vertices") \cup {0}
  BY <1>3, PopulateChooses DEF addVertexAt, Kept
<1> QED  BY <1>3, <1>4 DEF Chosen

LEMMA moveVertexKeeps ==
  ASSUME EditorInv, Ready, NEW at \in Places, moveVertexTo(at)
  PROVE  Kept /\ Chosen
<1> DEFINE m == Moved(moving, at)
<1>1. document \in Good /\ at \in Nat
  BY EditorAssumption DEF EditorInv
<1>2. CASE moving \in DOMAIN document.v
  <2>1. m \in Good
    BY <1>1, <1>2, MovedGood DEF Moved
  <2>2. Kept
    BY <1>2, <2>1, CommitKeeps DEF moveVertexTo
  <2>3. kind' = "vertices" /\ selected' \in Elements(document', "vertices") \cup {0}
    BY <1>2, <2>2, PopulateChooses DEF moveVertexTo, Kept
  <2> QED  BY <2>2, <2>3 DEF Chosen
<1>3. CASE moving \notin DOMAIN document.v
  <2>1. UNCHANGED <<document, stacks, choice>>
    BY <1>3 DEF moveVertexTo
  <2> QED  BY <2>1, NothingEdited, ChoiceStays
<1> QED  BY <1>2, <1>3

LEMMA addEdgeKeeps ==
  ASSUME EditorInv, NEW id \in DOMAIN document.v, addEdgeTo(id)
  PROVE  Kept /\ Chosen
<1> DEFINE quiet == populateSelection(document, "vertices", id) /\ UNCHANGED <<document, stacks>>
           new == /\ pending # id /\ pending \in DOMAIN document.v /\ ~ Joined(pending, id)
                  /\ nextId(DOMAIN document.e) <= MaxId
                  /\ Commit(addEdge(document, pending, id))
                  /\ populateSelection(document', "edges", nextId(DOMAIN document.e))
<1>1. quiet \/ new
  BY DEF addEdgeTo
<1>2. document \in Good
  BY DEF EditorInv
<1>3. CASE quiet
  <2>1. Kept /\ document' = document
    BY <1>3, NothingEdited
  <2>2. kind' = "vertices" /\ selected' \in Elements(document, "vertices") \cup {0}
    BY <1>2, <1>3, PopulateChooses
  <2> QED  BY <2>1, <2>2 DEF Chosen
<1>4. CASE new
  <2>1. addEdge(document, pending, id) \in Good
    BY <1>2, <1>4, EdgeAddedGood DEF Joined
  <2>2. Kept
    BY <1>4, <2>1, CommitKeeps
  <2>3. kind' = "edges" /\ selected' \in Elements(document', "edges") \cup {0}
    BY <1>4, <2>2, PopulateChooses DEF Kept
  <2> QED  BY <2>2, <2>3 DEF Chosen
<1> HIDE DEF quiet, new
<1> QED  BY <1>1, <1>3, <1>4

\* Clicks that only select.
LEMMA PickKeeps ==
  ASSUME EditorInv, NEW page \in {"vertices", "edges"}, NEW id,
         populateSelection(document, page, id), UNCHANGED <<document, stacks>>
  PROVE  Kept /\ Chosen
<1>1. Kept /\ document' = document
  BY NothingEdited
<1>2. kind' = page /\ selected' \in Elements(document, page) \cup {0}
  BY PopulateChooses DEF EditorInv
<1> QED  BY <1>1, <1>2 DEF Chosen

LEMMA selectNearestKeeps ==
  ASSUME EditorInv, NEW at \in Places, selectNearest(at)
  PROVE  Kept /\ Chosen
<1> DEFINE v == Min(VerticesAt(at))
           e == Min(EdgesAt(at))
<1>1. \/ addVertexAt(at)
      \/ moveVertexTo(at)
      \/ VerticesAt(at) # {} /\ (addEdgeTo(v) \/ PickBatch(v) \/ PickElement("vertices", v))
      \/ PickElement("edges", e)
  BY DEF selectNearest
<1>2. CASE addVertexAt(at)
  BY <1>2, addVertexKeeps
<1>3. CASE moveVertexTo(at)
  BY <1>3, moveVertexKeeps DEF selectNearest
<1>4. CASE VerticesAt(at) # {} /\ addEdgeTo(v)
  BY <1>4, NearestIsThere, addEdgeKeeps
<1>5. CASE PickBatch(v)
  BY <1>5, PickKeeps DEF PickBatch
<1>6. CASE PickElement("vertices", v)
  BY <1>6, PickKeeps DEF PickElement
<1>7. CASE PickElement("edges", e)
  BY <1>7, PickKeeps DEF PickElement
<1> HIDE DEF v, e
<1> QED  BY <1>1, <1>2, <1>3, <1>4, <1>5, <1>6, <1>7

-----------------------------------------------------------------------------
(* Undo, redo and the file *)

\* The top of a stack, and what is left of it.
LEMMA StackTop ==
  ASSUME NEW s \in Seq(Good), s # <<>>
  PROVE  Last(s) \in Good /\ Front(s) \in Seq(Good) /\ s = Front(s) \o <<Last(s)>>
<1>1. Len(s) \in Nat \ {0}
  BY EmptySeq
<1>2. Last(s) \in Good
  BY <1>1, ElementOfSeq DEF Last
<1>3. \A i \in 1 .. Len(s) - 1 : s[i] \in Good
  BY <1>1, ElementOfSeq
<1>4. Front(s) \in Seq(Good)
  BY <1>1, <1>3, SubSeqProperties DEF Front
<1>5. SubSeq(s, 1, Len(s)) = SubSeq(s, 1, Len(s) - 1) \o <<s[Len(s)]>>
  BY <1>1, SubSeqRecursiveSecond
<1>6. SubSeq(s, 1, Len(s)) = s
  BY SubSeqFull
<1> QED  BY <1>2, <1>4, <1>5, <1>6 DEF Front, Last

LEMMA undoKeeps ==
  ASSUME EditorInv, undo
  PROVE  Kept /\ Chosen
<1>1. Kept
  BY StackTop, AppendProperties DEF EditorInv, undo, Kept
<1>2. kind' = kind /\ selected' \in Elements(document', kind) \cup {0}
  BY <1>1, PopulateChooses DEF EditorInv, undo, Kept
<1> QED  BY <1>1, <1>2 DEF Chosen, EditorInv

LEMMA redoKeeps ==
  ASSUME EditorInv, redo
  PROVE  Kept /\ Chosen
<1>1. Kept
  BY StackTop, AppendProperties DEF EditorInv, redo, Kept
<1>2. kind' = kind /\ selected' \in Elements(document', kind) \cup {0}
  BY <1>1, PopulateChooses DEF EditorInv, redo, Kept
<1> QED  BY <1>1, <1>2 DEF Chosen, EditorInv

\* When the load throws, nothing counts as loaded, and the selection says nothing.
LEMMA loadKeeps ==
  ASSUME EditorInv, loadGraph
  PROVE  Kept /\ kind' \in {"vertices", "edges"} /\ (Ready' => Chosen)
<1>1. Kept
  BY EmptySeq DEF EditorInv, loadGraph, Kept
<1>2. CASE LoadThrows
  BY <1>1, <1>2 DEF EditorInv, loadGraph, Ready, choice
<1>3. CASE ~ LoadThrows
  <2>1. kind \in {"vertices", "edges"} /\ populateSelection(document', kind, 0)
    BY <1>3 DEF EditorInv, loadGraph
  <2>2. kind' = kind /\ selected' \in Elements(document', kind) \cup {0}
    BY <1>1, <2>1, PopulateChooses DEF Kept
  <2> QED  BY <1>1, <2>1, <2>2 DEF Chosen
<1> QED  BY <1>2, <1>3

-----------------------------------------------------------------------------

LEMMA FirstDocument == EditorInit => EditorInv
<1> SUFFICES ASSUME EditorInit PROVE EditorInv
  OBVIOUS
<1> DEFINE v == [i \in {1, 2} |-> [at |-> i - 1, attr |-> 0]]
           e == [i \in {1} |-> [ends |-> <<1, 2>>, weight |-> 1, attr |-> 0]]
<1>1. {1, 2} \in SUBSET Ids /\ {1} \in SUBSET Ids
  BY EditorAssumption DEF Ids
<1>2. v \in [{1, 2} -> Points] /\ e \in [{1} -> Lines]
  BY DEF Points, Lines, Forms
<1>3. e[1].ends[1] = 1 /\ e[1].ends[2] = 2 /\ e[1].weight = 1
  OBVIOUS
<1>4. Length(v, 1, 2) = 1
  BY DEF Length
<1>5. First = [version |-> 0, v |-> v, e |-> e]
  BY DEF First
<1>6. JoinedOnce(e)
  BY DEF JoinedOnce
<1> HIDE DEF v, e
<1>7. First \in Good
  BY <1>1, <1>2, <1>3, <1>4, <1>5, <1>6, MakeGood
<1>8. Elements(First, "vertices") = {1, 2}
  BY <1>2, <1>5 DEF Elements
<1> QED  BY <1>7, <1>8, EmptySeq DEF EditorInit, EditorInv

LEMMA EditorStep == EditorInv /\ [EditorNext]_editorVars => EditorInv'
<1> SUFFICES ASSUME EditorInv, [EditorNext]_editorVars PROVE EditorInv'
  OBVIOUS
<1> DEFINE Step == Kept /\ Chosen
<1>1. ASSUME Step, UNCHANGED file PROVE EditorInv'
  BY <1>1 DEF Kept, Chosen, EditorInv
<1>2. ASSUME Ready, UNCHANGED <<document, stacks, choice>> PROVE Step
  BY <1>2, NothingEdited, ChoiceStays
<1>3. ASSUME NEW page \in {"vertices", "edges"}, NEW id, Select(page, id)
      PROVE  EditorInv'
  BY <1>1, <1>3, PickKeeps DEF Select
<1>4. ASSUME NEW button, Check(button) PROVE EditorInv'
  BY <1>1, <1>2, <1>4 DEF Check
<1>5. ASSUME setBatchStart \/ setBatchEnd \/ clearBatchSelection PROVE EditorInv'
  BY <1>1, <1>2, <1>5 DEF setBatchStart, setBatchEnd, clearBatchSelection
<1>6. ASSUME NEW at \in Places, NEW attr \in Attributes, applyChanges(at, attr)
      PROVE  EditorInv'
  BY <1>1, <1>6, applyChangesKeeps DEF applyChanges
<1>7. ASSUME NEW attr \in Attributes, applyAllObstacleMode(attr) \/ applyBatchChanges(attr)
      PROVE  EditorInv'
  BY <1>1, <1>7, applyAllKeeps, applyBatchKeeps DEF applyAllObstacleMode, applyBatchChanges
<1>8. ASSUME deleteSelectedVertex \/ deleteSelectedEdge PROVE EditorInv'
  BY <1>1, <1>8, deleteVertexKeeps, deleteEdgeKeeps
     DEF deleteSelectedVertex, deleteSelectedEdge, Deleted
<1>9. ASSUME NEW at \in Places, selectNearest(at) PROVE EditorInv'
  BY <1>1, <1>9, selectNearestKeeps DEF selectNearest
<1>10. ASSUME undo \/ redo PROVE EditorInv'
  BY <1>1, <1>10, undoKeeps, redoKeeps DEF undo, redo
<1>11. ASSUME saveGraph PROVE EditorInv'
  BY <1>11 DEF saveGraph, EditorInv, Ready, stacks, choice
<1>12. ASSUME loadGraph PROVE EditorInv'
  <2>1. UNCHANGED file
    BY <1>12 DEF loadGraph
  <2> QED  BY <1>12, <2>1, loadKeeps DEF Kept, Chosen, EditorInv
<1>13. ASSUME UNCHANGED editorVars PROVE EditorInv'
  BY <1>13 DEF editorVars, EditorInv, Ready, stacks, choice
<1> HIDE DEF Step
<1> QED
  BY <1>3, <1>4, <1>5, <1>6, <1>7, <1>8, <1>9, <1>10, <1>11, <1>12, <1>13 DEF EditorNext

\* The inductive invariant: every document of the session is good, and what is
\* selected is there, for every sequence of edits, undos, redos, saves and loads.
THEOREM EditorInvariant == EditorSpec => []EditorInv
BY FirstDocument, EditorStep, PTL DEF EditorSpec

\* DocumentsSound: every document that can come back is one that the editor and
\* the web console's store accept, with the distances of their ends as the
\* weights of its edges (removeVertex, addEdge, recomputeIncidentWeights).
THEOREM DocumentsCorrect == EditorSpec => []DocumentsSound
<1>1. EditorInv => DocumentsSound
  <2> SUFFICES ASSUME EditorInv, NEW d \in Documents
               PROVE  Valid(d) /\ StoreAccepts(d) /\ Measured(d)
    BY DEF DocumentsSound, Measured
  <2>1. ToSet(undos) \subseteq Good /\ ToSet(redos) \subseteq Good
    BY LenProperties, ElementOfSeq DEF EditorInv, ToSet
  <2>2. d \in Good
    BY <2>1 DEF Documents, EditorInv
  <2>3. Valid(d) /\ Measured(d) /\ JoinedOnce(d.e)
    BY <2>2 DEF Good
  <2>4. 0 \notin DOMAIN d.v \cup DOMAIN d.e
    BY <2>2, GoodParts DEF Ids
  <2> QED  BY <2>3, <2>4 DEF Valid, StoreAccepts
<1> QED  BY <1>1, EditorInvariant, PTL

-----------------------------------------------------------------------------
(* The line of documents *)

\* The top of a stack comes first when it is turned round.
LEMMA ReverseAppend ==
  ASSUME NEW s \in Seq(Good), NEW d \in Good
  PROVE  Reverse(s) \in Seq(Good) /\ Reverse(Append(s, d)) = <<d>> \o Reverse(s)
<1> DEFINE a == Append(s, d)
           r == Reverse(s)
           t == Reverse(a)
           u == <<d>> \o r
<1>1. Len(s) \in Nat /\ s \in [1 .. Len(s) -> Good]
  BY LenProperties
<1>2. /\ a \in Seq(Good) /\ Len(a) = Len(s) + 1 /\ a[Len(s) + 1] = d
      /\ \A i \in 1 .. Len(s) : a[i] = s[i]
  BY AppendProperties
<1> HIDE DEF a
<1>3. \A q \in Seq(Good) : Reverse(q) \in Seq(Good) /\ Len(Reverse(q)) = Len(q)
                           /\ \A i \in 1 .. Len(q) : Reverse(q)[i] = q[Len(q) - i + 1]
  <2> SUFFICES ASSUME NEW q \in Seq(Good)
               PROVE  Reverse(q) \in Seq(Good) /\ Len(Reverse(q)) = Len(q)
                      /\ \A i \in 1 .. Len(q) : Reverse(q)[i] = q[Len(q) - i + 1]
    OBVIOUS
  <2>1. Len(q) \in Nat /\ q \in [1 .. Len(q) -> Good]
    BY LenProperties
  <2>2. Reverse(q) \in [1 .. Len(q) -> Good]
    BY <2>1 DEF Reverse
  <2>3. Reverse(q) \in Seq(Good)
    BY <2>1, <2>2, SeqDef
  <2>4. Len(Reverse(q)) = Len(q)
    <3>1. Len(Reverse(q)) \in Nat /\ DOMAIN Reverse(q) = 1 .. Len(Reverse(q))
      BY <2>3, LenProperties
    <3>2. 1 .. Len(Reverse(q)) = 1 .. Len(q)
      BY <2>2, <3>1
    <3> DEFINE m == Len(Reverse(q))
               n == Len(q)
    <3>3. m \in Nat /\ n \in Nat /\ 1 .. m = 1 .. n
      BY <2>1, <3>1, <3>2
    <3> HIDE DEF m, n
    <3>4. m > n => m \in 1 .. m /\ m \notin 1 .. n
      BY <3>3
    <3>5. n > m => n \in 1 .. n /\ n \notin 1 .. m
      BY <3>3
    <3>6. m = n
      BY <3>3, <3>4, <3>5
    <3> QED  BY <3>6 DEF m, n
  <2> QED  BY <2>3, <2>4 DEF Reverse
<1>4. r \in Seq(Good) /\ Len(r) = Len(s) /\ \A i \in 1 .. Len(s) : r[i] = s[Len(s) - i + 1]
  BY <1>3
<1>5. /\ t \in Seq(Good) /\ Len(t) = Len(s) + 1
      /\ \A i \in 1 .. Len(s) + 1 : t[i] = a[Len(s) + 1 - i + 1]
  BY <1>2, <1>3
<1>6. <<d>> \in Seq(Good) /\ Len(<<d>>) = 1 /\ <<d>>[1] = d
  OBVIOUS
<1>7. /\ u \in Seq(Good) /\ Len(u) = 1 + Len(s)
      /\ \A i \in 1 .. 1 + Len(s) : u[i] = IF i <= 1 THEN d ELSE r[i - 1]
  <2> HIDE DEF r
  <2>1. /\ u \in Seq(Good) /\ Len(u) = Len(<<d>>) + Len(r)
        /\ \A i \in 1 .. Len(<<d>>) + Len(r) :
             u[i] = IF i <= Len(<<d>>) THEN <<d>>[i] ELSE r[i - Len(<<d>>)]
    BY <1>4, <1>6, ConcatProperties
  <2> HIDE DEF u
  <2>2. \A i \in 1 .. 1 + Len(s) : i <= 1 => <<d>>[i] = d
    BY <1>1
  <2> QED  BY <1>1, <1>4, <1>6, <2>1, <2>2
<1> HIDE DEF r, t, u
<1>8. \A i \in 1 .. Len(t) : t[i] = u[i]
  <2> SUFFICES ASSUME NEW i \in 1 .. Len(s) + 1 PROVE t[i] = u[i]
    BY <1>5
  <2>1. CASE i = 1
    <3>1. t[1] = a[Len(s) + 1] /\ u[1] = d
      BY <1>1, <1>5, <1>7
    <3> QED  BY <1>2, <2>1, <3>1
  <2>2. CASE i # 1
    <3>1. i - 1 \in 1 .. Len(s) /\ Len(s) + 1 - i + 1 \in 1 .. Len(s)
      BY <1>1, <2>2
    <3>2. t[i] = s[Len(s) + 1 - i + 1] /\ u[i] = r[i - 1]
      <4>1. t[i] = a[Len(s) + 1 - i + 1]
        BY <1>5
      <4>2. a[Len(s) + 1 - i + 1] = s[Len(s) + 1 - i + 1]
        BY <1>2, <3>1
      <4>3. u[i] = IF i <= 1 THEN d ELSE r[i - 1]
        BY <1>1, <1>7
      <4>4. ~ (i <= 1)
        BY <1>1, <2>2
      <4> QED  BY <4>1, <4>2, <4>3, <4>4
    <3>3. r[i - 1] = s[Len(s) - (i - 1) + 1]
      BY <1>4, <3>1
    <3>4. Len(s) - (i - 1) + 1 = Len(s) + 1 - i + 1
      BY <1>1
    <3> QED  BY <3>2, <3>3, <3>4
  <2> QED  BY <2>1, <2>2
<1>9. Len(t) = Len(u)
  BY <1>1, <1>5, <1>7
<1>10. t = u
  BY <1>5, <1>7, <1>8, <1>9, SeqEqual
<1> QED  BY <1>4, <1>10 DEF t, u, r, a

\* One step along the line: the screen shows the next document of the one side
\* and leaves the last one to the other.
LEMMA OneStepBack ==
  ASSUME NEW p \in Seq(Good), NEW r \in Seq(Good), p # <<>>, NEW d \in Good
  PROVE  (Front(p) \o <<Last(p)>>) \o Reverse(Append(r, d)) = (p \o <<d>>) \o Reverse(r)
<1>1. p = Front(p) \o <<Last(p)>>
  BY StackTop
<1>2. Reverse(r) \in Seq(Good) /\ Reverse(Append(r, d)) = <<d>> \o Reverse(r)
  BY ReverseAppend
<1>3. <<d>> \in Seq(Good)
  OBVIOUS
<1>4. (p \o <<d>>) \o Reverse(r) = p \o (<<d>> \o Reverse(r))
  BY <1>2, <1>3, ConcatAssociative
<1> QED  BY <1>1, <1>2, <1>4

LEMMA UndoStays ==
  ASSUME EditorInv, undo
  PROVE  Timeline' = Timeline
<1>1. undos \in Seq(Good) /\ redos \in Seq(Good) /\ document \in Good /\ undos # <<>>
  BY DEF EditorInv, undo
<1>2. Timeline' = (Front(undos) \o <<Last(undos)>>) \o Reverse(Append(redos, document))
  BY DEF undo, Timeline
<1> QED  BY <1>1, <1>2, OneStepBack DEF Timeline

LEMMA RedoStays ==
  ASSUME EditorInv, redo
  PROVE  Timeline' = Timeline
<1> DEFINE q == Front(redos)
           d == Last(redos)
<1>1. undos \in Seq(Good) /\ redos \in Seq(Good) /\ document \in Good /\ redos # <<>>
  BY DEF EditorInv, redo
<1>2. d \in Good /\ q \in Seq(Good) /\ redos = q \o <<d>>
  BY <1>1, StackTop
<1> HIDE DEF q, d
<1>3. redos = Append(q, d)
  BY <1>2, AppendIsConcat
<1>4. Reverse(q) \in Seq(Good) /\ Reverse(redos) = <<d>> \o Reverse(q)
  BY <1>2, <1>3, ReverseAppend
<1>5. Append(undos, document) = undos \o <<document>> /\ undos \o <<document>> \in Seq(Good)
  BY <1>1, AppendIsConcat, AppendProperties
<1>6. <<d>> \in Seq(Good)
  BY <1>2
<1>7. Timeline' = ((undos \o <<document>>) \o <<d>>) \o Reverse(q)
  BY <1>5 DEF redo, Timeline, q, d
<1>8. ((undos \o <<document>>) \o <<d>>) \o Reverse(q)
        = (undos \o <<document>>) \o (<<d>> \o Reverse(q))
  BY <1>4, <1>5, <1>6, ConcatAssociative
<1> QED  BY <1>4, <1>7, <1>8 DEF Timeline

\* The line ends with the document of the screen, behind the one before it.
Recorded ==
  LET past == undos \o <<document>>
  IN  \/ Timeline' = Append(past, document')
      \/ Len(past) > UndoLimit /\ Timeline' = Append(Tail(past), document')

\* It does when the stacks were written and the screen shows a good document.
LEMMA RememberRecords ==
  ASSUME EditorInv, Remember, document' \in Good
  PROVE  Recorded
<1> DEFINE past == undos \o <<document>>
<1>1. undos \in Seq(Good) /\ document \in Good
  BY DEF EditorInv
<1>2. past = Append(undos, document) /\ past \in Seq(Good) /\ past # <<>>
  BY <1>1, AppendIsConcat, AppendProperties
<1> HIDE DEF past
<1>3. /\ Keep(past) = past \/ (Len(past) > UndoLimit /\ Keep(past) = Tail(past))
      /\ Keep(past) \in Seq(Good)
  BY <1>2, HeadTailProperties DEF Keep
<1>4. undos' = Keep(past) /\ redos' = <<>>
  BY <1>2 DEF Remember
<1>5. Reverse(<<>>) = <<>>
  BY DEF Reverse
<1>6. Timeline' = (Keep(past) \o <<document'>>) \o <<>>
  BY <1>4, <1>5 DEF Timeline
<1>7. /\ Keep(past) \o <<document'>> = Append(Keep(past), document')
      /\ Append(Keep(past), document') \in Seq(Good)
  BY <1>3, AppendIsConcat, AppendProperties
<1>8. Timeline' = Append(Keep(past), document')
  BY <1>6, <1>7, ConcatEmptySeq
<1> QED  BY <1>3, <1>8 DEF Recorded, past

\* An edit that takes hold gives its document a new version.
NewVersion == Recorded /\ document'.version = document.version + 1

LEMMA CommitRecords ==
  ASSUME EditorInv, NEW d \in Good, Commit(d), d.version = document.version
  PROVE  NewVersion
<1>1. Kept /\ document'.version = d.version + 1
  BY CommitKeeps
<1> QED  BY <1>1, RememberRecords DEF Kept, Commit, NewVersion

LEMMA TimelineStays ==
  ASSUME UNCHANGED <<document, stacks>>
  PROVE  Timeline' = Timeline
BY DEF Timeline, stacks

\* The edits through the forms.
LEMMA FormsRecord ==
  ASSUME EditorInv, NEW at \in Nat, NEW attr \in Attributes,
         \/ at \in Places /\ applyChanges(at, attr)
         \/ applyAllObstacleMode(attr) \/ applyBatchChanges(attr)
  PROVE  NewVersion
<1>1. document \in Good
  BY DEF EditorInv
<1>2. CASE at \in Places /\ applyChanges(at, attr)
  <2>1. PICK d : Commit(d) /\ d = IF kind = "vertices"
                                 THEN [Moved(selected, at) EXCEPT !.v[selected].attr = attr]
                                 ELSE [document EXCEPT !.e[selected].attr = attr]
    BY <1>2 DEF applyChanges
  <2>2. d.version = document.version
    <3>1. CASE kind = "vertices"
      <4>1. selected \in DOMAIN document.v
        BY <1>2, <3>1 DEF applyChanges, EditorInv, Elements
      <4>2. Moved(selected, at) \in Good /\ Moved(selected, at).version = document.version
        BY <1>1, <4>1, MovedGood DEF Moved
      <4> QED  BY <2>1, <3>1, <4>2, GoodParts
    <3>2. CASE kind # "vertices"
      BY <1>1, <2>1, <3>2, GoodParts
    <3> QED  BY <3>1, <3>2
  <2>3. document' \in Good /\ Remember
    BY <1>2, <2>1, applyChangesKeeps DEF Kept, Commit
  <2>4. document'.version = document.version + 1
    <3>1. document' = [d EXCEPT !.version = @ + 1]
      BY <2>1 DEF Commit
    <3>2. "version" \in DOMAIN d
      <4>1. DOMAIN document' = {"version", "v", "e"}
        BY <2>3, GoodParts
      <4> QED  BY <3>1, <4>1
    <3> QED  BY <2>2, <3>1, <3>2
  <2> QED  BY <2>3, <2>4, RememberRecords DEF NewVersion
<1>3. CASE applyAllObstacleMode(attr)
  <2> DEFINE d == PaintedEdges(attr, DOMAIN document.e)
  <2>1. [document EXCEPT !.e = [i \in DOMAIN @ |-> [@[i] EXCEPT !.attr = attr]]] = d
    BY DEF PaintedEdges
  <2>2. Commit(d) /\ d \in Good /\ d.version = document.version
    BY <1>1, <1>3, <2>1, PaintedEdgesGood DEF applyAllObstacleMode
  <2> HIDE DEF d
  <2> QED  BY <2>2, CommitRecords
<1>4. CASE applyBatchChanges(attr)
  <2> DEFINE c == PaintedVertices(attr, batch.vertices)
             d == PaintedEdges(attr, batch.edges)
  <2>1. /\ c \in Good /\ c.version = document.version
        /\ d \in Good /\ d.version = document.version
    BY <1>1, PaintedVerticesGood, PaintedEdgesGood
  <2>2. Commit(c) \/ Commit(d)
    BY <1>4 DEF applyBatchChanges, PaintedVertices, PaintedEdges
  <2> HIDE DEF c, d
  <2> QED  BY <2>1, <2>2, CommitRecords
<1> QED  BY <1>2, <1>3, <1>4

\* The deletes, also the one that fails.
LEMMA DeletesRecord ==
  ASSUME EditorInv, deleteSelectedVertex \/ deleteSelectedEdge
  PROVE  NewVersion \/ (Recorded /\ DeleteFails /\ document' = document)
<1>1. document \in Good
  BY DEF EditorInv
<1>2. CASE DeleteFails
  BY <1>1, <1>2, RememberRecords DEF DeleteFails
<1>3. CASE ~ DeleteFails
  <2>1. PICK d \in Good : Commit(d) /\ d.version = document.version
    <3>1. CASE deleteSelectedVertex
      <4>1. selected \in DOMAIN document.v
        BY <3>1 DEF deleteSelectedVertex, EditorInv, Elements
      <4> QED  BY <1>1, <1>3, <3>1, <4>1, VertexRemovedGood DEF deleteSelectedVertex, Deleted
    <3>2. CASE deleteSelectedEdge
      BY <1>1, <1>3, <3>2, EdgeRemovedGood DEF deleteSelectedEdge, Deleted
    <3> QED  BY <3>1, <3>2
  <2> QED  BY <2>1, CommitRecords
<1> QED  BY <1>2, <1>3

\* The clicks on the map: one edits, or leaves the stacks alone.
LEMMA ClicksRecord ==
  ASSUME EditorInv, NEW at \in Places, selectNearest(at)
  PROVE  NewVersion \/ UNCHANGED <<document, stacks>>
<1> DEFINE id == Min(VerticesAt(at))
<1>1. document \in Good /\ at \in Nat
  BY EditorAssumption DEF EditorInv
<1>2. CASE addVertexAt(at)
  <2>1. /\ Commit(addVertex(document, at)) /\ addVertex(document, at) \in Good
        /\ addVertex(document, at).version = document.version
    BY <1>1, <1>2, VertexAddedGood DEF addVertexAt
  <2> QED  BY <2>1, CommitRecords
<1>3. CASE moveVertexTo(at)
  <2>1. CASE moving \in DOMAIN document.v
    <3>1. /\ Commit(Moved(moving, at)) /\ Moved(moving, at) \in Good
          /\ Moved(moving, at).version = document.version
      BY <1>1, <1>3, <2>1, MovedGood DEF moveVertexTo, Moved
    <3> QED  BY <3>1, CommitRecords
  <2> QED  BY <1>3, <2>1 DEF moveVertexTo
<1>4. ASSUME VerticesAt(at) # {}, addEdgeTo(id)
      PROVE  NewVersion \/ UNCHANGED <<document, stacks>>
  <2>1. id \in DOMAIN document.v
    BY <1>4, NearestIsThere
  <2> HIDE DEF id
  <2>2. \/ UNCHANGED <<document, stacks>>
        \/ /\ pending # id /\ pending \in DOMAIN document.v /\ ~ Joined(pending, id)
           /\ nextId(DOMAIN document.e) <= MaxId
           /\ Commit(addEdge(document, pending, id))
    BY <1>4 DEF addEdgeTo
  <2>3. CASE Commit(addEdge(document, pending, id)) /\ ~ UNCHANGED <<document, stacks>>
    <3>1. /\ addEdge(document, pending, id) \in Good
          /\ addEdge(document, pending, id).version = document.version
      BY <1>1, <2>1, <2>2, <2>3, EdgeAddedGood DEF Joined
    <3> QED  BY <2>3, <3>1, CommitRecords
  <2> QED  BY <2>2, <2>3
<1>5. ASSUME NEW page, NEW other, PickBatch(other) \/ PickElement(page, other)
      PROVE  UNCHANGED <<document, stacks>>
  BY <1>5 DEF PickBatch, PickElement
<1> HIDE DEF id
<1> QED  BY <1>2, <1>3, <1>4, <1>5 DEF selectNearest, id

\* UndoneComesBack: undo and redo move along one line of documents, an edit cuts it
\* off behind the screen, only its far end is ever dropped, and but for a load a
\* delete that fails is all that writes a document on it twice (undo, redo, Commit,
\* DeleteFails, loadGraph).
THEOREM TimelineCorrect == EditorSpec => UndoneComesBack
<1> DEFINE Line == \/ Timeline' = Timeline
                   \/ NewVersion
                   \/ Recorded /\ DeleteFails /\ document' = document
                   \/ loadGraph
<1>1. EditorInv /\ [EditorNext]_editorVars => Line \/ UNCHANGED editorVars
  <2> SUFFICES ASSUME EditorInv, EditorNext PROVE Line
    OBVIOUS
  <2>1. ASSUME UNCHANGED <<document, stacks>> PROVE Line
    BY <2>1, TimelineStays
  <2>2. ASSUME NEW page, NEW id, Select(page, id) PROVE Line
    BY <2>1, <2>2 DEF Select
  <2>3. ASSUME NEW button, Check(button) PROVE Line
    BY <2>1, <2>3 DEF Check
  <2>4. ASSUME setBatchStart \/ setBatchEnd \/ clearBatchSelection PROVE Line
    BY <2>1, <2>4 DEF setBatchStart, setBatchEnd, clearBatchSelection
  <2>5. ASSUME NEW at \in Places, NEW attr \in Attributes, applyChanges(at, attr) PROVE Line
    BY <2>5, EditorAssumption, FormsRecord
  <2>6. ASSUME NEW attr \in Attributes, applyAllObstacleMode(attr) \/ applyBatchChanges(attr)
        PROVE  Line
    BY <2>6, 0 \in Nat, FormsRecord
  <2>7. ASSUME deleteSelectedVertex \/ deleteSelectedEdge PROVE Line
    BY <2>7, DeletesRecord
  <2>8. ASSUME NEW at \in Places, selectNearest(at) PROVE Line
    BY <2>1, <2>8, ClicksRecord
  <2>9. ASSUME undo \/ redo PROVE Line
    BY <2>9, UndoStays, RedoStays
  <2>10. ASSUME saveGraph PROVE Line
    BY <2>1, <2>10 DEF saveGraph
  <2> HIDE DEF Line
  <2>11. ASSUME loadGraph PROVE Line
    BY <2>11 DEF Line
  <2> QED
    BY <2>2, <2>3, <2>4, <2>5, <2>6, <2>7, <2>8, <2>9, <2>10, <2>11 DEF EditorNext
<1>2. Line => \/ Timeline' = Timeline
              \/ LET past == undos \o <<document>>
                     Said == \/ Timeline' = Append(past, document')
                             \/ Len(past) > UndoLimit /\ Timeline' = Append(Tail(past), document')
                 IN  \/ Said /\ document'.version = document.version + 1
                     \/ Said /\ DeleteFails /\ document' = document
              \/ loadGraph
  BY DEF Line, NewVersion, Recorded
<1> HIDE DEF Line
<1> QED  BY <1>1, <1>2, EditorInvariant, PTL DEF EditorSpec, UndoneComesBack
=============================================================================
