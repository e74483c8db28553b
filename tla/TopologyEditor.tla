--------------------------- MODULE TopologyEditor ---------------------------
(***************************************************************************)
(* The RViz panel that edits a topology graph (route3d_topology_editor:    *)
(* TopologyEditorPanel) on its document (TopologyDocument).                *)
(*                                                                         *)
(* Slots of the panel run one after the other on the GUI thread, so each   *)
(* is one action; an exception that leaves a slot ends the program, one    *)
(* that a slot catches leaves behind what it had done.  Vertices lie on a  *)
(* line, at integer places two metres apart: a click at a place meets the  *)
(* vertices and edges there.  attr stands for the attributes of the forms. *)
(***************************************************************************)
EXTENDS Integers, Sequences, FiniteSets, FiniteSetsExt, SequencesExt

CONSTANTS
  Places,      \* 0 .. n, where vertices may lie
  Attributes,  \* values of the forms
  UndoLimit,   \* length of undo_stack_ (50)
  MaxId,       \* bound: vertex and edge ids
  MaxEdits     \* bound: changes of the document

ASSUME EditorAssumption ==
  UndoLimit \in Nat \ {0} /\ MaxId \in Nat \ {0, 1} /\ Places \subseteq Nat

VARIABLES
  file,      \* the document on disk
  document,  \* document_.data(): version, v, the vertices, and e, the edges
  undos,     \* undo_stack_
  redos,     \* redo_stack_
  dirty_,     \* dirty_
  kind,      \* page of the panel: "vertices" or "edges"
  selected,  \* id selected on that page, 0 for none
  mode,      \* checked button: "none", "addVertex", "addEdge", "move", "pick"
  pending,   \* pending_edge_start_vertex_id_, 0 for none
  moving,    \* moving_vertex_id_, 0 for none
  batch,     \* batch_start_vertex_id_, ..end.., batch_vertex_ids_, batch_edge_ids_
  panel,     \* "loaded", "not loaded" or, when an exception left a slot, "crashed"
  edits

stacks == <<undos, redos>>
choice == <<kind, selected>>
tools == <<mode, pending, moving>>
editorVars == <<file, document, stacks, dirty_, choice, tools, batch, panel, edits>>

-----------------------------------------------------------------------------
(* The document *)

Length(v, a, b) == IF v[a].at < v[b].at THEN v[b].at - v[a].at ELSE v[a].at - v[b].at

\* validate(): edges join two different vertices of the document.
Valid(d) ==
  /\ DOMAIN d.v # {}
  /\ \A i \in DOMAIN d.e :
       /\ d.e[i].ends[1] # d.e[i].ends[2]
       /\ {d.e[i].ends[1], d.e[i].ends[2]} \subseteq DOMAIN d.v
       /\ d.e[i].weight >= 0

JoinedOnce(e) ==
  \A i, j \in DOMAIN e :
    {e[i].ends[1], e[i].ends[2]} = {e[j].ends[1], e[j].ends[2]} => i = j

\* What the web console's store asks of a document: positive ids, and no two
\* edges between the same vertices.
StoreAccepts(d) ==
  /\ 0 \notin DOMAIN d.v \cup DOMAIN d.e
  /\ \A i \in DOMAIN d.e :
       /\ d.e[i].ends[1] # d.e[i].ends[2]
       /\ {d.e[i].ends[1], d.e[i].ends[2]} \subseteq DOMAIN d.v
       /\ d.e[i].weight >= 0
  /\ JoinedOnce(d.e)

nextId(elements) == 1 + (IF elements = {} THEN 0 ELSE Max(elements))

With(f, i, value) == [j \in DOMAIN f \cup {i} |-> IF j = i THEN value ELSE f[j]]
Without(f, ids) == [j \in DOMAIN f \ ids |-> f[j]]

IncidentEdges(d, id) == {i \in DOMAIN d.e : id \in {d.e[i].ends[1], d.e[i].ends[2]}}

addVertex(d, at) ==
  [d EXCEPT !.v = With(d.v, nextId(DOMAIN d.v), [at |-> at, attr |-> 0])]

addEdge(d, a, b) ==
  [d EXCEPT !.e = With(d.e, nextId(DOMAIN d.e),
                       [ends |-> <<a, b>>, weight |-> Length(d.v, a, b), attr |-> 0])]

\* The edges of the vertex go with it.
\* (mutated: they stay)
removeVertexMutant(d, id) == [d EXCEPT !.v = Without(d.v, {id})]
removeVertex(d, id) ==
  [d EXCEPT !.v = Without(d.v, {id}), !.e = Without(d.e, IncidentEdges(d, id))]

removeEdge(d, id) == [d EXCEPT !.e = Without(d.e, {id})]

recomputeIncidentWeights(d, id) ==
  [d EXCEPT !.e = [i \in DOMAIN d.e |->
     IF i \in IncidentEdges(d, id)
     THEN [d.e[i] EXCEPT !.weight = Length(d.v, d.e[i].ends[1], d.e[i].ends[2])]
     ELSE d.e[i]]]

\* shortestPath(): the edges of a walk from a vertex, and where it leads.
Walks(d, from) ==
  {w \in SeqOf(DOMAIN d.e, Cardinality(DOMAIN d.v) - 1) :
     \E v \in [1 .. Len(w) + 1 -> DOMAIN d.v] :
       /\ v[1] = from /\ IsInjective(v)
       /\ \A i \in DOMAIN w : {v[i], v[i + 1]} = {d.e[w[i]].ends[1], d.e[w[i]].ends[2]}}

Visited(d, from, w) ==
  {from} \cup UNION {{d.e[w[i]].ends[1], d.e[w[i]].ends[2]} : i \in DOMAIN w}

Reaches(d, from, w, to) ==
  IF w = <<>> THEN from = to
  ELSE to \in {d.e[Last(w)].ends[1], d.e[Last(w)].ends[2]}
       /\ to \notin Visited(d, from, Front(w))

WalkLength(d, w) == FoldSeq(LAMBDA i, sum : sum + d.e[i].weight, 0, w)

ShortestPaths(d, from, to) ==
  LET walks == {w \in Walks(d, from) : Reaches(d, from, w, to)}
  IN  {w \in walks : \A other \in walks : WalkLength(d, w) <= WalkLength(d, other)}

-----------------------------------------------------------------------------

First ==
  [version |-> 0,
   v |-> [i \in {1, 2} |-> [at |-> i - 1, attr |-> 0]],
   e |-> [i \in {1} |-> [ends |-> <<1, 2>>, weight |-> 1, attr |-> 0]]]

NoBatch == [start |-> 0, end |-> 0, vertices |-> {}, edges |-> {}]

\* The state after loadGraph().
EditorInit ==
  /\ file = First /\ document = First
  /\ undos = <<>> /\ redos = <<>> /\ dirty_ = FALSE
  /\ kind = "vertices" /\ selected = 1
  /\ mode = "none" /\ pending = 0 /\ moving = 0 /\ batch = NoBatch
  /\ panel = "loaded" /\ edits = 0

Elements(d, page) == IF page = "vertices" THEN DOMAIN d.v ELSE DOMAIN d.e

\* populateSelection(): the preferred id if it is there, else the first.
populateSelection(d, page, preferred) ==
  LET ids == Elements(d, page)
  IN  /\ kind' = page
      /\ selected' = IF preferred \in ids THEN preferred ELSE IF ids = {} THEN 0 ELSE Min(ids)

\* publishMarkers() looks up the path and its ends; an id that is not there throws.
Drawable(d, b) ==
  /\ b.vertices \subseteq DOMAIN d.v /\ b.edges \subseteq DOMAIN d.e
  /\ {b.start, b.end} \subseteq DOMAIN d.v \cup {0}

publishMarkers == panel' = IF Drawable(document', batch') THEN "loaded" ELSE "crashed"

\* recomputeBatchPath() after its first return: no path drops the end.
SetBatch(start, end) ==
  LET paths == ShortestPaths(document', start, end)
  IN  IF paths = {} THEN batch' = [NoBatch EXCEPT !.start = start]
      ELSE \E w \in paths :
             batch' = [start |-> start, end |-> end,
                       vertices |-> Visited(document', start, w), edges |-> ToSet(w)]

recomputeBatchPath ==
  IF batch.start = 0 \/ batch.end = 0
  THEN batch' = [batch EXCEPT !.vertices = {}, !.edges = {}]
  ELSE SetBatch(batch.start, batch.end)

Keep(s) == IF Len(s) > UndoLimit THEN Tail(s) ELSE s

\* What every edit does to the stacks: the document before it can be restored.
\* (mutated: an edit leaves what was undone to be redone)
RememberMutant ==
  /\ edits < MaxEdits /\ edits' = edits + 1
  /\ undos' = Keep(Append(undos, document)) /\ redos' = redos /\ dirty_' = TRUE
Remember ==
  /\ edits < MaxEdits /\ edits' = edits + 1
  /\ undos' = Keep(Append(undos, document)) /\ redos' = <<>> /\ dirty_' = TRUE

Commit(d) == Remember /\ document' = [d EXCEPT !.version = @ + 1]

Ready == panel = "loaded"

-----------------------------------------------------------------------------
(* Pages and buttons *)

Select(page, id) ==
  /\ Ready /\ populateSelection(document, page, id)
  /\ UNCHANGED <<file, document, stacks, dirty_, tools, batch, edits>>
  /\ publishMarkers

Check(button) ==
  /\ Ready /\ mode' = button /\ pending' = 0
  /\ button = "move" => kind = "vertices" /\ selected > 0
  /\ moving' = IF button = "move" THEN selected ELSE 0
  /\ UNCHANGED <<file, document, stacks, dirty_, choice, batch, edits>>
  /\ publishMarkers

setBatchStart ==
  /\ Ready /\ kind = "vertices" /\ selected > 0
  /\ batch' = [NoBatch EXCEPT !.start = selected]
  /\ UNCHANGED <<file, document, stacks, dirty_, choice, tools, edits>>
  /\ publishMarkers

setBatchEnd ==
  /\ Ready /\ kind = "vertices" /\ selected > 0 /\ batch.start > 0
  /\ UNCHANGED <<file, document, stacks, dirty_, choice, tools, edits>>
  /\ SetBatch(batch.start, selected)
  /\ publishMarkers

clearBatchSelection ==
  /\ Ready /\ batch' = NoBatch
  /\ mode' = IF mode = "pick" THEN "none" ELSE mode
  /\ UNCHANGED <<file, document, stacks, dirty_, choice, pending, moving, edits>>
  /\ publishMarkers

-----------------------------------------------------------------------------
(* Edits through the forms *)

Moved(id, at) == recomputeIncidentWeights([document EXCEPT !.v[id].at = at], id)

applyChanges(at, attr) ==
  /\ Ready /\ selected > 0
  /\ Commit(IF kind = "vertices" THEN [Moved(selected, at) EXCEPT !.v[selected].attr = attr]
            ELSE [document EXCEPT !.e[selected].attr = attr])
  /\ UNCHANGED <<file, choice, tools, batch>>
  /\ publishMarkers

applyAllObstacleMode(attr) ==
  /\ Ready /\ DOMAIN document.e # {}
  /\ Commit([document EXCEPT !.e = [i \in DOMAIN @ |-> [@[i] EXCEPT !.attr = attr]]])
  /\ UNCHANGED <<file, choice, tools, batch>>
  /\ publishMarkers

\* An id that is gone throws, and the document is put back.
applyBatchChanges(attr) ==
  /\ Ready /\ batch.vertices # {} /\ batch.end > 0
  /\ IF kind = "vertices"
     THEN /\ batch.vertices \subseteq DOMAIN document.v
          /\ Commit([document EXCEPT !.v = [i \in DOMAIN @ |->
               IF i \in batch.vertices THEN [@[i] EXCEPT !.attr = attr] ELSE @[i]]])
     ELSE /\ batch.edges # {} /\ batch.edges \subseteq DOMAIN document.e
          /\ Commit([document EXCEPT !.e = [i \in DOMAIN @ |->
               IF i \in batch.edges THEN [@[i] EXCEPT !.attr = attr] ELSE @[i]]])
  /\ UNCHANGED <<file, choice, tools, batch>>
  /\ publishMarkers

\* Both deletes first end the mode of the button that was pressed.  The end of the
\* add-edge mode draws the selected element, which is gone by now, and throws: the
\* document is put back, what was done to the stacks stays.
DeleteFails ==
  /\ mode = "addEdge" /\ mode' = "none" /\ pending' = 0
  /\ Remember
  /\ UNCHANGED <<document, choice, moving, batch, panel>>

\* Then they forget the path.
AfterDelete ==
  /\ batch' = NoBatch /\ pending' = 0 /\ moving' = 0
  /\ mode' = IF mode = "pick" THEN "pick" ELSE "none"
  /\ publishMarkers

Deleted(d) ==
  /\ UNCHANGED file
  /\ \/ DeleteFails
     \/ /\ mode # "addEdge"
        /\ Commit(d)
        /\ populateSelection(document', kind, 0)
        /\ AfterDelete

deleteSelectedVertex ==
  /\ Ready /\ kind = "vertices" /\ selected > 0 /\ Cardinality(DOMAIN document.v) > 1
  /\ Deleted(removeVertex(document, selected))

deleteSelectedEdge ==
  /\ Ready /\ kind = "edges" /\ selected > 0
  /\ Deleted(removeEdge(document, selected))

-----------------------------------------------------------------------------
(* Clicks on the map: selectNearest *)

addVertexAt(at) ==
  /\ mode = "addVertex"
  /\ \A i \in DOMAIN document.v : document.v[i].at # at
  /\ nextId(DOMAIN document.v) <= MaxId
  /\ Commit(addVertex(document, at))
  /\ populateSelection(document', "vertices", nextId(DOMAIN document.v))
  /\ UNCHANGED <<tools, batch>>

\* A vertex that an undo has taken away throws: the mode ends, nothing else.
moveVertexTo(at) ==
  /\ mode = "move"
  /\ mode' = "none" /\ moving' = 0 /\ UNCHANGED pending
  /\ IF moving \in DOMAIN document.v
     THEN /\ Commit(Moved(moving, at))
          /\ populateSelection(document', "vertices", moving)
          /\ recomputeBatchPath
     ELSE UNCHANGED <<document, stacks, dirty_, choice, batch, edits>>

VerticesAt(at) == {i \in DOMAIN document.v : document.v[i].at = at}
EdgesAt(at) ==
  {i \in DOMAIN document.e :
     LET ends == {document.v[document.e[i].ends[1]].at, document.v[document.e[i].ends[2]].at}
     IN  Min(ends) <= at /\ at <= Max(ends)}

Joined(a, b) == \E i \in DOMAIN document.e : {document.e[i].ends[1], document.e[i].ends[2]} = {a, b}

\* addEdge() refuses equal, missing and joined vertices; the start stays pending.
addEdgeTo(id) ==
  /\ mode = "addEdge" /\ UNCHANGED <<mode, moving>>
  /\ IF pending = 0
     THEN /\ pending' = id
          /\ populateSelection(document, "vertices", id)
          /\ UNCHANGED <<document, stacks, dirty_, batch, edits>>
     ELSE IF pending = id \/ pending \notin DOMAIN document.v \/ Joined(pending, id)
     THEN /\ populateSelection(document, "vertices", id)
          /\ UNCHANGED <<document, stacks, dirty_, pending, batch, edits>>
     ELSE /\ nextId(DOMAIN document.e) <= MaxId
          /\ Commit(addEdge(document, pending, id))
          /\ pending' = 0
          /\ populateSelection(document', "edges", nextId(DOMAIN document.e))
          /\ IF batch.start > 0 /\ batch.end > 0 THEN recomputeBatchPath ELSE UNCHANGED batch

PickBatch(id) ==
  /\ mode = "pick" /\ populateSelection(document, "vertices", id)
  /\ UNCHANGED <<document, stacks, dirty_, pending, moving, edits>>
  /\ IF batch.start = 0 \/ batch.end > 0
     THEN batch' = [NoBatch EXCEPT !.start = id] /\ UNCHANGED mode
     ELSE SetBatch(batch.start, id) /\ mode' = "none"

PickElement(page, id) ==
  /\ mode = "none" /\ kind = page
  /\ populateSelection(document, page, id)
  /\ UNCHANGED <<document, stacks, dirty_, tools, batch, edits>>

selectNearest(at) ==
  /\ Ready
  /\ \/ addVertexAt(at)
     \/ moveVertexTo(at)
     \/ VerticesAt(at) # {} /\ LET id == Min(VerticesAt(at))
                               IN  addEdgeTo(id) \/ PickBatch(id) \/ PickElement("vertices", id)
     \/ EdgesAt(at) # {} /\ PickElement("edges", Min(EdgesAt(at)))
  /\ UNCHANGED file
  /\ publishMarkers

-----------------------------------------------------------------------------
(* Undo, redo and the file *)

undo ==
  /\ Ready /\ undos # <<>>
  /\ redos' = Append(redos, document)
  /\ document' = Last(undos) /\ undos' = Front(undos)
  /\ dirty_' = TRUE
  /\ populateSelection(document', kind, selected)
  /\ UNCHANGED <<file, tools, batch, edits>>
  /\ publishMarkers

redo ==
  /\ Ready /\ redos # <<>>
  /\ undos' = Append(undos, document)
  /\ document' = Last(redos) /\ redos' = Front(redos)
  /\ dirty_' = TRUE
  /\ populateSelection(document', kind, selected)
  /\ UNCHANGED <<file, tools, batch, edits>>
  /\ publishMarkers

\* saveGraph(): written, then read back; the stacks stay.
saveGraph ==
  /\ Ready /\ Valid(document)
  /\ file' = document /\ dirty_' = FALSE
  /\ UNCHANGED <<document, stacks, choice, tools, batch, panel, edits>>

\* The file is read first: ending the add-edge mode throws here as well, if the
\* element that is still selected is not in the file, and nothing counts as loaded.
LoadThrows == mode = "addEdge" /\ selected \notin Elements(file, kind) \cup {0}

loadGraph ==
  /\ panel # "crashed"
  /\ document' = file /\ undos' = <<>> /\ redos' = <<>>
  /\ batch' = NoBatch /\ mode' = "none" /\ pending' = 0
  /\ UNCHANGED <<file, edits>>
  /\ IF LoadThrows
     THEN panel' = "not loaded" /\ UNCHANGED <<dirty_, choice, moving>>
     ELSE /\ dirty_' = FALSE /\ moving' = 0
          /\ populateSelection(document', kind, 0)
          /\ publishMarkers

-----------------------------------------------------------------------------

EditorNext ==
  \/ \E page \in {"vertices", "edges"} : \E id \in Elements(document, page) \cup {0} :
       Select(page, id)
  \/ \E button \in {"none", "addVertex", "addEdge", "move", "pick"} : Check(button)
  \/ setBatchStart \/ setBatchEnd \/ clearBatchSelection
  \/ \E at \in Places, attr \in Attributes : applyChanges(at, attr)
  \/ \E attr \in Attributes : applyAllObstacleMode(attr) \/ applyBatchChanges(attr)
  \/ deleteSelectedVertex \/ deleteSelectedEdge
  \/ \E at \in Places : selectNearest(at)
  \/ undo \/ redo \/ saveGraph \/ loadGraph

EditorSpec == EditorInit /\ [][EditorNext]_editorVars

-----------------------------------------------------------------------------
(* Properties *)

Documents == {document, file} \cup ToSet(undos) \cup ToSet(redos)

\* Whatever is edited, undone, redone, saved and loaded: every document that can
\* come back is one that validate() accepts and that the web console's store
\* takes too, and the weights of its edges are the distances of their ends,
\* which the planner takes for their cost (removeVertex, addEdge,
\* recomputeIncidentWeights).
DocumentsSound ==
  \A d \in Documents :
    /\ Valid(d) /\ StoreAccepts(d)
    /\ \A i \in DOMAIN d.e : d.e[i].weight = Length(d.v, d.e[i].ends[1], d.e[i].ends[2])

\* The two stacks are one line of documents: undo and redo move along it.  An edit
\* that took hold (its version is new) cuts off what was undone and comes behind the
\* document before it, the oldest is dropped when the stack is full.  The one other
\* step that touches the line, but for a load, is a delete that failed in add-edge
\* mode: it puts the document on the line a second time.
Timeline == undos \o <<document>> \o Reverse(redos)
UndoneComesBack ==
  [][LET past == undos \o <<document>>
         Recorded == \/ Timeline' = Append(past, document')
                     \/ Len(past) > UndoLimit /\ Timeline' = Append(Tail(past), document')
     IN  \/ Timeline' = Timeline
         \/ Recorded /\ document'.version = document.version + 1
         \/ Recorded /\ DeleteFails /\ document' = document
         \/ loadGraph]_editorVars

\* All structural changes can be undone (README.md:35 of the editor): undo and
\* redo do not end the panel.
UndoIsSupported == panel # "crashed"
=============================================================================
