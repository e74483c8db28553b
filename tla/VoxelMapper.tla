---------------------------- MODULE VoxelMapper -----------------------------
(***************************************************************************)
(* local_voxel_mapper_node with its rolling_voxel_map, and the node that   *)
(* extends its obstacles by the space they hide                            *)
(* (obstacle_occlusion_extension).                                         *)
(*                                                                         *)
(* Subscription callbacks queue clouds and odometry; a worker thread pairs *)
(* the head of the queue with the nearest odometry and, outside the lock   *)
(* of the queue, updates the map and publishes its grid.  The map is seen  *)
(* at one voxel.  Stamps count clouds: the lidar sends one per tick, and   *)
(* log odds are integers (a hit weighs two misses, as in the code).        *)
(***************************************************************************)
EXTENDS Integers, Sequences, FiniteSets, FiniteSetsExt

CONSTANTS
  MaxStamp,        \* bound: clouds and odometry messages sent
  QueueCapacity,   \* sync.cloud_queue_capacity
  HistoryCapacity, \* sync.odometry_history_capacity
  Tolerance,       \* sync.tolerance, in ticks
  LogHit, LogMiss, LogFloor, LogMax, Threshold, \* map.log_hit, -log_miss, -log_min, ...
  HitConfirmation, \* map.hit_confirmation_count
  DecayStart, DecayRate, \* map.decay_start, map.decay_rate, per tick
  FrontOnly,       \* map.decay_front_only
  Poses,           \* where the voxel is: "front", "behind", "inside", "far"
  Scans,           \* what a cloud hits: sets of "voxel" and "beyond"; {"malformed"} is no cloud
  MaxSwitches      \* bound: parameter changes of the two nodes

ASSUME CapacityAssumption == QueueCapacity \in Nat \ {0} /\ HistoryCapacity \in Nat \ {0}
ASSUME BoundAssumption == {MaxStamp, Tolerance, MaxSwitches} \subseteq Nat
ASSUME LogAssumption ==
  /\ LogFloor \in Nat \ {0} /\ LogMax \in Nat /\ Threshold \in 1 .. LogMax
  /\ LogHit \in Nat \ {0} /\ LogMiss \in Nat \ {0}
  /\ HitConfirmation \in Nat \ {0} /\ DecayStart \in Nat /\ DecayRate \in Nat

VARIABLES
  queue,     \* cloud_queue_: [stamp, scan, expired]
  history,   \* odometry_history_: [stamp, pose]
  sent,      \* last stamps of cloud and odometry
  frame,     \* what the worker took from the queue, a set of at most one
  cell,      \* the voxel: log_odds, last_update, last_hit, consecutive_hits, hard_confirmed
  seen,      \* history: the last observations of the voxel
  radius,    \* soft_inflation_radius: "small" or "large"
  grid,      \* the grid last published, a set of at most one
  topic,     \* grid under way to the extension (depth 1; a lost one stays until the next)
  enabled,   \* extension.enabled
  latest,    \* latest_grid_ of the extension
  planner,   \* the grid last published for the planner
  switches

inputs == <<queue, history, sent>>
map == <<cell, seen, grid>>
extension == <<enabled, latest, planner>>
vars == <<inputs, frame, map, radius, topic, extension, switches>>

LogMin == - LogFloor

NewCell == [log |-> 0, update |-> 0, hit |-> 0, run |-> 0, hard |-> FALSE]

Init ==
  /\ queue = <<>> /\ history = <<>> /\ sent = [cloud |-> 0, odometry |-> 0]
  /\ frame = {}
  /\ cell = NewCell /\ seen = <<>>
  /\ radius = "small" /\ grid = {} /\ topic = {}
  /\ enabled = TRUE /\ latest = {} /\ planner = {}
  /\ switches = 0

-----------------------------------------------------------------------------
(* Inputs of the mapper *)

Keep(s, capacity) == IF Len(s) > capacity THEN Tail(s) ELSE s

\* (mutated: the newest cloud is put first)
cloudCallbackMutant(scan) ==
  /\ sent.cloud < MaxStamp
  /\ sent' = [sent EXCEPT !.cloud = @ + 1]
  /\ queue' = SubSeq(<<[stamp |-> sent'.cloud, scan |-> scan, expired |-> FALSE]>> \o queue,
                     1, Min({QueueCapacity, Len(queue) + 1}))
  /\ UNCHANGED <<history, frame, map, radius, topic, extension, switches>>
cloudCallback(scan) ==
  /\ sent.cloud < MaxStamp
  /\ sent' = [sent EXCEPT !.cloud = @ + 1]
  /\ queue' = Keep(Append(queue, [stamp |-> sent'.cloud, scan |-> scan, expired |-> FALSE]),
                   QueueCapacity)
  /\ UNCHANGED <<history, frame, map, radius, topic, extension, switches>>

odometryCallback(pose) ==
  /\ sent.odometry < MaxStamp /\ sent.odometry <= sent.cloud
  /\ sent' = [sent EXCEPT !.odometry = @ + 1]
  /\ history' = Keep(Append(history, [stamp |-> sent'.odometry, pose |-> pose]),
                     HistoryCapacity)
  /\ UNCHANGED <<queue, frame, map, radius, topic, extension, switches>>

\* The head of the queue has waited for max_wait.
WaitExpires ==
  /\ queue # <<>> /\ ~ Head(queue).expired
  /\ queue' = [queue EXCEPT ![1].expired = TRUE]
  /\ UNCHANGED <<history, sent, frame, map, radius, topic, extension, switches>>

-----------------------------------------------------------------------------
(* The worker *)

Distance(odometry, cloud) ==
  IF odometry.stamp < cloud.stamp THEN cloud.stamp - odometry.stamp
  ELSE odometry.stamp - cloud.stamp

\* The first of the messages nearest in time.
Nearest(cloud) ==
  LET distances == {Distance(history[i], cloud) : i \in DOMAIN history}
  IN  history[Min({i \in DOMAIN history : Distance(history[i], cloud) = Min(distances)})]

Matched ==
  queue # <<>> /\ history # <<>> /\ Distance(Nearest(Head(queue)), Head(queue)) <= Tolerance

TakeFrame ==
  /\ frame = {} /\ Matched
  /\ frame' = {[stamp |-> Head(queue).stamp, scan |-> Head(queue).scan,
                pose |-> Nearest(Head(queue)).pose]}
  /\ queue' = Tail(queue)
  /\ UNCHANGED <<history, sent, map, radius, topic, extension, switches>>

\* (mutated: only newer odometry lets the worker give up the head)
HopelessMutant ==
  history # <<>> /\ history[Len(history)].stamp > Head(queue).stamp + Tolerance
Hopeless ==
  \/ Head(queue).expired
  \/ history # <<>> /\ history[Len(history)].stamp > Head(queue).stamp + Tolerance

DropFrame ==
  /\ frame = {} /\ queue # <<>> /\ ~ Matched /\ Hopeless
  /\ queue' = Tail(queue)
  /\ UNCHANGED <<history, sent, frame, map, radius, topic, extension, switches>>

-----------------------------------------------------------------------------
(* The voxel *)

Clamped(log) == Max({LogMin, Min({LogMax, log})})

\* transformCloud leaves points on the body out.
Points(f) == IF f.pose = "inside" THEN f.scan \ {"voxel"} ELSE f.scan

\* A hit wins over the free rays of the same scan; outside the window nothing
\* is observed.
Observation(f) ==
  CASE f.pose # "far" /\ "voxel" \in Points(f) -> "hit"
    [] f.pose # "far" /\ "voxel" \notin Points(f) /\ "beyond" \in Points(f) -> "free"
    [] OTHER -> "none"

Hit(c, stamp) ==
  LET log == Clamped(c.log + LogHit)
      run == Min({HitConfirmation, c.run + 1})
  IN  [log |-> log, update |-> stamp, hit |-> stamp, run |-> run,
       hard |-> c.hard \/ (run >= HitConfirmation /\ log >= Threshold)]

\* (mutated: a free ray does not end the run of hits)
PassedMutant(c, stamp) ==
  LET log == Clamped(c.log - LogMiss)
  IN  [c EXCEPT !.log = log, !.update = stamp, !.hard = @ /\ log >= Threshold]
Passed(c, stamp) ==
  LET log == Clamped(c.log - LogMiss)
  IN  [c EXCEPT !.log = log, !.update = stamp, !.run = 0, !.hard = @ /\ log >= Threshold]

Observe(c, f) ==
  CASE Observation(f) = "hit" -> Hit(c, f.stamp)
    [] Observation(f) = "free" -> Passed(c, f.stamp)
    [] OTHER -> c

Occupied(c) == c.hard /\ c.log >= Threshold

Decay(c, stamp) ==
  LET age == stamp - c.update
      due == c.hit > 0 /\ stamp - c.hit > DecayStart /\ age > 0
      log == Max({LogMin, c.log - DecayRate * age})
      next == IF due THEN [c EXCEPT !.log = log, !.update = stamp, !.hard = @ /\ log >= Threshold]
              ELSE c
  IN  IF next.log = LogMin /\ age > 0 THEN NewCell ELSE next

\* Behind the robot an obstacle does not fade, and its clock goes on.
Preserved(c, pose) == FrontOnly /\ Occupied(c) /\ c.hit > 0 /\ pose = "behind"

\* (mutated: the clock of a preserved voxel stands)
FadeMutant(c, f) ==
  CASE f.pose = "far" -> NewCell
    [] f.pose # "far" /\ Preserved(c, f.pose) -> c
    [] OTHER -> Decay(c, f.stamp)
Fade(c, f) ==
  CASE f.pose = "far" -> NewCell
    [] f.pose # "far" /\ Preserved(c, f.pose) -> [c EXCEPT !.update = f.stamp]
    [] OTHER -> Decay(c, f.stamp)

clearBodyExclusion(c, pose) == IF pose = "inside" /\ Occupied(c) THEN NewCell ELSE c

\* RollingVoxelMap::update, then the body is cleared.
Updated(c, f) == clearBodyExclusion(Fade(Observe(c, f), f), f.pose)

-----------------------------------------------------------------------------
(* Publishing *)

Revision == IF grid = {} THEN 0 ELSE (CHOOSE g \in grid : TRUE).revision

publishGrid(c, stamp, r) ==
  /\ grid' = {[stamp |-> stamp, revision |-> Revision + 1, occupied |-> Occupied(c), radius |-> r]}
  /\ topic' = grid'

\* A message that is not a cloud throws before the map is touched.
processFrame ==
  \E f \in frame :
    /\ frame' = {}
    /\ IF "malformed" \in f.scan THEN UNCHANGED <<map, topic>>
       ELSE
         /\ cell' = Updated(cell, f)
         /\ seen' = CASE Observation(f) # "none" -> Keep(Append(seen, Observation(f)), HitConfirmation)
                      [] OTHER -> seen
         /\ publishGrid(cell', f.stamp, radius)
    /\ UNCHANGED <<inputs, radius, extension, switches>>

\* (mutated: the change waits for the next cloud)
setSoftInflationRadiusMutant(r) ==
  /\ r # radius /\ switches < MaxSwitches
  /\ radius' = r /\ switches' = switches + 1
  /\ UNCHANGED <<grid, topic>>
  /\ UNCHANGED <<inputs, frame, cell, seen, extension>>
\* parametersCallback of the mapper: the grid is published again before the
\* service answers.
setSoftInflationRadius(r) ==
  /\ r # radius /\ switches < MaxSwitches
  /\ radius' = r /\ switches' = switches + 1
  /\ IF grid = {} THEN UNCHANGED <<grid, topic>>
     ELSE \E g \in grid : publishGrid(cell, g.stamp, r)
  /\ UNCHANGED <<inputs, frame, cell, seen, extension>>

-----------------------------------------------------------------------------
(* The occlusion extension; it runs on one thread *)

\* Shadows need an obstacle and the place of the observer, which TF may not have.
Extend(g, on) ==
  \E found \in BOOLEAN :
    planner' = {[stamp |-> g.stamp, revision |-> g.revision, radius |-> g.radius,
                 shadow |-> on /\ found /\ g.occupied]}

gridCallback ==
  \E g \in topic :
    /\ topic' = {}
    /\ latest' = {g}
    /\ Extend(g, enabled)
    /\ UNCHANGED <<inputs, frame, map, radius, enabled, switches>>

setExtension(on) ==
  /\ on # enabled /\ switches < MaxSwitches
  /\ enabled' = on /\ switches' = switches + 1
  /\ IF latest = {} THEN UNCHANGED planner
     ELSE \E g \in latest : Extend(g, on)
  /\ UNCHANGED <<inputs, frame, map, radius, topic, latest>>

-----------------------------------------------------------------------------

Next ==
  \/ \E scan \in Scans : cloudCallback(scan)
  \/ \E pose \in Poses : odometryCallback(pose)
  \/ WaitExpires \/ TakeFrame \/ DropFrame \/ processFrame
  \/ \E r \in {"small", "large"} : setSoftInflationRadius(r)
  \/ gridCallback
  \/ \E on \in BOOLEAN : setExtension(on)

Spec == Init /\ [][Next]_vars

WorkerDue == frame # {} \/ (queue # <<>> /\ (Matched \/ Hopeless))

\* Time passes and the worker runs (weak fairness, written out: WorkerDue says
\* that one of its steps is enabled); no message has to come.
FairSpec ==
  /\ Spec
  /\ WF_vars(WaitExpires)
  /\ []<>~ WorkerDue \/ []<><<TakeFrame \/ DropFrame \/ processFrame>>_vars

-----------------------------------------------------------------------------
(* Properties *)

CellType ==
  [log : LogMin .. LogMax, update : 0 .. MaxStamp, hit : 0 .. MaxStamp,
   run : 0 .. HitConfirmation, hard : BOOLEAN]

\* The voxel stays in the range that the clamping and the confirmation count
\* promise, its clock never runs ahead of the newest cloud, and a confirmed
\* voxel is always above the threshold.
VoxelTypeOK ==
  /\ cell \in CellType /\ cell.hit <= cell.update /\ cell.update <= sent.cloud
  /\ cell.hard => Occupied(cell)
  /\ Len(queue) <= QueueCapacity /\ Len(history) <= HistoryCapacity

\* An obstacle enters the map only after hit_confirmation_count observations in
\* a row have hit it: noise between free rays is never confirmed (update).
ConfirmedByHits ==
  [][~ Occupied(cell) /\ Occupied(cell') =>
       seen' = [i \in 1 .. HitConfirmation |-> "hit"]]_vars

\* One frame takes from a voxel no more than a miss and the decay of the time
\* since the grid before, with the time decay waits at first: turning towards a wall
\* that was kept while it lay behind the robot does not delete it at once
\* (comment in update).
NoSuddenForgetting ==
  [][\A f \in frame, g \in grid :
       processFrame /\ f.pose \in {"front", "behind"} =>
         cell.log - cell'.log <= LogMiss + DecayRate * (DecayStart + f.stamp - g.stamp)]_vars

EvidenceIsGradual == ConfirmedByHits /\ NoSuddenForgetting

\* The grids are numbered and stamped in order, for the planner too, though
\* both nodes publish an old grid again when their parameters change.
MapsInOrder ==
  [][/\ \A g \in grid, h \in grid' : g.stamp <= h.stamp /\ g.revision <= h.revision
     /\ \A g \in planner, h \in planner' : g.stamp <= h.stamp /\ g.revision <= h.revision]_vars

\* Once a node has answered, its newest grid is of the profile it confirmed
\* (comments in both parametersCallback): no shadow of a disabled extension, no
\* old radius.
ProfileInNewestGrid ==
  /\ \A g \in grid : g.radius = radius
  /\ \A g \in planner : g.shadow => enabled

\* The voxel keeps its ranges and its clock, and the grids their profile.
MapperSafe == VoxelTypeOK /\ ProfileInNewestGrid

\* Every cloud is used or given up, also when no odometry comes any more
\* (workerLoop: the wait is bounded by max_wait): the queue is worked off.
QueueDrains == queue # <<>> ~> queue = <<>>
=============================================================================
