# A verification project for the M20 Route3D workspace

This directory holds TLA+ modules for the control logic of the Route3D workspace
(`src/`): modules that follow the code operation by operation, TLC configurations
that check them on small instances, and TLAPS proofs of what must hold for every
instance. Paths are relative to the repository; packages live under `src/src/`.

Contents: 1 the system, 2 the modules and the code, 3 the runs, 4 the proofs,
5 where code and documents disagree, 6 what is not modelled, 7 what is left to do.

## 1. The system

The workspace drives an M20 quadruped along a topology map:

    recorder / editor -> topology JSON -> route3d_dijkstra_planner
        -> route3d_route_slicer
        -> route3d_pid_controller  (executes tasks; PID or efficient_3d_local_planner)
        -> route3d_m20_adapter     (gates and limits one velocity source)
        -> basic_server_bridge     (UDP/TCP APDU frames) -> robot

`m20_ready_cmd_vel.py` prepares the robot (usage mode, Stand, RL) and tells the
adapter when it may drive. `route3d_loop_patrol` and `route3d_web_console` are the
operators' front ends, `recorded_waypoint_route` drives recorded routes with the
same local planner. Beside this chain stand a manual velocity chain
(`m20_velocity_control`), an earlier route server over point-cloud graphs
(`nav2_route3d`) and two benchmarks that drive the local path follower.

### Inventory

| Part | State it keeps | Operations | Talks to | What is hard | What makes it correct |
|---|---|---|---|---|---|
| route executor `route3d_pid_controller/src/pid_controller_node.cpp` | route, task index, active/paused, published selection, safety stop, profile transition and revision | task array, odometry, cloud and stop topics; five services; control timer; parameter answers | slicer, adapter, efficient planner, patrol | answers that come after the task changed; services between control periods; stops that come and go | one motion source at a time, none when paused; stops held until the clear hold; efficient drives only under its profile |
| safety gates `safety_clear_gate.cpp` | time since clear; frame counters | update, ready, reset | executor | hysteresis, resets at every task change | a stop ends only after an uninterrupted clear hold, and does end |
| route tracker `controller_core.cpp` | progress, segment, open corner, final adjustment | set task, update | executor | projection on a route that comes back beside itself, pushes | no mandatory corner is cut; a task is driven to its end |
| M20 adapter `m20_route_adapter_node.cpp` | last velocities, source, ready flag, motion state, their ages | subscriptions, 50 Hz tick | executor, follower, preparation, bridge | stale inputs around source switches | silent inputs stop the robot; nothing selected hands over to the remote control |
| bridge `basic_server_bridge_node.cpp` | command queue, axis time, stop-sent flag, pending answers, socket | callbacks (one thread), worker (another) | adapter, preparation, robot | two threads, failing sends, reconnects, 16-bit ids | commands in order and at most once; silence stops the robot; a dead link is replaced |
| APDU stream `apdu_parser.cpp`, `basic_server_client.cpp` | receive buffer | receive, parse, extract, reconnect | bridge, robot | TCP cuts anywhere, bodies that look like frames, a rest of the last connection | the frames written are the frames handled |
| preparation `m20_ready_cmd_vel.py` | motion state, mode acknowledged, ready | status, result, timer | bridge, adapter | retries, late answers, a fall out of RL | a robot that can be prepared is, again and again |
| planner `topology_graph.cpp`, `dijkstra_planner_node.cpp` | graph, position, latched status | load, plan | slicer, patrol | stale queue entries, zero weights, one-way and parallel edges | a route where there is one, and none cheaper |
| slicer `route_slicer.cpp`, `route_slicer_node.cpp` | sequence number, latched tasks | plan in, tasks out | planner, executor | cuts where edges differ, headings, missed messages | the tasks drive the route, edge for edge; the last plan is answered |
| patrol `route3d_loop_patrol` | phase, direction, legs, baseline, deadline | services, three topics, timer | planner, slicer, executor | late, overwritten and old messages; restarts | only driven legs count, none is skipped |
| web console `route3d_web_console` | child processes, files, recording and generation state | a thread per browser, two poll timers | everything | check-then-act over seconds, processes that die | a chain started while nothing else is under way excludes the recording and drives on the selected file as it is on disk; the end of a recording is reported |
| target sequencer `target_route_sequencer_node.cpp` | route, progress, goal, transition | four latched topics, goals, timer, parameter answers | local planner and mapper | answers to abandoned switches, a new route in the middle of one | a stretch is planned on only under its profile; goals are served |
| local planner `corridor_astar_planner_node.cpp`, `local_path_follower_node.cpp` | current path with id and validity, map, route generation | executor thread, planning thread, follower | mapper, sequencer, adapter | validation and search outside the lock | a verdict is on the path and map it names; blocked and old paths end |
| mapper `local_voxel_mapper_node.cpp`, `rolling_voxel_map.hpp`, occlusion extension | cloud queue, pose history, voxels, grid, revision | callbacks, worker | planner | clouds without poses, decay after a gap, parameters that change meanwhile | grids in order and of one profile; obstacles appear by hits and fade slowly |
| topology recorder `odom_waypoint_node.py`, `topology.py` | growing graph and its cursors | poses, corners, services, timer | planner (by file) | splitting an edge while cursors name it; relocation; failing writes | no cursor on a vanished edge, documents that load, no stray pieces |
| data recorder `route3d_data_recorder_node.cpp` | two queues, pair at work, directory | odometry, clouds, shutdown | offline tools (by file) | failing writes, a kill between two writes, stamps that fall behind each other | what the directory holds was recorded, once, and is complete when it says so |
| topology editor `topology_editor_panel.cpp`, `topology_document.cpp` | document, undo and redo stacks, selection, batch range | slots of a GUI | planner (by file) | what names an element of another document | every document that can come back is valid; undo and redo are inverse |
| manual velocity control `m20_velocity_control_node.cpp`, `velocity_gate.cpp` | last command, state report and their stamps, ready, emergency | callbacks, timer | bridge | a ROS clock that is set back, inputs that fall silent | the robot moves only on recent commands in the RL state, within the limits |
| nav2_route3d: `graph_builder_3d.cpp`, `route_planner_3d.cpp`, `route_server_3d.cpp` | graph with its index and neighbours; frontier of A*; lifecycle state, a thread per goal | build, save, load; plan; lifecycle, reload and action callbacks | files, marker topic | pairs decided from both ends, an inconsistent heuristic, detached threads beside reloads | the file brings the graph back; no cheaper route; a goal is answered from one graph |
| path benchmarks `circle_path_benchmark_node.cpp`, `fixed_path_benchmark_node.cpp` | run state, samples, progress, files | services, odometry, commands, timers, destructor | path follower | arming, disarming and timeouts in any order, NaN poses, failing writes | the follower has a path only while a run goes; completed means driven; files tell of that run |

Everything else is listed in `PROJECT.json` and in section 6.

## 2. Modules

| Module | What it is |
|---|---|
| `PidController` | the route executor, its safety gates, the parameter services it calls |
| `RouteExecution` | what the executor promises to those who follow its status; `PidController` implements it, `PatrolLoop` relies on it |
| `RouteTracker` | the tracker of the PID executor on axis-parallel routes |
| `ServerBridge` | the bridge: callbacks, worker thread, socket and link |
| `ApduStream` | the byte stream of a connection and the parser that finds the frames in it |
| `CommandChannel` | what the bridge promises its callers: a queue and a stop; `ServerBridge` implements it, `MotionChain` relies on it |
| `M20Adapter`, `ReadyPrep` | the adapter's gate; the preparation node |
| `MotionChain` | executor and controllers (environment), adapter, preparation, `CommandChannel`, robot (environment) |
| `TopologyGraph`, `DijkstraPlanner`, `RouteSlicer` | the loaded graph; the search, one queue entry at a time; the slicing, one edge at a time. `RouteSlicer` extends `DijkstraPlanner`, so both nodes run side by side |
| `PatrolLoop` | patrol, Dijkstra node, slicer and executor over their four latched topics |
| `TargetSequencer` | the sequencer of recorded routes, its nodes and the robot |
| `LocalPlanner` | planning node with both threads, and the path follower |
| `VoxelMapper` | mapper with queue, worker and one voxel; the occlusion extension |
| `WebConsole` | the console's handlers and polls over processes and files, and the keyboard process of a live recording |
| `BrowserSessions` | the console's connections: a thread and queues per browser, broadcasts, map loaders, the destructor |
| `TopologyBuilder`, `OdomWaypoint` | the incremental builder; the recording node around it |
| `TopologyEditor` | the panel and its document |
| `DataRecorder` | the recorder of clouds and poses, with its directory |
| `ManualVelocity` | the gate of the manual velocity chain |
| `Graph3D`, `GraphBuilder3D` | the graph of nav2_route3d; how it is built, written and read back |
| `RoutePlanner3D`, `RouteServer3D` | A* on that graph, one arc at a time; the action server with its threads |
| `CircleBenchmark`, `FixedPathBenchmark` | the two benchmarks of the path follower |
| `Route3D`, `PathDrivers` | the programs of nav2_route3d, and the local planner and the two benchmarks, one at a time |
| `MapTools` | recorder, editor or data recorder, one at a time |
| `WebTools` | the two halves of the console side by side in one system for TLC: its commands, or its connections |
| `MCBridge`, `MCRoutes` | parts in one system for TLC, which share no state: threads and bytes of the bridge, and the manual gate; planner with slicer, tracker, and nav2_route3d |
| `MC...` | values for TLC |
| `...Proofs` | the theorems (section 4) |

Each module begins with a comment on its abstractions. What they share:

- **One handler, one action.** A node spun by one thread has one action per callback,
  with all that the callback calls. Members are the fields of a record, methods are
  operators from such a record to the next, named as in the code. Where there are
  two threads (bridge, local planner, mapper, the console's browsers) an action is
  one critical section, or one stretch that no other thread can observe.
- **Time** is counted: control periods in `PidController`, ticks of the clock in the
  bridge and the adapter, clouds in `VoxelMapper`. Ages are capped just past the
  limit they are compared with. Where only "elapsed or not" matters (deadlines of
  the patrol, grace periods of the local planner) elapsing is possible at any time.
- **Latched topics** of depth one are the last message and the set of subscribers that
  have not taken it, so messages are overwritten before they are read.
- **Geometry** is a choice of the environment: whether an end is reached, a cell is
  hit, a pose matches an old edge, a search succeeds.

### How the modules correspond to the code

**`PidController`.** `ctl` holds the members of `PidControllerNode` with what it last
published. `dispatchEfficientProfileRequests` sets `sent`; what `sent` gained is queued
at that node, which serves calls in order, may refuse or restart, and whose answers
arrive in any order, also after the revision was cancelled. The control timer is one
action per way through `controlTimer`, each of which first ages the clear hold and
dispatches requests. Stop inputs that hold for every task are one flag; the cloud is
clear, an obstacle or unparsed, and may be counted once. Left out: poses, tolerances
and the value of a command.

**`RouteTracker`.** `update` is one action: gates, projection, alignment or final adjustment,
completion, in the order of the code. Stretches of a route and headings run along the axes and lengths
are multiples of a resolution, so distances and projections are exact; of a command it is kept whether it turns or
moves the robot, and what the robot then does is part of the same step. A slip
carries the robot one place aside at any moment, a bounded number of times. PID gains, acceleration limits
and the sampled remaining path are left out.

**`ServerBridge`.** Sections under `control_mutex_` are actions, `pc` says where in
`run()` the worker is. `run()` reads `now` once per round: `late` is what that reading
says about both timeouts. A send on a live link is delivered; on a dead one it fails,
or (`SilentLoss`) seems to succeed. `wire` is the last velocity the server received.

**`ApduStream`.** A byte is a number; a length and a message id, two bytes each in the code, are
one number each, and the padding of the header is left out. The server writes whole frames,
the network cuts what it wrote into chunks anywhere, `receive` is `recv`, `extract` and what is left in
`tcp_buffer_`. Noise between frames is not modelled: a TCP connection has none.

**`M20Adapter`, `ReadyPrep`, `MotionChain`.** The subscriptions and `tick` of the adapter
(a command moves or does not, limits are left out), every callback of the preparation
node with its death and restart, and a robot that refuses requests and falls out of
RL. Published values and their delivery are separate, so a value may never be seen.

**`TopologyGraph`, `DijkstraPlanner`, `RouteSlicer`.** The loader's checks are a predicate of
the document. The search keeps the queue with its stale entries. The slicer walks the
route edge by edge and cuts where the code compares neighbours; pass radii and speeds
are one value per edge ("profile").

**`PatrolLoop`.** `considerPlan`, `considerSliced` and `considerController` are the methods of
`PatrolCoordinator`, each callback composes them as the code does. The planner and the
slicer are reduced to whether a pair has a path and whether it slices; the executor
is `RouteExecution`. Each of the four nodes may restart. `finished` and `asked` are
history variables.

**`TargetSequencer`.** Targets lie on a line, a target is its index. The four topics of a
route arrive separately; profile requests are numbered by revision and answered in
any order; the timer may miss the transform or a service.

**`LocalPlanner`.** A path is the way it takes, a map the set of ways it blocks, so that
`validatePath` is membership. The callback's validation and the worker's search run
outside the lock in actions of their own, with what they copied before.

**`VoxelMapper`.** Queue, pose history and wait are those of the node. One voxel carries log
odds as integers, the time of its last update and hit, the run of hits and the
confirmation; a hit weighs two misses as in the code.

**`WebConsole`.** Every browser has a handler of its own, which checks (`Accept`) and then acts in one or
more steps, as the code does between two locks, so check and act of two browsers interleave. A planner's start reads
`selected_topology_path_` (`PlannerReads`) and forks later (`PlannerStarts`); the polls of the ROS thread may switch
the selection in between. `alone` is history: whether nothing that could switch the selection, rewrite a file or start a
recording was under way from the checks to the fork. Files have revisions. The keyboard of the live recording is a process with a
queue of keys that dies, fails or saves. When saving fails it prints a line and lives on (`SavingFails`); the reader thread
hands the line to the console's log callback, which sets the state to "error" whatever it was (`LogCallback`). A process counts as running until its last
line is read (`readerLoop`). Names of recordings hold no key of the keyboard's menu: after a key it ignores, the code would read the name as keys.
`selected_topology_path_` is a `std::filesystem::path` that several threads read and write without a lock; the model
takes each access as one step, a data race in the code gives no such promise.

**`BrowserSessions`.** `session[s]` is a `WebSession` with its four queues and the place of its
thread in `run()`; a step of a queue is one critical section of its mutex. `each()` and the
map loaders copy the list of sessions and then queue for one after the other, so sessions
come and go in between. Of a message only the pose it carries is kept, `shown` is the pose the
page draws (`app.ts`). A connection may break at any write or read. A session's id is not used again.
`WebConsole` and `BrowserSessions` share no state: commands of the first are "any other
command, as long as it takes" in the second.

**`TopologyBuilder`, `OdomWaypoint`.** Operators give the set of builders that a call may
leave, one for each thing the geometry may say. A split moves every reference to one
half, as `_split_edge` does. Writes of the output file may fail.

**`DataRecorder`.** A callback queues and pairs; the writes of a frame (cloud, row of the poses,
manifest, published pose) are actions of their own, each of which may throw or be followed by
a kill; the destructor finalizes the directory. Points and poses are their stamps, which grow on each
topic; messages may be lost.

**`TopologyEditor`.** Slots are actions. `panel` is "loaded", "not loaded" after a load that failed, or "crashed" when an exception
left a slot. An exception that the slot catches leaves what it had done: `DeleteFails` is a delete with the add-edge button checked, whose
`clearGraphEditModes()` draws the element that was just removed after the stacks have been written; `LoadThrows` is the same in `loadGraph`. `Remember` is what every
edit does to the stacks, `Commit` the edit that takes hold and counts the document's `version` up. Vertices lie at integer places.

**`ManualVelocity`.** The callbacks store, the timer takes everything, `evaluate` is `VelocityGate::evaluate`:
its refusals in their order, then the clamps. Ages are differences of readings of the ROS clock, which may be set
back; `elapsed` counts the periods that really passed since an event.

**`Graph3D`, `GraphBuilder3D`.** `addEdge` and `markFakeNeighbors` with the index under which an edge is
found; `JoinNext` is the chain of poses, `processPose` and `connectAllVisible` look at the anchors a ray
at a time. Which anchors a cloud hides is found out when it is asked; edges come back from the file in any order.

**`RoutePlanner3D`.** `ExpandNode` pops a least entry of the frontier, `Relax3D` is one turn of the loop over
the outgoing edges, which come in any order. Improved nodes are queued again and expanded again, as in the code.

**`RouteServer3D`.** A goal is a thread that goes from phase to phase; between lock and unlock it holds
`graph_mutex_`. Lifecycle callbacks and reloads run beside the threads. A graph is the number of its load.

**`CircleBenchmark`, `FixedPathBenchmark`.** One action per callback. A position is its step around the circle, or whether it
is near the reference and its end; measured errors are left out, a sample stands for them. Each write may fail.

## 3. Runs

| Run | Question | Instance |
|---|---|---|
| `stops` | do the gates hold and release the selection as they should, whatever operators do? | one node, profile switching off, four routes (PID with and without obstacle checks, efficient, business stop, unknown controller, refused task), enter 2 / exit 3 frames, hold of 2 periods, one route staged, two alarms |
| `profiles` | is a profile in force whenever efficient drives, and does a switch end? | two nodes, one route of a slope and a flat goal, 4 revisions, one refusal, one restart |
| `bridge` | is the bridge a channel, is the stop the last word, is silence answered, is a dead link replaced; are the frames the server writes the frames that are handled; does the manual gate let only recent, bounded motion through? | threads: timeouts of one tick, two commands waiting, one message id, one outage, lossy sends. Bytes: three frames on each of two connections, chunks of at most 12, bodies that are empty, look like a frame or end in half a sync. Manual gate: timeouts of one period, a clock up to 4 that is set back once, a twist beyond the limits and one that is not a number |
| `chain` | does the robot stop, is it handed over, is it prepared again? | two scenarios: driving with one fault (the preparation dies), preparing with two (refusal, fall out of RL, death) |
| `sequencer` | does the planner ever have a stretch its nodes are not set up for, and are goals served? | two recordings of three targets that differ in slope, two goals out of two, two nodes, one refusal |
| `patrol` | do only driven legs count, is none skipped, does the patrol go on? | two vertices, one round trip, three events out of start, stop, an operator's route, a failed route and a restart of each node |
| `local` | are verdicts on the right path and map, do blocked and old paths end, does an empty route stop the robot; do the benchmarks give the follower their own path only, and tell of what was driven? | planner: two ways, maps that block none or the direct one, two changes of route or height. Benchmarks: a circle of three steps, started anywhere or at its start, locked by odometry or given, four samples; two fixed runs of two samples |
| `mapper` | order, confirmation, decay and profile of the maps; does the queue drain? | four clouds, queue of 2, history of 1, hits that weigh two misses, three scans, one profile switch |
| `routes` | are plans shortest, do tasks drive them with every heading served, is the last plan answered; does the tracker enter every mandatory corner, and arrive; does nav2_route3d decide each pair of anchors once, find no dearer route than there is, and answer from one graph? | some 1200 jobs: 4-vertex nets with every choice of missing, cheap, dear and zero-weight one-way edges; 4-vertex lines with every kind of vertex and edge; odd documents and requests. Three tracks: a corner and a stretch in reverse, a U-turn with two corners, a single point; one slip. nav2_route3d: two trajectories of five and six poses that fold back, one shortcut per node, fifteen searches over honest and over too cheap edges, two goals, two loads |
| `maps` | do recorded documents load, do cursors stay valid; are the editor's documents sound and its undo a time line; does the data directory hold what was recorded? | recordings of 5 vertices and 6 poses, or 3 vertices with 4 service calls; an editor with 2 places, ids up to 3, stacks of 2, 3 edits, the third one with no path chosen and nothing saved; queues of 2, a slop of 1, stamps up to 3, usable, unusable and foreign messages |
| `web` | does a planner chain that was started while nothing else was under way keep the recording out and its file as it is, whatever two browsers ask, is the end of a recording reported; do queues stay bounded, does every open page show where the robot rests, do broken sessions leave the lists? | commands: two browsers with four commands in all, two files, two writes of a file, one key waiting; connections: one session, two texts, one chunk (a map has two), one pose, one map |
| `editor_undo` | README.md:35 of the editor: structural changes can be undone | violated, see section 5 |

Why the bounds are enough. Enter 2 and exit 3 make both counters of the confirmation
gate pass through a value that is neither the first nor the last; a hold of 2 periods
has a middle one. Four revisions allow a switch to be begun, cancelled and begun again
while answers of the first are under way; two nodes are "one confirmed, the other
not". With one message id every id collides, so nothing relies on fresh ids; one
outage may come at any point of any round. One round trip has a leg in each
direction, and three events are what the worst cases need: an operator's route, a
restart and a stop or start between them. Two files and two writes are a file
that is selected, one that is not, and a change while something uses it; four commands of two browsers are a planner's start, what the other
browser may still have under way, and two more that meet the chain while it runs (`ConsoleSafe` was also checked with five). Three edits on stacks of two fill the undo stack and
drop its oldest document, and leave two documents to be redone in order. A queue of
two has a head and a rest, four clouds overflow it. Five vertices and six poses let
the recorder meet, follow, leave and split known ground and be carried away. The safety properties
are proved for every value (section 4), so their bounds matter for liveness only.
Chunks of 12 are longer than a header and shorter than two frames, so a cut falls at every byte and a chunk may hold the end
of one frame and the beginning of the next. One slip may come before and after each corner and inside the finish
window. Stamps up to three fill queues of two and overflow them.
A queue of two texts and one of one chunk overflow with what a connection, a reply and a map put
into them. Three steps are the fewest of a circle on which forwards and backwards differ, four samples a lap with a
step back or a second lap begun; a second fixed run meets the files of the first. A trajectory that folds back gives anchors that are near and not
neighbours, on both sides of the limit; two goals and two loads are a reload while one goal computes and the other waits. `mapper` has no malformed clouds: a cloud without a usable pose takes the same branches.

A run without `CHECK_DEADLOCK FALSE` is checked for deadlock: the timers of the executor,
the clock of the bridge and of the chain and the odometry of the sequencer never
stop. The other systems may come to rest when operators ask for nothing.

### Fairness

| Module | Assumed | Not assumed |
|---|---|---|
| `PidController` | the control timer fires, also with the services up; clouds parse; calls are served and answered | anything of operators, slicer, stop inputs. `SwitchEnds` gives up when a node restarts: the code never sends a lost call again |
| `RouteTracker` | the control timer fires | the robot not slipping: slips are bounded |
| `ServerBridge` | the worker runs; endlessly many polls take endless time (`SF` of the clock, which stands while the worker computes) | anything of link, server and callers: a live link is the hypothesis of the properties |
| `MotionChain` | published messages arrive, timers fire, threads run | anything of executor, controllers and faults |
| `TargetSequencer` | the timer is not unlucky with transform or services each time it is due; answers and topics arrive; nodes serve; the robot follows | goals |
| `PatrolLoop` | messages are taken, requests served, deadlines elapse, a tracked route ends | operators, restarts |
| `LocalPlanner` | both threads run, maps and path messages arrive, limits pass; searches are not discarded for ever on a route that can be planned along | routes, height changes |
| `VoxelMapper` | the worker runs and the wait for a pose expires | odometry, clouds |
| `WebConsole` | handlers run to their end, processes get on, saving ends when it may (`SavingEnds`; the prompt waits while the name is taken), the log callback gets its lines, poll timers fire | browsers, deaths |
| `BrowserSessions` | the timer that publishes snapshots gets its turn (`SF`: the ROS thread may be busy with odometry), threads run, a thread that comes round endlessly sees its stop flag | connections, breaks, commands |
| `RouteSlicer` | the nodes take what is on their topics | requests |

Nothing is assumed of `ManualVelocity`, nav2_route3d and the benchmarks: only safety is stated of them.

## 4. Proofs

Every safety property of the runs is a theorem but the panel's undo, which fails, for all values of the constants that
satisfy the named assumption of the module; TLC evaluates the assumptions in the runs. The bounds of the
environment are constants, too, so the theorems hold for any number of routes, restarts, outages, edits or clouds.

| Module | Theorems | Inductive invariant |
|---|---|---|
| `PidControllerProofs` | `TypeCorrect`, `SelectionCorrect` (with its four parts), `ProfileCorrect`, `EscalationCorrect`, `HoldCorrect`, `ExecutionCorrect` (refinement), `ConfirmedCorrect` | `TypeOK`, `DriveInv`, `HoldInv`, `RouteInv`, `SwitchInv` |
| `ServerBridgeProofs` | `BridgeTypeCorrect`, `StopCorrect`, `StopHoldsCorrect`, `ChannelCorrect` (refinement); of the byte stream: `FramesCorrect`; of the manual gate: `ManualCorrect` | `StopInv`; `StreamInv`; `ManualInv` |
| `TargetSequencerProofs` | `SequencerInvariant`, `SequencerCorrect` | `SequencerInv` |
| `PatrolLoopProofs` | `PatrolInvariant`, `TurnsCorrect`, `LegInvariant`, `LegCorrect` | `PatrolInv`, `LegInv` |
| `WebConsoleProofs` | `ConsoleTypesCorrect`, `ConsoleCorrect`; of the sessions: `SessionsCorrect` | `ConsoleInv`; `SessionsSafe` is inductive |
| `EfficientPlannerProofs` | of the mapper: `MapperInvariant`, `MapperCorrect`, `OrderCorrect`, `ConfirmationCorrect`, `ForgettingCorrect`, `EvidenceCorrect`; of the planner: `JudgeInvariant`, `JudgementCorrect`; of the tracker: `CornersAreEntered`; of the benchmarks: `BenchmarksCorrect` | `MapperInv`, `JudgeInv`, `TrackInv`; `CircleInv`, `FixedInv` |
| `RouteProofs` | of the planner: `SearchCorrect`, `ShortestCorrect`; of the slicer: `TasksCorrect`; of nav2_route3d: `Route3DCorrect`, `CheapestCorrect` | `PlannerInv`; `SliceInv`; `BuilderInv`, `ServerInv`; `AStarInv` |
| `MapProofs` | of the recorder: `RecordingInvariant`, `CursorsCorrect`, `RecordedMapCorrect`, `PiecesCorrect`, `RecordingCorrect`; of the data recorder: `DataCorrect`; of the editor: `EditorInvariant`, `DocumentsCorrect`, `TimelineCorrect` | `Sound`; `DataInv`; `EditorInv` |

Each file goes from the inside out: lemmas on the values, one lemma per method, one
per action, then the theorem. The arguments:

**Executor.** None of the selection's properties is inductive: `resumeCallback` and the end of
a safety stop select `task_controller` again, so one has to know what the task
carried all the while it was paused or stopped. `DriveInv` says that: an active task's
controller is a motion source, a PID task has an empty efficient path, an efficient task
a zero PID command and a path published under the applied profile. `HoldInv` ties the
age of the clear hold to `quiet`, the number of firings since the last that saw a reason
to stop. `SwitchInv` is about answers: a call carries the revision it was sent for,
revisions are not given out twice, and a node from which no call or answer of the
current revision is outstanding, and which is confirmed, runs with the profile of that
revision; calls of cancelled revisions lie in front of it in the node's queue. It holds as long
as no node restarts, which is what the property says. `ExecutionCorrect` shows every action to be a
step of `RouteExecution` or a stutter.

**Bridge.** `NoVelocityBehindStop` is not inductive because the decision to stop empties
nothing: `StopInv` adds that after the drain, a `now` that still finds the last velocity
late has seen none queued since. `ChannelCorrect` maps queue and batch to the channel's
queue and takes the steps of the worker one by one.

**Byte stream.** `StreamInv`: `tcp_buffer_` holds exactly the bytes that have arrived since the end of the last frame
handled, on this connection. What is there begins with sync bytes or is the beginning
of a frame, because the server writes nothing but frames; so `std::search` finds the first byte, the
length it reads is that of the frame the buffer began with, and a body that looks like a
frame is never reached by the search. A frame is taken when its last byte is there, and what stays is again the bytes
since its end. A new connection begins with an empty buffer, which is what a mutant without the `clear` breaks.

**Tracker.** `TrackInv`: the arc of a route's points grows with their number (by least counterexample: the sum is a
recursive function), the progress stays at or before the arc of the open corner, all corners before
it have been entered, and a final adjustment means that the progress is in the finish window of the last
point, so a corner that is still open lies in that window. Projection is only over the stretch up to the open corner: this is
the fact that keeps the progress from passing it, however the robot slips.

**Planner.** `SearchTrue` has four parts. `QueueTrue`: an entry of the queue may be stale but never too cheap, what is
reached and not settled has an entry with its distance, and nothing settled is farther than what waits. `Relaxed`: arcs out
of settled vertices are relaxed. `Predecessors`: they are settled, so they keep their distances. `WaysKnown`: there is a
way to each vertex reached, which costs its distance, and whose edges the predecessors give; the recursive definition of the
route is then shown to have that way as its value. `NoneIsCheaper`: the first vertex of a cheaper route that is not settled
would wait in the queue ahead of the goal. `NoneIsThere`: with the queue empty, what is settled is closed under arcs. Both walk along a
route by `AllPlaces`, which proves induction along a sequence from the least place where it fails, since a set of
places can be passed to a lemma and a predicate cannot.

**Slicer.** A place is a number of edges of the route. A list of tasks is a `Cutting` up to a place when
each task `Drives` the route from one place to the next, with no place inside it where the route must be cut, and every place between two
tasks is one where it must. `SliceInv` says that the tasks cut so far are a cutting, that the task in hand goes on from it to the edge in
hand and may be extended there (`InHand`), and that `previous_attributes` are those of the edge just handled; it holds whether the next edge
starts a task, extends one or stands alone, because each of these tests the cases of `MustCut`. An alignment drives from a place to itself, so it keeps a cutting and
serves the heading of its place (`Aligned`). That the list is the join of what each task becomes, and the route's edges the join of those of the
tasks, goes through `FlattenSeq`, whose recursive function is shown to exist (`JoinsExist`) and to grow task by task (`FlattenIs`), again by `AllPlaces`. An edge belongs to
one task because no edge is twice in a plan: the ways of the search visit no vertex twice (`Fresh`, part of `WaysKnown`), since all of a way but its last
vertex is settled and only what is not settled is reached anew.

**nav2_route3d.** `BuilderInv` knows the progress of the building: the chain of poses (`ChainGrows`), the pairs that are decided and
were decided for both (`FakesKnown`, `Decided`), the turn (`TurnTrue`: what the anchor still sees is open), that
whoever began a shortcut had its turn (`StartersHadTurns`), and what was read of the file (`ReadSoFar`). The limit on
shortcuts counts edges, so it needs finite sets: a new edge adds one to the count of the anchor and nothing to those
that had their turn. `ServerInv`: who holds the lock (`HolderKnown`), that whoever is served met a configured node
(`ServerThere`), and that the parts of an answer are of the graph under the lock (`AnswersGrow`).

**The search of nav2_route3d.** The heuristic need not be consistent and stale entries stay in the frontier, so there is no settled
set as in the planner. `AStarInv` says instead that an entry is never cheaper than its node (`ReachedTrue`), that who does not wait at its
present cost has been expanded since it became cheaper, up to the edges in `todo` (`OpenTrue3D`), and that a predecessor and its edge
cost no more than the node, whose predecessor may have become cheaper since (`CameTrue`). From the last: what `reconstruct` has traced, plus
the cost of where it stands, is never more than the cost said (`TraceTrue`), so the route costs at most that. From the second: on any
route to the goal some first node still waits, reached for no more than the route costs that far; with honest edges its entry, cost plus straight
line, is at most the cost of the route (`StraightIsShorter`), and the goal was popped no dearer than it (`NoneIsCheaper3D`). With the frontier
empty, what is reached is closed under open edges (`NoneIsThere3D`). `CostsTo` is a recursive function over a way: `SumsExist` proves that it
exists, and `InFront` how it grows.

**Manual gate.** `ManualInv` adds that a stamp is no older than what really passed unless the clock was set back
(`HonestStamps`), and that what is under way to the robot is of this period: from these follow the bounds of one period.

**Benchmarks.** `CircleInv` adds that an active run has a circle that may be driven, locked in one place; `FixedInv` what a run
that is on has (`RunIsOn`) and that rows are counted where they are written, so that no file of an earlier run grows.

**Sequencer.** As for the executor, with three more ways to go wrong: a new route, a
finished transition whose profile is remembered, a stretch that outlives its
transition. `SequencerInv` keeps calls, answers and parameters apart by revision (`Calls`,
`Runs`) and says of the stretch at the planner which profile all nodes have (`Held`).

**Patrol.** `TurnsCorrect` follows from a relation of phase, legs and direction. `LegCorrect`
needs the chain: as long as the slicer does not start over, all who know a route by its
number know the same route (`Agreed`, over what is latched, taken, staged, finished
and waited for), and a FINISHED that the patrol has heard or may still hear is of a
finished route not yet counted, or `Spent`: not beyond what the patrol had seen,
and below the baseline or the number it waits for. The arrival is then of the
route waited for, which its removal from `finished` makes spent.

**Console.** `ConsoleTypesCorrect` and `ConsoleCorrect` hold for any number of browsers. `RuntimeGraphConsistent` is about a
chain that was started alone, and is not inductive: what keeps its file is that nobody else may act on it. `StartsAlone` says that as long as a
start under way is alone, nothing it excludes is: no other handler is in an offline step, no recording runs (`Accept` withdraws `alone` when another such
command is accepted). `RunsAlone` says the same of the chain once it runs: no offline handler is left, no result of a generation or
recording is still to come, and new ones are refused because the planner runs. `ActsMoves` shows that no step of a handler
becomes offline by going on. Two starts of other kinds are not excluded by the code, see section 5.

**Sessions.** `SessionsSafe` is inductive, with its types: lists hold only sessions whose
thread is at a place from which it still comes to take itself off. `OneSession` does the work: a step
changes one session and adds at most that one to a list, so each action has to show only
that its new queue fits and where its thread is. This is why the order of `close_`, `remove`
and `onDisconnect` matters.

**Mapper and local planner.** `MapperInv` orders stamps and revisions along the way of a grid
(cloud queue, worker, topic, extension, planner), and gives the voxel the ranges of
clamping and a run of hits that really were the last observations. Integer decay is
handled in lemmas on `Clamped` and `Updated`. `JudgeInv`: what the callback copied is still
true of the path it took, if that path is current; the map is the newest because
maps come on the same thread.

**Recorder.** `Sound` is a graph that is simple, whose every piece contains the root of a
relocation, with cursors that refer to what is there, and with what each state of the
builder goes on from. Every call preserves it, above all `Split`, which takes an edge away
under all of them. The three properties follow.

**Data recorder.** `DataInv` says for each place of the thread how many clouds, rows and poses there are and which
the manifest counts (`Counts`), that a torn row ends the recording (`Whole`), and that no stamp in a queue or in hand
has been written (`QueuesUnused`, `HandsUnused`), so none is recorded twice.

**Editor.** All documents of the session are `Good`: valid, with ids in range and each weight
the distance of its ends. `DocumentsCorrect` also says that the console's `TopologyStore` accepts each of them. Operations of the document stay in `Good`; panel operations
only move documents between file, screen and stacks. `TimelineCorrect` follows the line
undos, document, redos through each action: `RememberRecords` gives what every edit does to it, `CommitRecords` adds the new version, and
`DeletesRecord` splits a delete into the one that takes hold and the one that fails.

The theorems on the recorders and the editor are about `OdomWaypoint`'s, `DataRecorder`'s and
`TopologyEditor`'s own specifications, with any bound; `MapTools` runs one of them. The same holds of
`MCBridge` and `MCRoutes` with the modules they run side by side.

### Only model-checked

- Liveness, which needs fairness: `SafetyStopEnds`, `SwitchEnds`, `LinkIsServed` (`SilenceStops`, `ListensAgain`),
  `SilenceEndsMotion` (`SilentInputsStop`, `ReleaseHandsOver`), `PreparedAgain`, `GoalIsServed`, `PatrolGoesOn`,
  `StalePathsEnd` (blocked, old and empty routes), `QueueDrains`, `RoutesEnd` (`LastPlanIsSliced`, `Arrives`),
  `BrowsersAreServed` (`ProcessingIsReported`, `PoseArrives`, `StoppedSessionsLeave`).

## 5. Where code and documents disagree

One disagreement is a run: `editor_undo` finds undo and redo ending the panel. README.md:35 of the editor says that structural
changes support undo; `undo()` (`topology_editor_panel.cpp:1200`) keeps the range of the batch, whose elements may be gone from the document that comes
back, and `publishMarkers` (`:1366`) throws out of the slot.

The others were met while modelling. The properties are stated so that they say what does hold, and each exception is named there:

- Mapper: the first decay after the grace period takes the whole grace at once
  (`NoSuddenForgetting` states the bound that does hold); the extension confirms a profile before the
  re-published grid has passed it.
- Editor: after `applyChanges` moved a vertex the batch range is not computed again (README:40);
  `load()` replaces the data before `validate()`.
- Recorder: after a failed final write, a second call says saved (`odom_waypoint_node.py:220`); a
  cancelled exit leaves a stale retrace ratio (`topology.py:1071`); a corner on an edge of an older
  piece gets the current component.
- Tracker: near its goal in plan view, but before a corner is passed (it was pushed there, or the route comes back beside
  itself), the speed is braked to zero (`controller_core.cpp:481`) and, with the progress not at the
  end, the robot stands for ever, though the comment at `:476` says it never waits. `Arrives` is about robots that slip one place,
  which does not bring them there.
- nav2_route3d: a cancellation is accepted and never honoured; a goal accepted while the node is being deactivated succeeds with
  a path nobody was sent; after a cleanup, a goal's thread or a reconfiguration that fails half way follows a null planner
  (`route_server_3d.cpp:275`, the exception in `NothingBreaks`). Ids are clamped to 16 bits in one
  message (`path_converter_3d.cpp:17`) and cut off in the other (`route_server_3d.cpp:346`). The comment at
  `route_graph_builder_3d_main.cpp:180` promises a limit on the shortcuts each node ends up with; `connectAllVisible` counts only for the anchor whose turn it is, so
  a node that later anchors reach for may have more (`ShortcutsAreCapped` does not hold).
- Manual gate: a clock that is set back makes an old command young again
  (`m20_velocity_control_node.cpp:118`), the exception in `MovesOnlyOnCommand`.
- Circle benchmark: disarming leaves `auto_arm_pending_`, so the next odometry arms again; a pose that is not a number
  passes the check of the start pose and ends the lap's progress; arming uses a `latest_odometry_` of any age; the samples of all runs of a process are
  counted together.
- Fixed path benchmark: a csv stream that a failed write has broken is never closed, and later runs record no rows though
  their summaries name a file (the condition in `FilesTellTheRun`); runs that begin in one second share a file; a late answer of
  the follower's parameters goes into a later run; frames are not checked again during a run.
- Data recorder: `validateFrames` compares with `expected_*` for the first pair only and keeps the frames of that pair also when
  it refuses it (`route3d_data_recorder_node.cpp:220`): the next pairs with the same wrong frames are recorded. A write of a row that fails half way leaves a torn row although the
  destructor's manifest says "complete".
- Editor and console: the editor's boxes allow `acc` and `passRadiusM` of 0
  (`topology_editor_panel.cpp:309`) and any `controllerMode` (`:352`), which `TopologyStore::validate` refuses
  (`topology_store.cpp:141`, `:182`); attributes are not in `TopologyEditor`, the graph's structure is.
- Editor: with the add-edge button checked, every delete (README:32) fails: `clearGraphEditModes()` (`topology_editor_panel.cpp:989`, `:1028`) ends the
  mode, which draws the selected element (`:810`, `:1388`), and that is gone. The catch puts the document back, but one more entry of undo and an empty
  redo stack stay (`DeleteFails` in `UndoneComesBack`). A load fails there as well if the file does not have the selected element.
- Console, two browsers: README:67 and the message at `web_console_node.cpp:1491` promise that no topology is saved while the
  planner runs, and `:1724` that the recording is finished before. Both are checked before the handlers act, in a thread per browser: a planner's start
  and a recording's, each past its checks, are both carried out; a save that has been compared goes on to write after the chain has loaded; of two saves
  that were both compared, the first is lost. `RuntimeGraphConsistent` without `graph.alone` is violated by these with two browsers.
- Console, stops without an answer: after a save that failed, the keyboard ignores a second stop, and the state stays "processing" while the
  process lives; a generation may take the name of a recording for its own directory (`disk[f] = Empty` in `ProcessingIsReported`), and the prompt waits
  for another one.
- Executor: a start at index 0 while a switch for a later task is pending trusts `applied_efficient_profile_`
  (`pid_controller_node.cpp:574`), although some of the nodes have been sent the other profile and may run with it. `EfficientUnderItsProfile` speaks of the profile the
  executor believes in, `ConfirmedMeansApplied` of what is confirmed; neither sees this.

## 6. Not modelled

- Geometry and numbers: collision checkers, pose buffers, PID arithmetic, A* and B-spline
  (`guided_astar.hpp`, `bspline_path_optimizer.hpp`), which cells the occlusion extension extends, the
  interpolation in `controller_core.cpp`. What depends on it is a choice of the environment.
- Of the console's sessions: process logs and other texts without a pose, which could push a
  snapshot or a reply out of the queue of 128 in a burst between two flushes; requests for files.
- Pure input and output: odometry TF relay, bag tools, file formats,
  markers, GUI layout, HTTP and WebSocket framing.
- Offline analysis: slope annotator, vertex initializer, topology tools.
- Of nav2_route3d: clouds and occupancy (what they hide is a choice), the choice of anchors along a trajectory, GeoJSON,
  the numbers of the scorer beyond their sum, markers.
- Of the benchmarks: the measured errors, visual topics, and the scripts that read their files.
- Vendored Nav2 packages; `RouteServer3D` models the action server from how nav2_route3d uses it.

`PROJECT.json` has the reason for each.

## 7. What is left

1. The vertex initializer and the pose buffers of the collision checkers.
2. A step invariant for `MotionChain`: what reaches the robot was let through by the adapter.
