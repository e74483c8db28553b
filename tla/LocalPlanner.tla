---------------------------- MODULE LocalPlanner ----------------------------
(***************************************************************************)
(* efficient_3d_local_planner: the corridor A* planner node and the path   *)
(* follower that drives what it publishes.                                 *)
(*                                                                         *)
(* The planner has two threads.  The executor runs the callbacks (map,     *)
(* global path, odometry, parameters) one at a time; the worker plans.     *)
(* They share the state under mutex_, but validate, search, optimise and   *)
(* publish outside it, so that one action below is one critical section or *)
(* one publication.  Which cells a path crosses is abstracted to the WAY   *)
(* it takes along the route, and a map to the set of ways its hard cells   *)
(* block: validatePath(map, path) is  way \notin map.  An age is whether it *)
(* has passed its limit, which happens in an action of its own at any time. *)
(***************************************************************************)
EXTENDS Naturals

CONSTANTS
  Ways,             \* the ways a local path can take
  Maps,             \* the maps that can arrive: sets of ways that are blocked
  MaxChanges        \* bound on the global paths and parameter changes

ASSUME ConstantsAssumption == MaxChanges \in Nat /\ {} \in Maps /\ Maps \subseteq SUBSET Ways

VARIABLES
  latest_map_, global_path_, has_odometry_, work_pending_, path_generation_,
  current,       \* current_path_ with its id, generation and validity
  callback,      \* what the executor thread is in the middle of
  worker,        \* the worker's program counter and local variables
  local_path,    \* the last message of the latched topic local_path
  follower       \* the state of the path follower

shared == <<latest_map_, global_path_, has_odometry_, path_generation_>>
localVars == <<shared, work_pending_, current, callback, worker, local_path, follower>>

NoMap == {"no map"}
NoWay == "no way"
Generations == 0..MaxChanges
PathIds == 0..2
LocalPaths == Ways \union {NoWay}   \* a published path, or an empty one

\* A path of the planner is empty, or a single pose, or can be planned along.
GlobalPaths == {"none", "empty", "short", "route"}

Idle == [step |-> "idle", map |-> {}, way |-> NoWay, id |-> 0, valid |-> FALSE,
         overdue |-> FALSE]
Waiting == [step |-> "wait", map |-> {}, map_changed |-> FALSE, generation |-> 0,
            way |-> NoWay]

LocalInit ==
  /\ latest_map_ = NoMap
  /\ global_path_ = "none"
  /\ has_odometry_ = FALSE
  /\ work_pending_ = FALSE
  /\ path_generation_ = 0
  /\ current = [way |-> NoWay, id |-> 0, generation |-> 0, valid |-> FALSE,
                overdue |-> FALSE]
  /\ callback = Idle
  /\ worker = Waiting
  /\ local_path = NoWay
  /\ follower = [path |-> FALSE, received |-> TRUE, path_expired |-> TRUE,
                 odometry_expired |-> TRUE, command |-> "stop"]

(***************************************************************************)
(* The ids number the commits of the worker; they are only compared with   *)
(* the one a map callback holds, so three of them stand for the counter.   *)
(***************************************************************************)
NewPathId == CHOOSE id \in PathIds : id # current.id /\ id # callback.id

\* Whether its replacement is overdue matters only while there is a path.
Cleared == [current EXCEPT !.way = NoWay, !.overdue = FALSE]

\* A path is retained without looking at the route it belongs to.
RetainCurrentMutant(generation) == current.way # NoWay /\ current.valid

\* retainCurrentPathAfterPlanningFailure
RetainCurrent(generation) ==
  current.way # NoWay /\ current.valid /\ current.generation = generation

Publish(path) ==
  /\ local_path' = path
  /\ follower' = [follower EXCEPT !.received = FALSE]

(***************************************************************************)
(* The executor thread of the planner.                                     *)
(***************************************************************************)
MapCallback(map) ==
  /\ callback.step = "idle"
  /\ latest_map_' = map
  /\ work_pending_' = TRUE
  /\ worker' = [worker EXCEPT !.map_changed = worker.step \in {"search", "check"}]
  /\ callback' = IF current.way = NoWay THEN Idle
                 ELSE [step |-> "validate", map |-> map, way |-> current.way,
                       id |-> current.id, valid |-> current.valid,
                       overdue |-> current.overdue]
  /\ UNCHANGED <<global_path_, has_odometry_, path_generation_, current,
                 local_path, follower>>

\* The path may have been replaced while it was being validated.
InvalidateMutant ==
  /\ callback.step = "validate" /\ callback.valid /\ callback.way \in callback.map
  /\ current' = IF current.valid
                THEN [current EXCEPT !.valid = FALSE, !.overdue = FALSE]
                ELSE current
  /\ callback' = Idle
  /\ UNCHANGED <<shared, work_pending_, worker, local_path, follower>>

\* The path was valid and the new map blocks it.
Invalidate ==
  /\ callback.step = "validate" /\ callback.valid /\ callback.way \in callback.map
  /\ current' = IF current.id = callback.id /\ current.valid
                THEN [current EXCEPT !.valid = FALSE, !.overdue = FALSE]
                ELSE current
  /\ callback' = Idle
  /\ UNCHANGED <<shared, work_pending_, worker, local_path, follower>>

\* The path was already invalid: the grace period is over, or not yet.
AwaitReplacement ==
  /\ callback.step = "validate" /\ ~callback.valid
  /\ IF /\ callback.overdue
        /\ current.id = callback.id /\ ~current.valid /\ current.way # NoWay
     THEN current' = Cleared /\ callback' = [Idle EXCEPT !.step = "publish_empty"]
     ELSE UNCHANGED current /\ callback' = Idle
  /\ UNCHANGED <<shared, work_pending_, worker, local_path, follower>>

StillValid ==
  /\ callback.step = "validate" /\ callback.valid /\ callback.way \notin callback.map
  /\ callback' = Idle
  /\ UNCHANGED <<shared, work_pending_, current, worker, local_path, follower>>

EmptyPathCallback ==
  /\ callback.step = "idle" /\ path_generation_ < MaxChanges
  /\ global_path_' = "empty"
  /\ path_generation_' = path_generation_ + 1
  /\ current' = [Cleared EXCEPT !.valid = FALSE, !.generation = 0]
  /\ work_pending_' = FALSE
  /\ callback' = [Idle EXCEPT !.step = "publish_empty"]
  /\ UNCHANGED <<latest_map_, has_odometry_, worker, local_path, follower>>

PathCallback(path) ==
  /\ callback.step = "idle" /\ path_generation_ < MaxChanges
  /\ global_path_' = path
  /\ path_generation_' = path_generation_ + 1
  /\ current' = IF current.way # NoWay
                THEN [current EXCEPT !.valid = FALSE, !.overdue = FALSE]
                ELSE current
  /\ work_pending_' = TRUE
  /\ UNCHANGED <<latest_map_, has_odometry_, callback, worker, local_path, follower>>

\* planner.path_height takes another value; an equal one changes nothing.
ParametersCallback ==
  /\ callback.step = "idle" /\ path_generation_ < MaxChanges
  /\ current' = [Cleared EXCEPT !.valid = FALSE]
  /\ path_generation_' = path_generation_ + 1
  /\ work_pending_' = (global_path_ \in {"short", "route"})
  /\ callback' = [Idle EXCEPT !.step = "publish_empty"]
  /\ UNCHANGED <<latest_map_, global_path_, has_odometry_, worker, local_path, follower>>

CallbackPublishesEmpty ==
  /\ callback.step = "publish_empty"
  /\ Publish(NoWay)
  /\ callback' = Idle
  /\ UNCHANGED <<shared, work_pending_, current, worker>>

OdomCallback ==
  /\ ~has_odometry_
  /\ callback.step = "idle"
  /\ has_odometry_' = TRUE
  /\ UNCHANGED <<latest_map_, global_path_, work_pending_, path_generation_,
                 current, callback, worker, local_path, follower>>

(***************************************************************************)
(* The worker thread.                                                      *)
(***************************************************************************)
\* An attempt without all inputs ends at once and has consumed the flag.
CaptureInputs ==
  /\ worker.step = "wait" /\ work_pending_
  /\ work_pending_' = FALSE
  /\ worker' = IF latest_map_ # NoMap /\ has_odometry_ /\ global_path_ = "route"
               THEN [Waiting EXCEPT !.step = "search", !.map = latest_map_,
                                    !.generation = path_generation_]
               ELSE Waiting
  /\ UNCHANGED <<shared, current, callback, local_path, follower>>

\* The transform is missing, or the rest of the route is too short a guide.
NoGuide ==
  /\ worker.step = "search"
  /\ worker' = Waiting
  /\ UNCHANGED <<shared, work_pending_, current, callback, local_path, follower>>

\* The robot is on another level than the route (reject_wrong_path_level_).
WrongPathLevel ==
  /\ worker.step = "search"
  /\ IF current.generation # worker.generation
     THEN /\ current' = [Cleared EXCEPT !.valid = FALSE]
          /\ worker' = [Waiting EXCEPT !.step = "publish_empty"]
     ELSE UNCHANGED current /\ worker' = Waiting
  /\ UNCHANGED <<shared, work_pending_, callback, local_path, follower>>

\* The search polls for another route now and then, so it may also end first.
SearchCancelled ==
  /\ worker.step = "search" /\ path_generation_ # worker.generation
  /\ worker' = Waiting
  /\ UNCHANGED <<shared, work_pending_, current, callback, local_path, follower>>

SearchEnds(way) ==
  /\ worker.step = "search" /\ way \notin worker.map
  /\ worker' = [worker EXCEPT !.step = "check", !.way = way, !.map = {}]
  /\ UNCHANGED <<shared, work_pending_, current, callback, local_path, follower>>

\* The result is discarded if the newest map may have decided otherwise.
CheckOnNewest ==
  /\ worker.step = "check"
  /\ worker' = CASE worker.way \in latest_map_ -> Waiting
                 [] worker.way = NoWay /\ worker.map_changed -> Waiting
                 [] worker.way = NoWay /\ ~worker.map_changed ->
                      [worker EXCEPT !.step = "fail"]
                 [] OTHER -> [worker EXCEPT !.step = "optimise", !.map_changed = FALSE]
  /\ UNCHANGED <<shared, work_pending_, current, callback, local_path, follower>>

\* A failed search keeps what there is, valid or not, and is never reported.
SearchFailedMutant ==
  /\ worker.step = "fail"
  /\ worker' = Waiting
  /\ UNCHANGED <<shared, work_pending_, current, callback, local_path, follower>>

SearchFailed ==
  /\ worker.step = "fail"
  /\ IF RetainCurrent(worker.generation)
     THEN UNCHANGED current /\ worker' = Waiting
     ELSE /\ current' = Cleared
          /\ worker' = [Waiting EXCEPT !.step = "publish_empty"]
  /\ UNCHANGED <<shared, work_pending_, callback, local_path, follower>>

\* Neither the normal nor the narrow optimizer accepts the path.
OptimizationFailed ==
  /\ worker.step = "optimise"
  /\ IF RetainCurrent(worker.generation)
     THEN UNCHANGED current /\ worker' = Waiting
     ELSE /\ current' = [Cleared EXCEPT !.valid = FALSE]
          /\ worker' = [Waiting EXCEPT !.step = "publish_empty"]
  /\ UNCHANGED <<shared, work_pending_, callback, local_path, follower>>

CommitPath ==
  /\ worker.step = "optimise"
  /\ current' = [way |-> worker.way, id |-> NewPathId, valid |-> TRUE,
                 generation |-> worker.generation, overdue |-> FALSE]
  /\ worker' = [worker EXCEPT !.step = "publish"]
  /\ UNCHANGED <<shared, work_pending_, callback, local_path, follower>>

PublishPath ==
  /\ worker.step = "publish"
  /\ Publish(worker.way)
  /\ worker' = Waiting
  /\ UNCHANGED <<shared, work_pending_, current, callback>>

WorkerPublishesEmpty ==
  /\ worker.step = "publish_empty"
  /\ Publish(NoWay)
  /\ worker' = Waiting
  /\ UNCHANGED <<shared, work_pending_, current, callback>>

(***************************************************************************)
(* The path follower.  Its command is zero ("stop") or what                *)
(* computePathFollowerCommand asks for ("drive").                          *)
(***************************************************************************)
node == <<shared, work_pending_, current, callback, worker, local_path>>

FollowerPathCallback ==
  /\ ~follower.received
  /\ follower' = [follower EXCEPT !.path = (local_path # NoWay), !.received = TRUE,
                    !.path_expired = FALSE,
                    !.command = IF local_path = NoWay THEN "stop" ELSE @]
  /\ UNCHANGED node

FollowerOdometryCallback ==
  /\ has_odometry_
  /\ follower' = [follower EXCEPT !.odometry_expired = FALSE]
  /\ UNCHANGED node

\* The follower trusts the last path for ever.
MayDriveMutant == follower.path /\ ~follower.odometry_expired

MayDrive == follower.path /\ ~follower.path_expired /\ ~follower.odometry_expired

ControlLoop ==
  /\ follower' = [follower EXCEPT !.command = IF MayDrive THEN "drive" ELSE "stop"]
  /\ UNCHANGED node

(***************************************************************************)
(* Time passes a limit: replacement_grace_period_ of an invalid path,      *)
(* path_timeout_ and odometry_timeout_ of the follower.                    *)
(***************************************************************************)
GraceElapses ==
  /\ current.way # NoWay /\ ~current.valid
  /\ current' = [current EXCEPT !.overdue = TRUE]
  /\ UNCHANGED <<shared, work_pending_, callback, worker, local_path, follower>>

PathExpires ==
  /\ follower' = [follower EXCEPT !.path_expired = TRUE]
  /\ UNCHANGED node

OdometryExpires ==
  /\ follower' = [follower EXCEPT !.odometry_expired = TRUE]
  /\ UNCHANGED node

MapArrives == \E map \in Maps : MapCallback(map)

Executor ==
  \/ Invalidate \/ AwaitReplacement \/ StillValid
  \/ CallbackPublishesEmpty

Operator ==
  \/ EmptyPathCallback
  \/ \E path \in {"short", "route"} : PathCallback(path)
  \/ ParametersCallback

Worker ==
  \/ CaptureInputs \/ NoGuide \/ WrongPathLevel \/ SearchCancelled
  \/ \E way \in Ways \union {NoWay} : SearchEnds(way)
  \/ CheckOnNewest \/ SearchFailed \/ OptimizationFailed
  \/ CommitPath \/ PublishPath \/ WorkerPublishesEmpty

LocalNext ==
  \/ MapArrives \/ Executor \/ Operator \/ OdomCallback
  \/ Worker
  \/ FollowerPathCallback \/ FollowerOdometryCallback \/ ControlLoop
  \/ GraceElapses \/ PathExpires \/ OdometryExpires

LocalSpec == LocalInit /\ [][LocalNext]_localVars

-----------------------------------------------------------------------------
(***************************************************************************)
(* Fairness.  Both threads run, the mapper sends maps, the follower's      *)
(* timer fires and its limits pass.  The last conjunct is about the        *)
(* search: results are thrown away while maps change faster than it        *)
(* answers, and without a transform or a guide there is no search at all;  *)
(* this does not go on for ever on a route that can be planned along.      *)
(***************************************************************************)
SearchesConclude ==
  []<>(global_path_ = "route" /\ has_odometry_ => worker.step \in {"fail", "optimise"})

LocalFairness ==
  /\ WF_localVars(Executor) /\ WF_localVars(Worker) /\ WF_localVars(MapArrives)
  /\ WF_localVars(GraceElapses) /\ WF_localVars(PathExpires)
  /\ WF_localVars(FollowerPathCallback) /\ WF_localVars(ControlLoop)
  /\ SearchesConclude

-----------------------------------------------------------------------------
(***************************************************************************)
(* A map callback judges a path outside the mutex, while the worker may    *)
(* commit another: the path it declares invalid is one that the newest map *)
(* blocks, and the path it clears has been invalid for the grace period    *)
(* (mapCallback, the comparison with path_id_to_validate).                 *)
(***************************************************************************)
JudgedOnItsMap ==
  [][callback.step = "validate" /\ callback'.step # "validate" /\ current.way # NoWay =>
       /\ current.valid /\ ~current'.valid => current.way \in latest_map_
       /\ current'.way = NoWay => ~current.valid /\ current.overdue]_localVars

(***************************************************************************)
(* Once the maps agree on what is blocked, the local path on the topic     *)
(* comes to avoid it or is withdrawn, however validation, search and       *)
(* commit interleave, and even if a path the planner no longer knows of    *)
(* was published behind an empty one.                                      *)
(***************************************************************************)
BlockedPathEnds ==
  \A map \in Maps :
    <>[](latest_map_ = map /\ global_path_ = "route") => <>[](local_path \notin map)

(***************************************************************************)
(* A path planned along an earlier route, or at an earlier height, is      *)
(* replaced or withdrawn; a failed attempt does not retain it              *)
(* (pathCallback, retainCurrentPathAfterPlanningFailure, wrong_path_level).*)
(***************************************************************************)
OfEarlierRoute == current.way # NoWay /\ current.generation # path_generation_

OldRouteEnds ==
  global_path_ = "route" /\ OfEarlierRoute ~> global_path_ # "route" \/ ~OfEarlierRoute

(***************************************************************************)
(* When the route sequencer sends the empty route and nothing after it,    *)
(* the robot ends at rest, also if the worker publishes a path of the old  *)
(* route behind the empty one: nothing refreshes that, and the follower's  *)
(* path_timeout_ ends it.                                                  *)
(***************************************************************************)
EmptyRouteStops ==
  <>[](global_path_ = "empty") => <>[](follower.command = "stop")

(***************************************************************************)
(* All three: no path outlives the map or the route it was made for.       *)
(***************************************************************************)
StalePathsEnd == BlockedPathEnds /\ OldRouteEnds /\ EmptyRouteStops
=============================================================================
