------------------------- MODULE FixedPathBenchmark -------------------------
(***************************************************************************)
(* fixed_path_benchmark_node: on request it lays a trajectory at the       *)
(* robot's feet, gives it to the path follower, samples how well it is     *)
(* followed, and ends the run at its end or when it goes wrong.            *)
(*                                                                         *)
(* Every callback holds the mutex, so that one action is one callback.  A  *)
(* position is whether it lies near the reference (max_tracking_error_)    *)
(* and whether near its end (completion_distance_); what else is measured  *)
(* from it is left out, and so are the follower's parameters, which are    *)
(* only copied into the summary.  A path, a sample and a file carry the    *)
(* number of the run they belong to; runs begin in different seconds,      *)
(* which the names of the files count.                                     *)
(***************************************************************************)
EXTENDS Naturals, Sequences

CONSTANTS
  MaxRuns,          \* bound on the runs
  RunSamples        \* bound on the samples of a run

ASSUME FixedAssumption == MaxRuns \in Nat /\ RunSamples \in Nat

VARIABLES
  state_, result_reason_, samples_, zero_command_since_,
  latest_pose,      \* latest_position_, and whether the latest odometry is fresh, or
                    \* fresh in another frame, or none or too old
  standing,         \* latest_command_ is zero
  late,             \* timeout_sec_ has passed since run_started_
  bench,            \* the number of the run that reference_ is of
  local_path_,      \* the last message of the path topic
  csv_,             \* the stream: open, good, and the run whose file it is
  rows,             \* how many rows each run's csv file has
  summary           \* the last summary

inputs_ == <<latest_pose, standing>>
fixedVars == <<state_, result_reason_, samples_, zero_command_since_, inputs_, late,
               bench, local_path_, csv_, rows, summary>>

Runs == 1..MaxRuns
NoRun == 0
NotYet == 0         \* zero_command_since_ is not set

Unknown == [near |-> TRUE, inside |-> FALSE, odometry |-> "old"]

FixedInit ==
  /\ state_ = "Idle" /\ result_reason_ = "idle"
  /\ samples_ = <<>> /\ zero_command_since_ = NotYet
  /\ latest_pose = Unknown
  /\ standing = TRUE
  /\ late = FALSE
  /\ bench = NoRun /\ local_path_ = NoRun
  /\ csv_ = [open |-> FALSE, good |-> TRUE, of |-> NoRun]
  /\ rows = [r \in Runs |-> 0]
  /\ summary = [of |-> NoRun, result |-> "idle", samples |-> 0]

-----------------------------------------------------------------------------

outputs_ == <<local_path_, csv_, rows, summary>>
runVars == <<state_, result_reason_, samples_, zero_command_since_, bench>>

fixedOdometryCallback ==
  /\ latest_pose' \in [near : BOOLEAN, inside : BOOLEAN, odometry : {"fresh", "foreign"}]
  /\ UNCHANGED <<runVars, standing, late, outputs_>>

commandCallback ==
  /\ standing' = ~standing
  /\ UNCHANGED <<runVars, latest_pose, late, outputs_>>

\* odometry_timeout_ and timeout_sec_ pass.
LimitPasses ==
  /\ \/ latest_pose # Unknown /\ latest_pose' = Unknown /\ UNCHANGED late
     \/ state_ = "Running" /\ ~late /\ late' = TRUE /\ UNCHANGED latest_pose
  /\ UNCHANGED <<runVars, standing, outputs_>>

-----------------------------------------------------------------------------
(***************************************************************************)
(* A start is refused while a run is on, without a fresh odometry in the   *)
(* planning frame, or when others publish the path topic (so it may be     *)
(* refused at any time).  The robot stands at the start of the reference;  *)
(* how far that is from the end depends on the trajectory.                 *)
(***************************************************************************)
MayStart == state_ # "Running" /\ latest_pose.odometry = "fresh"

\* A stream that is still open is not opened again and fails.
openCsv ==
  csv_' \in IF csv_.open THEN {[csv_ EXCEPT !.good = FALSE]}
            ELSE {[open |-> TRUE, good |-> TRUE, of |-> bench'],
                  [open |-> FALSE, good |-> FALSE, of |-> NoRun]}

startCallback ==
  /\ MayStart /\ bench < MaxRuns
  /\ bench' = bench + 1
  /\ latest_pose' \in [near : {TRUE}, inside : BOOLEAN, odometry : {"fresh"}]
  /\ samples_' = <<>>
  /\ late' = FALSE /\ zero_command_since_' = NotYet
  /\ result_reason_' = "running" /\ state_' = "Running"
  /\ openCsv
  /\ local_path_' = bench'
  /\ UNCHANGED <<standing, rows, summary>>

-----------------------------------------------------------------------------

\* A stream that is not good is not closed.
finishLocked(state, reason) ==
  /\ state_' = state /\ result_reason_' = reason
  /\ local_path_' = NoRun
  /\ summary' = [of |-> bench, result |-> reason, samples |-> Len(samples_')]

closeCsv(csv) == csv_' = IF csv.good THEN [csv EXCEPT !.open = FALSE] ELSE csv

Abort(reason) ==
  /\ UNCHANGED <<samples_, zero_command_since_, rows>>
  /\ finishLocked("Aborted", reason)
  /\ closeCsv(csv_)

abortCallback ==
  /\ state_ = "Running"
  /\ Abort("manual_abort")
  /\ UNCHANGED <<inputs_, late, bench>>

\* A row that cannot be written breaks the stream.
writeCsv(csv) ==
  \/ csv = csv_ /\ rows' = IF csv_.good THEN [rows EXCEPT ![csv_.of] = @ + 1] ELSE rows
  \/ csv_.good /\ csv = [csv_ EXCEPT !.good = FALSE] /\ UNCHANGED rows

KeepRunning(csv) ==
  /\ UNCHANGED <<state_, result_reason_, local_path_, summary>>
  /\ csv_' = csv

\* The run is over when the robot has stood at the end for settle_duration_.
Judge(csv) ==
  IF ~latest_pose.near
  THEN /\ UNCHANGED zero_command_since_
       /\ finishLocked("Aborted", "tracking_error_limit") /\ closeCsv(csv)
  ELSE IF latest_pose.inside /\ standing
  THEN /\ zero_command_since_' =
            IF zero_command_since_ = NotYet THEN Len(samples_') ELSE zero_command_since_
       /\ \/ finishLocked("Completed", "completed") /\ closeCsv(csv)
          \/ KeepRunning(csv)
  ELSE zero_command_since_' = NotYet /\ KeepRunning(csv)

Measure ==
  /\ Len(samples_) < RunSamples
  /\ samples_' = Append(samples_, [run |-> bench, near |-> latest_pose.near,
                                   inside |-> latest_pose.inside, standing |-> standing])
  /\ \E csv \in {csv_, [csv_ EXCEPT !.good = FALSE]} : writeCsv(csv) /\ Judge(csv)

fixedTimerCallback ==
  /\ state_ = "Running"
  /\ IF latest_pose.odometry = "old" THEN Abort("odometry_timeout")
     ELSE IF late THEN Abort("timeout")
     ELSE Measure
  /\ UNCHANGED <<inputs_, late, bench>>

FixedNext ==
  \/ fixedOdometryCallback \/ commandCallback \/ LimitPasses
  \/ startCallback \/ abortCallback \/ fixedTimerCallback

FixedSpec == FixedInit /\ [][FixedNext]_fixedVars

-----------------------------------------------------------------------------

\* The follower has the reference of the run while it is on, and nothing after it.
PathIsThisRuns == local_path_ = IF state_ = "Running" THEN bench ELSE NoRun

\* A completed run kept to the reference with every sample, and from some sample
\* on it stood at the end; an aborted one left the reference with its last, if any.
FollowedToTheEnd ==
  /\ \A k \in DOMAIN samples_ :
       /\ samples_[k].run = bench
       /\ ~samples_[k].near => k = Len(samples_) /\ result_reason_ = "tracking_error_limit"
  /\ state_ = "Completed" =>
       \E from \in DOMAIN samples_ : \A k \in from..Len(samples_) :
         samples_[k].inside /\ samples_[k].standing

\* The summary is of the last run and counts its samples, which are the rows of its
\* csv file unless that broke.
FilesTellTheRun ==
  /\ state_ \in {"Completed", "Aborted"} =>
       summary.of = bench /\ summary.result = result_reason_ /\ summary.samples = Len(samples_)
  /\ (state_ = "Completed") <=> (result_reason_ = "completed")
  /\ bench > NoRun /\ csv_.good => rows[bench] = Len(samples_)

FixedSafe == PathIsThisRuns /\ FollowedToTheEnd /\ FilesTellTheRun
=============================================================================
