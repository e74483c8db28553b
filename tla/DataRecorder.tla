---------------------------- MODULE DataRecorder ----------------------------
(***************************************************************************)
(* route3d_data_recorder: the node that pairs odometry and clouds by their *)
(* stamps and writes each pair as a frame: a PCD file, a row of the poses, *)
(* the manifest; then it publishes the pose.  One thread runs callbacks    *)
(* and shutdown; what may fail or be killed between two writes is an       *)
(* action of its own.  A write that fails throws out of spin, and the      *)
(* destructor finalizes the directory.  A message is its stamp and whether *)
(* it has the expected frames and a usable content; the rows and clouds on *)
(* disk are their stamps.                                                  *)
(***************************************************************************)
EXTENDS Integers, Sequences

CONSTANTS
  QueueSize,      \* queue_size_
  Slop,           \* sync_slop_s_
  Expects,        \* whether the expected_* frames are given
  MessageKinds,   \* what messages there are, of Kinds
  MaxStamp        \* bound on the stamps

Kinds == {"expected", "other frame", "unusable"}

ASSUME RecorderAssumption ==
  /\ QueueSize \in Nat /\ QueueSize >= 2 /\ Slop \in Nat /\ MaxStamp \in Nat
  /\ Expects \in BOOLEAN /\ MessageKinds \subseteq Kinds

VARIABLES
  last,           \* the stamps of the last odometry and the last cloud sent
  odometry_queue_, cloud_queue_,
  node,           \* where the thread is, the pair it records, and its members
  disk,           \* the output directory
  live            \* the synchronized poses published so far

recorderVars == <<last, odometry_queue_, cloud_queue_, node, disk, live>>

NoMessage == [stamp |-> 0, kind |-> "unusable"]
NoFrame == "no frame"
Torn == 0         \* a row that was not written to its end

\* odom_frame_ and cloud_frame_ are empty until the first pair.
NewNode ==
  [at |-> "waiting", odometry |-> NoMessage, cloud |-> NoMessage,
   odom_frame |-> NoFrame, cloud_frame |-> NoFrame, frame_count |-> 0]

EmptyDirectory ==
  [pose |-> "none", rows |-> <<>>, pcd |-> <<>>, manifest |-> "none", frames |-> 0]

Goes(a) == node' = [node EXCEPT !.at = a]

-----------------------------------------------------------------------------
(* The constructor; prepareOutputDirectory refuses a directory with anything *)
(* in it.  If the manifest cannot be written there is no node to finalize.   *)

Start ==
  /\ node.at = "down" /\ disk = EmptyDirectory
  /\ \/ node' = NewNode /\ disk' = [disk EXCEPT !.pose = "partial", !.manifest = "recording"]
     \/ UNCHANGED node /\ disk' = [disk EXCEPT !.pose = "partial"]
  /\ odometry_queue_' = <<>> /\ cloud_queue_' = <<>>
  /\ UNCHANGED <<last, live>>

-----------------------------------------------------------------------------
(* The callbacks.  Stamps grow on each topic; messages may be lost. *)

\* push_back, trimQueuesLocked
Push(q, m) == IF Len(q) >= QueueSize THEN Append(Tail(q), m) ELSE Append(q, m)

Messages(after) == [stamp : (after + 1)..MaxStamp, kind : MessageKinds]

onOdometry ==
  /\ node.at = "waiting" /\ Goes("matching")
  /\ \E m \in Messages(last.odometry) :
       /\ last' = [last EXCEPT !.odometry = m.stamp]
       /\ odometry_queue_' = Push(odometry_queue_, m)
  /\ UNCHANGED <<cloud_queue_, disk, live>>

onPointCloud ==
  /\ node.at = "waiting" /\ Goes("matching")
  /\ \E m \in Messages(last.cloud) :
       /\ last' = [last EXCEPT !.cloud = m.stamp]
       /\ cloud_queue_' = Push(cloud_queue_, m)
  /\ UNCHANGED <<odometry_queue_, disk, live>>

-----------------------------------------------------------------------------
(* processMatchingPairs *)

Delta(a, b) == IF a.stamp < b.stamp THEN b.stamp - a.stamp ELSE a.stamp - b.stamp

\* The closest pair, the first of several: clouds are the outer loop.
Closest(c, o) ==
  /\ c \in DOMAIN cloud_queue_ /\ o \in DOMAIN odometry_queue_
  /\ \A d \in DOMAIN cloud_queue_, p \in DOMAIN odometry_queue_ :
       LET best == Delta(cloud_queue_[c], odometry_queue_[o])
           other == Delta(cloud_queue_[d], odometry_queue_[p])
       IN  best < other \/ (best = other /\ (c < d \/ (c = d /\ o <= p)))

InSlop(c, o) ==
  Closest(c, o) /\ Delta(cloud_queue_[c], odometry_queue_[o]) <= Slop

WithoutIndexMutant(q, i) == Tail(q)     \* (mutated: the oldest goes)
WithoutIndex(q, i) ==
  [k \in 1..(Len(q) - 1) |-> IF k < i THEN q[k] ELSE q[k + 1]]

NoMatch ==
  /\ node.at = "matching"
  /\ ~ \E c \in DOMAIN cloud_queue_, o \in DOMAIN odometry_queue_ : InSlop(c, o)
  /\ Goes("waiting")
  /\ UNCHANGED <<last, odometry_queue_, cloud_queue_, disk, live>>

TakePair ==
  /\ node.at = "matching"
  /\ \E c \in DOMAIN cloud_queue_, o \in DOMAIN odometry_queue_ :
       /\ InSlop(c, o)
       /\ node' = [node EXCEPT !.at = "checking", !.odometry = odometry_queue_[o],
                               !.cloud = cloud_queue_[c]]
       /\ odometry_queue_' = WithoutIndex(odometry_queue_, o)
       /\ cloud_queue_' = WithoutIndex(cloud_queue_, c)
  /\ UNCHANGED <<last, disk, live>>

-----------------------------------------------------------------------------
(* recordPair *)

Frame(m) == IF m.kind = "other frame" THEN "other" ELSE "expected"

\* validateFrames: the expected frames are looked at with the first pair only.
FramesChecked ==
  LET first == node.odom_frame = NoFrame
      seen == [node EXCEPT !.odom_frame = Frame(node.odometry),
                           !.cloud_frame = Frame(node.cloud)]
      known == IF first THEN seen ELSE node
      valid == /\ first /\ Expects => known.odom_frame = "expected" /\ known.cloud_frame = "expected"
               /\ Frame(node.odometry) = known.odom_frame
               /\ Frame(node.cloud) = known.cloud_frame
  IN  <<known, valid>>

Usable == node.odometry.kind # "unusable" /\ node.cloud.kind # "unusable"

CheckPair ==
  /\ node.at = "checking"
  /\ node' = [FramesChecked[1] EXCEPT !.at =
                IF FramesChecked[2] /\ Usable THEN "writing" ELSE "matching"]
  /\ UNCHANGED <<last, odometry_queue_, cloud_queue_, disk, live>>

\* key_frames/<frame_count_>.pcd, written aside and renamed
writePcd ==
  /\ node.at = "writing" /\ Goes("appending")
  /\ disk' = [disk EXCEPT !.pcd =
       [k \in 1..(node.frame_count + 1) |->
          IF k <= node.frame_count THEN disk.pcd[k] ELSE node.cloud.stamp]]
  /\ UNCHANGED <<last, odometry_queue_, cloud_queue_, live>>

AppendRow ==
  /\ node.at = "appending" /\ Goes("counting")
  /\ disk' = [disk EXCEPT !.rows = Append(@, node.odometry.stamp)]
  /\ UNCHANGED <<last, odometry_queue_, cloud_queue_, live>>

\* writeManifest, also written aside and renamed, after the frame is counted
CountFrame ==
  /\ node.at = "counting"
  /\ node' = [node EXCEPT !.at = "publishing", !.frame_count = @ + 1]
  /\ disk' = [disk EXCEPT !.frames = node.frame_count + 1]
  /\ UNCHANGED <<last, odometry_queue_, cloud_queue_, live>>

PublishPose ==
  /\ node.at = "publishing" /\ Goes("matching")
  /\ live' = Append(live, node.odometry.stamp)
  /\ UNCHANGED <<last, odometry_queue_, cloud_queue_, disk>>

-----------------------------------------------------------------------------
(* Failing writes and the end.  The exception leaves spin, and main's handler *)
(* destroys the node, as it does after Ctrl+C: finalize.                      *)

WriteThrows ==
  /\ \/ node.at = "writing" /\ Goes("closing") /\ UNCHANGED disk
     \/ /\ node.at = "appending" /\ Goes("closing")
        /\ disk' = [disk EXCEPT !.rows = Append(@, Torn)]
     \/ /\ node.at = "counting" /\ UNCHANGED disk
        /\ node' = [node EXCEPT !.at = "closing", !.frame_count = @ + 1]
  /\ UNCHANGED <<last, odometry_queue_, cloud_queue_, live>>

\* rclcpp::ok() is false: after the pair that is being recorded
Interrupted ==
  /\ node.at \in {"waiting", "matching"} /\ Goes("closing")
  /\ UNCHANGED <<last, odometry_queue_, cloud_queue_, disk, live>>

ClosePoses ==
  /\ node.at = "closing"
  /\ \/ Goes("completing") /\ disk' = [disk EXCEPT !.pose = "final"]
     \/ Goes("down") /\ UNCHANGED disk
  /\ UNCHANGED <<last, odometry_queue_, cloud_queue_, live>>

Complete ==
  /\ node.at = "completing" /\ Goes("down")
  /\ \/ disk' = [disk EXCEPT !.manifest = "complete", !.frames = node.frame_count]
     \/ UNCHANGED disk
  /\ UNCHANGED <<last, odometry_queue_, cloud_queue_, live>>

Killed ==
  /\ node.at # "down" /\ Goes("down")
  /\ UNCHANGED <<last, odometry_queue_, cloud_queue_, disk, live>>

-----------------------------------------------------------------------------
DataInit ==
  /\ last = [odometry |-> 0, cloud |-> 0]
  /\ odometry_queue_ = <<>> /\ cloud_queue_ = <<>>
  /\ node = [NewNode EXCEPT !.at = "down"]
  /\ disk = EmptyDirectory /\ live = <<>>

DataNext ==
  \/ Start \/ onOdometry \/ onPointCloud \/ NoMatch \/ TakePair \/ CheckPair
  \/ writePcd \/ AppendRow \/ CountFrame \/ PublishPose
  \/ WriteThrows \/ Interrupted \/ ClosePoses \/ Complete \/ Killed

DataSpec == DataInit /\ [][DataNext]_recorderVars

-----------------------------------------------------------------------------
(* Properties *)

ThreadPlaces == {"waiting", "matching", "checking", "writing", "appending", "counting",
            "publishing", "closing", "completing", "down"}

RecorderTypeOK ==
  /\ last \in [odometry : 0..MaxStamp, cloud : 0..MaxStamp]
  /\ Len(odometry_queue_) <= QueueSize /\ Len(cloud_queue_) <= QueueSize
  /\ node.at \in ThreadPlaces /\ node.frame_count \in Nat
  /\ disk.pose \in {"none", "partial", "final"}
  /\ disk.manifest \in {"none", "recording", "complete"} /\ disk.frames \in Nat

\* "every input frame is traceable to pose.json and key_frames/<index>.pcd"
\* (recordPair): each pose published has its row and its cloud, in the same
\* place and of a stamp within the slop, wherever a write fails or the node is
\* killed.
FramesTraceable ==
  \A k \in DOMAIN live :
    /\ k \in DOMAIN disk.rows /\ disk.rows[k] = live[k]
    /\ k \in DOMAIN disk.pcd
    /\ disk.pcd[k] - live[k] <= Slop /\ live[k] - disk.pcd[k] <= Slop

\* No message is in two frames.
RecordedOnce ==
  /\ \A j, k \in DOMAIN disk.pcd : disk.pcd[j] = disk.pcd[k] => j = k
  /\ \A j, k \in DOMAIN disk.rows : disk.rows[j] = disk.rows[k] => j = k

\* The manifest never counts a frame that is not on disk, and a complete one
\* counts them all, unless a row could not be appended.
ManifestTrue ==
  /\ disk.frames <= Len(disk.rows) /\ disk.frames <= Len(disk.pcd)
  /\ disk.manifest = "complete" =>
       /\ disk.pose = "final"
       /\ \/ disk.frames = Len(disk.rows) /\ disk.frames = Len(disk.pcd)
          \/ \E k \in DOMAIN disk.rows : disk.rows[k] = Torn

DataSafe == RecorderTypeOK /\ FramesTraceable /\ RecordedOnce /\ ManifestTrue
=============================================================================
