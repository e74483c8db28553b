----------------------- MODULE EfficientPlannerProofs -----------------------
(***************************************************************************)
(* What drives the robot along a task.  First the two nodes of             *)
(* efficient_3d_local_planner: the mapper, and the planner that is given   *)
(* its grids.                                                              *)
(*                                                                         *)
(* The mapper is safe for every size of its queues, every tolerance and    *)
(* every setting of the log odds, the confirmation and the decay.  Two     *)
(* orders carry it: the clouds go through queue, worker, map and grid in   *)
(* the order of their stamps, and the grids through the topic to the       *)
(* extension and the planner in the order of their revisions.              *)
(*                                                                         *)
(* The planner, for every set of ways and maps and any number of routes:   *)
(* the callback that judges a path outside the mutex never lets the robot  *)
(* lose a path for what another path does.                                 *)
(*                                                                         *)
(* And the tracker that drives a task when PID does: for every route of    *)
(* the plane grid and every place the robot may be pushed to, no mandatory *)
(* corner is cut.                                                          *)
(*                                                                         *)
(* At the end the two benchmarks that drive the follower in place of the   *)
(* planner, for every circle, any number of runs and of samples.           *)
(***************************************************************************)
EXTENDS VoxelMapper, RouteTracker, PathDrivers, SequenceTheorems, WellFoundedInduction,
        TLAPS

-----------------------------------------------------------------------------
(* The invariant *)

Clouds == [stamp : Nat, scan : Scans, expired : BOOLEAN]

\* Clouds wait in the order in which they were sent, behind the one the worker has.
InOrder ==
  /\ sent \in [cloud : 0 .. MaxStamp, odometry : Nat]
  /\ queue \in Seq(Clouds) /\ Len(queue) <= QueueCapacity
  /\ history \in Seq([stamp : Nat, pose : Poses]) /\ Len(history) <= HistoryCapacity
  /\ \A i \in DOMAIN queue : queue[i].stamp <= sent.cloud
  /\ \A i, j \in DOMAIN queue : i <= j => queue[i].stamp <= queue[j].stamp
  /\ \A f \in frame : /\ f.stamp \in Nat /\ f.stamp <= sent.cloud
                      /\ \A i \in DOMAIN queue : f.stamp <= queue[i].stamp
                      /\ frame = {f}

\* x is no later than any cloud that is still to be processed.
Behind(x) ==
  /\ x <= sent.cloud
  /\ \A f \in frame : x <= f.stamp
  /\ \A i \in DOMAIN queue : x <= queue[i].stamp

\* The ranges of a voxel, and what its confirmation means.
SoundCell(c) ==
  /\ c \in [log : LogMin .. LogMax, update : Nat, hit : Nat,
            run : 0 .. HitConfirmation, hard : BOOLEAN]
  /\ c.hit <= c.update
  /\ c.hard => c.log >= Threshold

\* The decay of a voxel that was hit is not far behind its grid.
Current(c, stamp) == c.hit > 0 => stamp - c.update <= DecayStart

\* The run of hits that the voxel counts is one of the last observations.
Counts(c, s) ==
  /\ s \in Seq({"hit", "free"}) /\ Len(s) <= HitConfirmation
  /\ c.run <= Len(s)
  /\ \A i \in DOMAIN s : Len(s) - c.run < i => s[i] = "hit"

\* g was published no later than h.
NoLater(g, h) == g.stamp <= h.stamp /\ g.revision <= h.revision

Grids == [stamp : Nat, revision : Nat, occupied : BOOLEAN, radius : {"small", "large"}]

\* A grid reaches the topic, the extension and the planner in this order.
Passes ==
  /\ grid \subseteq Grids /\ topic \subseteq Grids /\ latest \subseteq Grids
  /\ \A g, h \in grid : g = h
  /\ \A g, h \in topic : g = h
  /\ \A g, h \in latest : g = h
  /\ \A g \in topic : \E h \in grid : NoLater(g, h)
  /\ \A g \in latest : \E h \in grid : NoLater(g, h)
  /\ \A g \in latest, h \in topic : NoLater(g, h)
  /\ \A q \in planner : \E g \in latest : q.stamp = g.stamp /\ q.revision = g.revision

MapperInv ==
  /\ InOrder
  /\ SoundCell(cell) /\ Behind(cell.update)
  /\ Counts(cell, seen)
  /\ \A g \in grid : Behind(g.stamp) /\ Current(cell, g.stamp)
  /\ radius \in {"small", "large"} /\ enabled \in BOOLEAN
  /\ Passes /\ ProfileInNewestGrid

-----------------------------------------------------------------------------
(* Numbers *)

LEMMA TwoNumbers ==
  ASSUME NEW a \in Int, NEW b \in Int
  PROVE  /\ Max({a, b}) = IF a >= b THEN a ELSE b
         /\ Min({a, b}) = IF a <= b THEN a ELSE b
<1>1. \E m \in {a, b} : \A y \in {a, b} : m >= y
  OBVIOUS
<1>2. \E m \in {a, b} : \A y \in {a, b} : m <= y
  OBVIOUS
<1>3. Max({a, b}) \in {a, b} /\ Max({a, b}) >= a /\ Max({a, b}) >= b
  BY <1>1 DEF Max
<1>4. Min({a, b}) \in {a, b} /\ Min({a, b}) <= a /\ Min({a, b}) <= b
  BY <1>2 DEF Min
<1> QED  BY <1>3, <1>4

\* Clamping stays in the range, and lowers only what is above it.
LEMMA ClampedType ==
  ASSUME NEW log \in Int
  PROVE  /\ Clamped(log) \in LogMin .. LogMax
         /\ log <= LogMax => Clamped(log) >= log
<1>1. LogMin \in Int /\ LogMax \in Int /\ LogMin <= LogMax
  BY LogAssumption DEF LogAssumption, LogMin
<1>2. Min({LogMax, log}) = IF LogMax <= log THEN LogMax ELSE log
  BY <1>1, TwoNumbers
<1>3. Clamped(log) = IF LogMin >= Min({LogMax, log}) THEN LogMin ELSE Min({LogMax, log})
  <2>1. Min({LogMax, log}) \in Int
    BY <1>1, <1>2
  <2> QED  BY <1>1, <2>1, TwoNumbers DEF Clamped
<1> QED  BY <1>1, <1>2, <1>3

-----------------------------------------------------------------------------
(* The voxel *)

Cells == [log : LogMin .. LogMax, update : Nat, hit : Nat,
          run : 0 .. HitConfirmation, hard : BOOLEAN]

LEMMA NewCellSound ==
  /\ SoundCell(NewCell)
  /\ NewCell.update = 0 /\ NewCell.run = 0 /\ ~ NewCell.hard /\ NewCell.log = 0
  /\ \A x : Current(NewCell, x)
<1>1. 0 \in LogMin .. LogMax /\ 0 \in 0 .. HitConfirmation
  BY LogAssumption DEF LogAssumption, LogMin
<1>2. NewCell = [log |-> 0, update |-> 0, hit |-> 0, run |-> 0, hard |-> FALSE]
  BY DEF NewCell
<1> QED  BY <1>1, <1>2 DEF SoundCell, Current

\* A hit: the run goes on, up to the count that confirms.
LEMMA HitStep ==
  ASSUME NEW c, SoundCell(c), NEW stamp \in Nat, c.update <= stamp
  PROVE  LET d == Hit(c, stamp)
         IN /\ SoundCell(d) /\ d.update = stamp
            /\ d.run <= c.run + 1
            /\ d.hard => c.hard \/ d.run = HitConfirmation
            /\ d.log >= c.log
<1> DEFINE log == Clamped(c.log + LogHit)
           run == Min({HitConfirmation, c.run + 1})
           hard == c.hard \/ (run >= HitConfirmation /\ log >= Threshold)
<1>1. /\ c.log \in LogMin .. LogMax /\ c.run \in 0 .. HitConfirmation /\ c.hard \in BOOLEAN
      /\ LogMin \in Int /\ LogMax \in Int /\ LogHit \in Nat \ {0}
      /\ HitConfirmation \in Nat \ {0} /\ Threshold \in Int
  BY LogAssumption DEF SoundCell, LogAssumption, LogMin
<1>2. log \in LogMin .. LogMax /\ log >= c.log
  <2>1. c.log + LogHit \in Int
    BY <1>1
  <2>2. CASE c.log + LogHit <= LogMax
    BY <1>1, <2>1, <2>2, ClampedType
  <2>3. CASE ~ (c.log + LogHit <= LogMax)
    <3> DEFINE a == c.log + LogHit
    <3>1. Min({LogMax, a}) = IF LogMax <= a THEN LogMax ELSE a
      BY <1>1, <2>1, TwoNumbers
    <3>2. Max({LogMin, LogMax}) = IF LogMin >= LogMax THEN LogMin ELSE LogMax
      BY <1>1, TwoNumbers
    <3>3. Min({LogMax, a}) = LogMax
      BY <1>1, <2>1, <2>3, <3>1
    <3>4. log = Max({LogMin, LogMax})
      BY <3>3 DEF Clamped
    <3> QED  BY <1>1, <3>2, <3>4
  <2> QED  BY <2>2, <2>3
<1>3. /\ run \in 0 .. HitConfirmation /\ run <= c.run + 1
      /\ run >= HitConfirmation => run = HitConfirmation
  <2>1. HitConfirmation \in Int /\ c.run + 1 \in Int
    BY <1>1
  <2>2. run = IF HitConfirmation <= c.run + 1 THEN HitConfirmation ELSE c.run + 1
    BY <2>1, TwoNumbers
  <2> QED  BY <1>1, <2>2
<1>4. Hit(c, stamp) = [log |-> log, update |-> stamp, hit |-> stamp, run |-> run,
                       hard |-> hard]
  BY DEF Hit
<1>5. hard \in BOOLEAN /\ (hard => log >= Threshold)
      /\ (hard => c.hard \/ run = HitConfirmation)
  <2>1. c.hard => c.log >= Threshold
    BY DEF SoundCell
  <2> HIDE DEF log, run
  <2> QED  BY <1>1, <1>2, <1>3, <2>1
<1> HIDE DEF log, run, hard
<1> QED  BY <1>2, <1>3, <1>4, <1>5 DEF SoundCell

\* A free ray ends the run and takes one miss.
LEMMA PassedStep ==
  ASSUME NEW c, SoundCell(c), NEW stamp \in Nat, c.update <= stamp
  PROVE  LET d == Passed(c, stamp)
         IN /\ SoundCell(d) /\ d.update = stamp /\ d.run = 0
            /\ d.hard => c.hard
            /\ c.log - d.log <= LogMiss
<1> DEFINE log == Clamped(c.log - LogMiss)
           hard == c.hard /\ log >= Threshold
           d == [c EXCEPT !.log = log, !.update = stamp, !.run = 0, !.hard = hard]
<1>1. /\ c.log \in LogMin .. LogMax /\ LogMin \in Int /\ LogMax \in Int
      /\ LogMiss \in Nat /\ HitConfirmation \in Nat
      /\ c \in Cells /\ c.hit <= c.update /\ c.hit \in Nat /\ c.update \in Nat
  BY LogAssumption DEF SoundCell, LogAssumption, LogMin, Cells
<1>2. log \in LogMin .. LogMax /\ log >= c.log - LogMiss
  BY <1>1, ClampedType
<1>3. hard \in BOOLEAN /\ (hard => log >= Threshold /\ c.hard)
  OBVIOUS
<1>4. Passed(c, stamp) = d
  BY DEF Passed
<1> HIDE DEF log, hard
<1>5. /\ d \in Cells /\ d.log = log /\ d.update = stamp /\ d.run = 0 /\ d.hard = hard
      /\ d.hit = c.hit
  <2>1. 0 \in 0 .. HitConfirmation
    BY <1>1
  <2>2. \A run \in 0 .. HitConfirmation :
          LET e == [c EXCEPT !.log = log, !.update = stamp, !.run = run, !.hard = hard]
          IN /\ e \in Cells /\ e.log = log /\ e.update = stamp /\ e.run = run
             /\ e.hard = hard /\ e.hit = c.hit
    BY <1>1, <1>2, <1>3 DEF Cells
  <2> QED  BY <2>1, <2>2
<1> HIDE DEF d
<1> QED  BY <1>1, <1>2, <1>3, <1>4, <1>5 DEF SoundCell, Cells

\* What a scan does to the voxel, by what it observes.
LEMMA ObserveStep ==
  ASSUME NEW c, SoundCell(c), NEW f, f.stamp \in Nat, c.update <= f.stamp
  PROVE  LET d == Observe(c, f)
         IN /\ SoundCell(d) /\ d.update <= f.stamp
            /\ d.run <= CASE Observation(f) = "hit" -> c.run + 1
                          [] Observation(f) = "free" -> 0
                          [] OTHER -> c.run
            /\ d.hard /\ ~ c.hard => Observation(f) = "hit" /\ d.run = HitConfirmation
            /\ c.log - d.log <= LogMiss
            /\ d.update = f.stamp \/ d = c
<1>1. /\ c.log \in LogMin .. LogMax /\ LogMin \in Int /\ LogMax \in Int
      /\ LogMiss \in Nat /\ c.run \in Nat
  BY LogAssumption DEF SoundCell, LogAssumption, LogMin
<1>2. CASE Observation(f) = "hit"
  <2>1. Observe(c, f) = Hit(c, f.stamp)
    BY <1>2 DEF Observe
  <2>2. Hit(c, f.stamp).log \in LogMin .. LogMax /\ Hit(c, f.stamp).log >= c.log
    BY HitStep DEF SoundCell
  <2>3. c.log - Hit(c, f.stamp).log <= LogMiss
    BY <1>1, <2>2
  <2> QED  BY <1>2, <2>1, <2>3, HitStep
<1>3. CASE Observation(f) = "free"
  <2>1. Observe(c, f) = Passed(c, f.stamp)
    BY <1>3 DEF Observe
  <2> QED  BY <1>3, <2>1, PassedStep
<1>4. CASE Observation(f) \notin {"hit", "free"}
  <2>1. Observe(c, f) = c
    BY <1>4 DEF Observe
  <2> QED  BY <1>1, <1>4, <2>1
<1> QED  BY <1>2, <1>3, <1>4

\* A longer time takes no less.
LEMMA MoreDecay ==
  ASSUME NEW a \in Int, NEW b \in Int, a <= b
  PROVE  DecayRate * a <= DecayRate * b
<1>1. DecayRate \in Nat
  BY LogAssumption DEF LogAssumption
<1>2. DecayRate * (b - a) >= 0
  BY <1>1
<1>3. DecayRate * b = DecayRate * a + DecayRate * (b - a)
  BY <1>1
<1>4. DecayRate * a \in Int /\ DecayRate * b \in Int /\ DecayRate * (b - a) \in Int
  BY <1>1
<1> QED  BY <1>2, <1>3, <1>4

\* The decay: due or not, the voxel is current afterwards, and it has lost no more
\* than the rate takes in the time since its last update.
LEMMA DecayStep ==
  ASSUME NEW c, SoundCell(c), NEW stamp \in Nat, c.update <= stamp
  PROVE  LET d == Decay(c, stamp)
         IN /\ SoundCell(d) /\ d.update <= stamp /\ Current(d, stamp)
            /\ d.run \in {0, c.run}
            /\ d.hard => c.hard /\ d.run = c.run
            /\ c.hit = 0 => c.log - d.log <= 0
            /\ c.log - d.log <= DecayRate * (stamp - c.update)
<1> DEFINE age == stamp - c.update
           due == c.hit > 0 /\ stamp - c.hit > DecayStart /\ age > 0
           log == Max({LogMin, c.log - DecayRate * age})
           hard == c.hard /\ log >= Threshold
           e == [c EXCEPT !.log = log, !.update = stamp, !.hard = hard]
           next == IF due THEN e ELSE c
           d == IF next.log = LogMin /\ age > 0 THEN NewCell ELSE next
<1>1. /\ c.log \in LogMin .. LogMax /\ LogMin \in Int /\ LogMax \in Nat /\ LogMin < 0
      /\ DecayRate \in Nat /\ DecayStart \in Nat /\ c \in Cells /\ c.hit <= c.update
      /\ c.hit \in Nat /\ c.update \in Nat /\ age \in Nat
      /\ c.hard => c.log >= Threshold
  BY LogAssumption DEF SoundCell, LogAssumption, LogMin, Cells
<1>2. DecayRate * age \in Nat
  BY <1>1
<1> DEFINE loss == DecayRate * age
<1>3. Decay(c, stamp) = d
  BY DEF Decay
<1>4. log = IF LogMin >= c.log - loss THEN LogMin ELSE c.log - loss
  BY <1>1, <1>2, TwoNumbers
<1> HIDE DEF loss, log
<1>5. loss \in Nat /\ log \in LogMin .. LogMax /\ c.log - log <= loss
  BY <1>1, <1>2, <1>4 DEF loss
<1>6. hard \in BOOLEAN /\ (hard => c.hard /\ log >= Threshold)
  OBVIOUS
<1> HIDE DEF hard
<1>7. /\ e \in Cells /\ e.log = log /\ e.update = stamp /\ e.hit = c.hit
      /\ e.run = c.run /\ e.hard = hard
  BY <1>1, <1>5, <1>6 DEF Cells
<1> HIDE DEF e
<1>8. SoundCell(e)
  BY <1>1, <1>6, <1>7 DEF SoundCell, Cells
<1>9. /\ SoundCell(next) /\ next.update <= stamp /\ Current(next, stamp)
      /\ next.run = c.run /\ (next.hard => c.hard)
      /\ (c.hit = 0 => next.log = c.log) /\ c.log - next.log <= loss
      /\ (next.log # c.log => due)
  <2>1. CASE due
    BY <1>1, <1>5, <1>6, <1>7, <1>8, <2>1 DEF Current
  <2>2. CASE ~ due
    BY <1>1, <1>5, <2>2 DEF Current
  <2> QED  BY <2>1, <2>2
<1> HIDE DEF next
<1>10. CASE next.log = LogMin /\ age > 0
  <2>1. d = NewCell
    BY <1>10
  <2>2. c.log - NewCell.log <= loss /\ (c.hit = 0 => c.log - NewCell.log <= 0)
    BY <1>1, <1>5, <1>9, <1>10, NewCellSound
  <2> QED  BY <1>3, <2>1, <2>2, NewCellSound DEF loss
<1>11. CASE ~ (next.log = LogMin /\ age > 0)
  <2>1. d = next
    BY <1>11
  <2>2. c.hit = 0 => c.log - next.log <= 0
    BY <1>1, <1>9
  <2> HIDE DEF d, age
  <2> QED  BY <1>3, <1>9, <2>1, <2>2 DEF loss, age
<1> QED  BY <1>10, <1>11

\* Fading: forgotten, preserved with its clock moved on, or decayed.
LEMMA FadeStep ==
  ASSUME NEW c, SoundCell(c), NEW f, f.stamp \in Nat, c.update <= f.stamp
  PROVE  LET d == Fade(c, f)
         IN /\ SoundCell(d) /\ d.update <= f.stamp /\ Current(d, f.stamp)
            /\ d.run \in {0, c.run}
            /\ d.hard => c.hard /\ d.run = c.run
            /\ f.pose # "far" =>
                 /\ c.hit = 0 => c.log - d.log <= 0
                 /\ c.log - d.log <= DecayRate * (f.stamp - c.update)
<1>1. CASE f.pose = "far"
  <2>1. Fade(c, f) = NewCell
    BY <1>1 DEF Fade
  <2> QED  BY <1>1, <2>1, NewCellSound
<1>2. CASE f.pose # "far" /\ ~ Preserved(c, f.pose)
  <2>1. Fade(c, f) = Decay(c, f.stamp)
    BY <1>2 DEF Fade
  <2> QED  BY <2>1, DecayStep
<1>3. CASE f.pose # "far" /\ Preserved(c, f.pose)
  <2> DEFINE d == [c EXCEPT !.update = f.stamp]
  <2>1. Fade(c, f) = d
    BY <1>3 DEF Fade
  <2>2. c \in Cells /\ c.update \in Nat /\ c.hit \in Nat /\ c.hit <= c.update
        /\ c.log \in Int
    BY DEF SoundCell, Cells, LogMin
  <2>3. d \in Cells /\ d.update = f.stamp /\ d.log = c.log /\ d.hit = c.hit
        /\ d.run = c.run /\ d.hard = c.hard
    BY <2>2 DEF Cells
  <2> HIDE DEF d
  <2>4. SoundCell(d)
    BY <2>2, <2>3 DEF SoundCell, Cells
  <2>5. Current(d, f.stamp)
    BY <2>3, LogAssumption DEF Current, LogAssumption
  <2>6. DecayRate \in Nat /\ f.stamp - c.update \in Nat
    BY <2>2, LogAssumption DEF LogAssumption
  <2>7. DecayRate * (f.stamp - c.update) >= 0
    BY <2>6
  <2>8. c.log - d.log = 0
    BY <2>2, <2>3
  <2> QED  BY <2>1, <2>2, <2>3, <2>4, <2>5, <2>7, <2>8
<1> QED  BY <1>1, <1>2, <1>3

\* All of an update.
LEMMA UpdatedStep ==
  ASSUME NEW c, SoundCell(c), NEW f, f.stamp \in Nat, c.update <= f.stamp
  PROVE  LET d == Updated(c, f)
         IN /\ SoundCell(d) /\ d.update <= f.stamp /\ Current(d, f.stamp)
            /\ d.run <= CASE Observation(f) = "hit" -> c.run + 1
                          [] Observation(f) = "free" -> 0
                          [] OTHER -> c.run
            /\ d.hard /\ ~ c.hard => Observation(f) = "hit" /\ d.run = HitConfirmation
<1> DEFINE e == Observe(c, f)
           g == Fade(e, f)
           most == CASE Observation(f) = "hit" -> c.run + 1
                     [] Observation(f) = "free" -> 0
                     [] OTHER -> c.run
<1>1. /\ SoundCell(e) /\ e.update <= f.stamp /\ e.run <= most
      /\ (e.hard /\ ~ c.hard => Observation(f) = "hit" /\ e.run = HitConfirmation)
  BY ObserveStep
<1>2. c.run \in Nat /\ e.run \in Nat
  BY <1>1, LogAssumption DEF SoundCell, LogAssumption
<1>3. most \in Nat
  BY <1>2
<1> HIDE DEF e, most
<1>4. /\ SoundCell(g) /\ g.update <= f.stamp /\ Current(g, f.stamp)
      /\ g.run \in {0, e.run} /\ (g.hard => e.hard /\ g.run = e.run)
  BY <1>1, FadeStep
<1> HIDE DEF g
<1>5. Updated(c, f) = IF f.pose = "inside" /\ Occupied(g) THEN NewCell ELSE g
  BY DEF Updated, clearBodyExclusion, e, g
<1>6. g.run <= most
  BY <1>1, <1>2, <1>3, <1>4
<1>7. g.hard /\ ~ c.hard => Observation(f) = "hit" /\ g.run = HitConfirmation
  BY <1>1, <1>4
<1>8. NewCell.update <= f.stamp /\ NewCell.run <= most
  BY <1>3, NewCellSound
<1> QED  BY <1>4, <1>5, <1>6, <1>7, <1>8, NewCellSound DEF most

\* And what it takes at most from a voxel that is beside the robot.
LEMMA UpdatedLoss ==
  ASSUME NEW c, SoundCell(c), NEW f, f.stamp \in Nat, c.update <= f.stamp,
         f.pose \in {"front", "behind"},
         NEW stamp \in Nat, stamp <= f.stamp, Current(c, stamp)
  PROVE  c.log - Updated(c, f).log <= LogMiss + DecayRate * (DecayStart + f.stamp - stamp)
<1> DEFINE e == Observe(c, f)
           g == Fade(e, f)
           most == DecayRate * (DecayStart + f.stamp - stamp)
<1>1. /\ DecayRate \in Nat /\ DecayStart \in Nat /\ LogMiss \in Nat
      /\ DecayStart + f.stamp - stamp \in Nat
  BY LogAssumption DEF LogAssumption
<1>2. most \in Nat
  BY <1>1
<1>3. /\ SoundCell(e) /\ e.update <= f.stamp /\ c.log - e.log <= LogMiss
      /\ (e.update = f.stamp \/ e = c)
  BY ObserveStep
<1> HIDE DEF e
<1>4. /\ SoundCell(g) /\ (e.hit = 0 => e.log - g.log <= 0)
      /\ e.log - g.log <= DecayRate * (f.stamp - e.update)
  BY <1>3, FadeStep
<1> HIDE DEF g
<1>5. Updated(c, f) = g
  BY DEF Updated, clearBodyExclusion, e, g
<1>6. /\ c.log \in Int /\ e.log \in Int /\ g.log \in Int /\ e.update \in Nat /\ e.hit \in Nat
  BY <1>3, <1>4 DEF SoundCell, LogMin
<1>7. e.log - g.log <= most
  <2>1. CASE e.hit = 0
    BY <1>2, <1>4, <1>6, <2>1
  <2>2. CASE e.hit # 0
    <3>1. f.stamp - e.update <= DecayStart + f.stamp - stamp
      BY <1>1, <1>3, <1>6, <2>2 DEF Current
    <3> DEFINE gone == DecayRate * (f.stamp - e.update)
    <3>2. gone <= most
      BY <1>1, <1>6, <3>1, MoreDecay
    <3>3. gone \in Int
      BY <1>1, <1>6
    <3>4. e.log - g.log <= gone
      BY <1>4
    <3> HIDE DEF gone, most
    <3> QED  BY <1>2, <1>6, <3>2, <3>3, <3>4
  <2> QED  BY <2>1, <2>2
<1> HIDE DEF most
<1>8. c.log - g.log <= LogMiss + most
  BY <1>1, <1>2, <1>3, <1>6, <1>7
<1> QED  BY <1>5, <1>8 DEF most

-----------------------------------------------------------------------------
(* The queues                                                                *)

\* A bounded history that takes one more: the last is new, the others are old
\* ones in their order, and the first is gone when there was no room.
Slides(k, s, x, capacity) ==
  /\ Len(k) \in 1 .. capacity /\ k[Len(k)] = x
  /\ \E off \in {0, 1} :
       /\ Len(k) = Len(s) + 1 - off /\ (off = 1 => Len(k) = capacity)
       /\ \A i \in 1 .. Len(k) - 1 : i + off \in 1 .. Len(s) /\ k[i] = s[i + off]

LEMMA KeepAppend ==
  ASSUME NEW S, NEW s \in Seq(S), NEW x \in S, NEW capacity \in Nat \ {0},
         Len(s) <= capacity
  PROVE  LET k == Keep(Append(s, x), capacity)
         IN k \in Seq(S) /\ Slides(k, s, x, capacity)
<1> DEFINE a == Append(s, x)
           n == Len(s)
<1>1. /\ a \in Seq(S) /\ Len(a) = n + 1 /\ a[n + 1] = x /\ n \in Nat
      /\ \A i \in 1 .. n : a[i] = s[i]
  BY AppendProperties, LenProperties
<1> HIDE DEF a, n
<1>2. CASE n + 1 > capacity
  <2>1. Keep(a, capacity) = Tail(a)
    BY <1>1, <1>2 DEF Keep
  <2>2. a # <<>>
    BY <1>1, EmptySeq
  <2>3. /\ Tail(a) \in Seq(S) /\ Len(Tail(a)) = n
        /\ \A i \in 1 .. n : Tail(a)[i] = a[i + 1]
    BY <1>1, <2>2, HeadTailProperties
  <2>4. n = capacity /\ n >= 1
    BY <1>1, <1>2 DEF n
  <2>5. Tail(a)[n] = x
    BY <1>1, <2>3, <2>4
  <2>6. \A i \in 1 .. n - 1 : i + 1 \in 1 .. n /\ Tail(a)[i] = s[i + 1]
    <3> TAKE i \in 1 .. n - 1
    <3>1. i \in 1 .. n /\ i + 1 \in 1 .. n
      BY <1>1
    <3> QED  BY <1>1, <2>3, <3>1
  <2>7. n = n + 1 - 1 /\ n <= capacity
    BY <1>1, <2>4
  <2>8. \E off \in {0, 1} : /\ n = n + 1 - off /\ (off = 1 => n = capacity)
                            /\ \A i \in 1 .. n - 1 : /\ i + off \in 1 .. n
                                                    /\ Tail(a)[i] = s[i + off]
    BY <2>4, <2>6, <2>7
  <2> QED  BY <1>1, <2>1, <2>3, <2>4, <2>5, <2>7, <2>8 DEF a, n, Slides
<1>3. CASE ~ (n + 1 > capacity)
  <2>1. Keep(a, capacity) = a
    BY <1>1, <1>3 DEF Keep
  <2>2. \A i \in 1 .. (n + 1) - 1 : i + 0 \in 1 .. n /\ a[i] = s[i + 0]
    <3> TAKE i \in 1 .. (n + 1) - 1
    <3>1. i \in 1 .. n /\ i + 0 = i
      BY <1>1
    <3> QED  BY <1>1, <3>1
  <2>3. n + 1 = n + 1 - 0 /\ n + 1 >= 1 /\ n + 1 \in Nat /\ n + 1 <= capacity
    BY <1>1, <1>3
  <2>4. \E off \in {0, 1} : /\ n + 1 = n + 1 - off /\ (off = 1 => n + 1 = capacity)
                            /\ \A i \in 1 .. (n + 1) - 1 : /\ i + off \in 1 .. n
                                                          /\ a[i] = s[i + off]
    BY <2>2, <2>3
  <2> QED  BY <1>1, <2>1, <2>3, <2>4 DEF a, n, Slides
<1> QED  BY <1>2, <1>3

\* The queue without its head.
LEMMA TailQueue ==
  ASSUME NEW q \in Seq(Clouds), q # <<>>
  PROVE  /\ Head(q) = q[1] /\ 1 \in DOMAIN q /\ q[1] \in Clouds
         /\ Tail(q) \in Seq(Clouds) /\ Len(Tail(q)) <= Len(q)
         /\ DOMAIN Tail(q) \subseteq Nat
         /\ \A i \in DOMAIN Tail(q) : i + 1 \in DOMAIN q /\ Tail(q)[i] = q[i + 1]
<1>1. /\ Len(q) \in Nat /\ Len(q) # 0 /\ DOMAIN q = 1 .. Len(q)
  BY LenProperties, EmptySeq
<1>2. /\ Head(q) = q[1] /\ Tail(q) \in Seq(Clouds) /\ Len(Tail(q)) = Len(q) - 1
      /\ \A i \in 1 .. Len(Tail(q)) : Tail(q)[i] = q[i + 1]
  BY HeadTailProperties
<1>3. DOMAIN Tail(q) = 1 .. Len(Tail(q))
  BY <1>2, LenProperties
<1>4. 1 \in 1 .. Len(q)
  BY <1>1
<1>5. q[1] \in Clouds
  BY <1>4, ElementOfSeq
<1> QED  BY <1>1, <1>2, <1>3, <1>4, <1>5

\* What the queue, the worker and the clocks have to do with the rest.
LEMMA StampTypes ==
  ASSUME MapperInv
  PROVE  /\ sent.cloud \in Nat /\ sent.cloud <= MaxStamp /\ cell.update \in Nat
         /\ \A i \in DOMAIN queue : i \in Nat /\ queue[i].stamp \in Nat
         /\ \A g \in grid : g.stamp \in Nat /\ g.revision \in Nat
<1>1. /\ sent \in [cloud : 0 .. MaxStamp, odometry : Nat] /\ MaxStamp \in Nat
      /\ queue \in Seq(Clouds) /\ SoundCell(cell) /\ grid \subseteq Grids
  BY BoundAssumption DEF MapperInv, InOrder, Passes, BoundAssumption
<1>2. DOMAIN queue = 1 .. Len(queue) /\ Len(queue) \in Nat
  BY <1>1, LenProperties
<1>3. \A i \in DOMAIN queue : queue[i] \in Clouds
  BY <1>1, <1>2, ElementOfSeq
<1> QED  BY <1>1, <1>2, <1>3 DEF Clouds, SoundCell, Grids

\* A step that leaves the map, the grids and their radius alone, and processes no
\* cloud twice.
LEMMA InputInv ==
  ASSUME MapperInv, InOrder', \A x \in Nat : Behind(x) => Behind(x)',
         UNCHANGED <<cell, seen, grid, topic, radius, enabled, latest, planner>>
  PROVE  MapperInv'
<1>1. Behind(cell.update)' /\ \A g \in grid : Behind(g.stamp)' /\ Current(cell, g.stamp)
  BY StampTypes DEF MapperInv, Behind
<1> QED  BY <1>1 DEF MapperInv, Passes, ProfileInNewestGrid

LEMMA cloudInv ==
  ASSUME MapperInv, NEW scan \in Scans, cloudCallback(scan)
  PROVE  MapperInv'
<1> DEFINE new == [stamp |-> sent'.cloud, scan |-> scan, expired |-> FALSE]
<1>1. /\ sent' \in [cloud : 0 .. MaxStamp, odometry : Nat]
      /\ sent'.cloud = sent.cloud + 1 /\ sent.cloud \in Nat /\ MaxStamp \in Nat
  <2>1. sent \in [cloud : 0 .. MaxStamp, odometry : Nat] /\ MaxStamp \in Nat
    BY BoundAssumption DEF MapperInv, InOrder, BoundAssumption
  <2> QED  BY <2>1 DEF cloudCallback
<1>2. new \in Clouds /\ new.stamp = sent.cloud + 1
  BY <1>1 DEF Clouds
<1>3. /\ queue \in Seq(Clouds) /\ Len(queue) <= QueueCapacity
      /\ QueueCapacity \in Nat \ {0}
      /\ queue' = Keep(Append(queue, new), QueueCapacity)
      /\ UNCHANGED <<history, frame, map, radius, topic, extension, switches>>
  BY CapacityAssumption DEF MapperInv, InOrder, cloudCallback, CapacityAssumption
<1> HIDE DEF new
<1>4. /\ queue' \in Seq(Clouds) /\ Len(queue') \in Nat /\ Len(queue') >= 1
      /\ Len(queue') <= QueueCapacity /\ queue'[Len(queue')] = new
      /\ \E off \in {0, 1} :
           \A i \in 1 .. Len(queue') - 1 : /\ i + off \in 1 .. Len(queue)
                                          /\ queue'[i] = queue[i + off]
  <2>1. new \in Clouds /\ queue \in Seq(Clouds) /\ QueueCapacity \in Nat \ {0}
        /\ Len(queue) <= QueueCapacity
    BY <1>2, <1>3
  <2>2. queue' \in Seq(Clouds) /\ Slides(queue', queue, new, QueueCapacity)
    BY <1>3, <2>1, KeepAppend
  <2>3. queue' \in Seq(Clouds) /\ Len(queue') \in Nat
    BY <2>2
  <2>4. Len(queue') \in 1 .. QueueCapacity /\ queue'[Len(queue')] = new
    BY <2>2 DEF Slides
  <2>5. \E off \in {0, 1} :
          \A i \in 1 .. Len(queue') - 1 : /\ i + off \in 1 .. Len(queue)
                                         /\ queue'[i] = queue[i + off]
    BY <2>2 DEF Slides
  <2>6. Len(queue') >= 1 /\ Len(queue') <= QueueCapacity
    BY <2>1, <2>4
  <2> QED  BY <2>3, <2>4, <2>5, <2>6
<1>5. /\ DOMAIN queue' = 1 .. Len(queue') /\ DOMAIN queue = 1 .. Len(queue)
      /\ Len(queue) \in Nat
  BY <1>3, <1>4, LenProperties
<1>6. PICK off \in {0, 1} :
        \A i \in 1 .. Len(queue') - 1 : /\ i + off \in 1 .. Len(queue)
                                       /\ queue'[i] = queue[i + off]
  BY <1>4
<1>7. /\ \A i \in DOMAIN queue' :
           \/ i = Len(queue') /\ queue'[i] = new
           \/ /\ i < Len(queue') /\ i + off \in DOMAIN queue
              /\ queue'[i] = queue[i + off]
      /\ off \in Int /\ \A i \in DOMAIN queue' : i \in Nat
  BY <1>4, <1>5, <1>6
<1>8. /\ \A i \in DOMAIN queue : /\ queue[i].stamp \in Nat
                                 /\ queue[i].stamp <= sent.cloud
      /\ \A i, j \in DOMAIN queue : i <= j => queue[i].stamp <= queue[j].stamp
  BY StampTypes DEF MapperInv, InOrder
<1>9. \A i \in DOMAIN queue' : queue'[i].stamp <= sent'.cloud
  BY <1>1, <1>2, <1>7, <1>8
<1>10. \A i, j \in DOMAIN queue' : i <= j => queue'[i].stamp <= queue'[j].stamp
  <2> SUFFICES ASSUME NEW i \in DOMAIN queue', NEW j \in DOMAIN queue', i <= j
               PROVE  queue'[i].stamp <= queue'[j].stamp
    OBVIOUS
  <2>1. CASE j = Len(queue') /\ queue'[j] = new
    BY <1>1, <1>2, <1>7, <1>8, <2>1
  <2>2. CASE /\ j < Len(queue') /\ j + off \in DOMAIN queue
             /\ queue'[j] = queue[j + off]
    <3>1. i < Len(queue')
      BY <1>4, <1>7, <2>2
    <3>2. i + off \in DOMAIN queue /\ queue'[i] = queue[i + off]
      BY <1>4, <1>7, <1>7, <3>1
    <3>3. i + off <= j + off
      BY <1>7
    <3> QED  BY <1>8, <2>2, <3>2, <3>3
  <2> QED  BY <1>7, <2>1, <2>2
<1>11. ASSUME NEW x \in Nat, x <= sent.cloud, \A i \in DOMAIN queue : x <= queue[i].stamp
       PROVE  \A i \in DOMAIN queue' : x <= queue'[i].stamp
  BY <1>1, <1>2, <1>7, <1>11
<1>12. \A f \in frame' : /\ f.stamp \in Nat /\ f.stamp <= sent'.cloud
                         /\ \A i \in DOMAIN queue' : f.stamp <= queue'[i].stamp
                         /\ frame' = {f}
  <2> TAKE f \in frame'
  <2>1. /\ f \in frame /\ frame' = frame /\ f.stamp \in Nat /\ f.stamp <= sent.cloud
        /\ frame = {f} /\ \A i \in DOMAIN queue : f.stamp <= queue[i].stamp
    BY <1>3 DEF MapperInv, InOrder
  <2> QED  BY <1>1, <1>11, <2>1
<1>13. InOrder'
  <2>1. /\ history' \in Seq([stamp : Nat, pose : Poses])
        /\ Len(history') <= HistoryCapacity
    BY <1>3 DEF MapperInv, InOrder
  <2> QED  BY <1>1, <1>4, <1>9, <1>10, <1>12, <2>1 DEF InOrder
<1>14. ASSUME NEW x \in Nat, Behind(x)
       PROVE  Behind(x)'
  BY <1>1, <1>3, <1>11, <1>14 DEF Behind
<1> QED  BY <1>3, <1>13, <1>14, InputInv DEF map, extension

LEMMA odometryInv ==
  ASSUME MapperInv, NEW pose \in Poses, odometryCallback(pose)
  PROVE  MapperInv'
<1> DEFINE new == [stamp |-> sent'.odometry, pose |-> pose]
<1>1. /\ sent' \in [cloud : 0 .. MaxStamp, odometry : Nat]
      /\ sent'.cloud = sent.cloud
  <2>1. sent \in [cloud : 0 .. MaxStamp, odometry : Nat] /\ MaxStamp \in Nat
    BY BoundAssumption DEF MapperInv, InOrder, BoundAssumption
  <2> QED  BY <2>1 DEF odometryCallback
<1>2. new \in [stamp : Nat, pose : Poses]
  BY <1>1
<1>3. /\ history' = Keep(Append(history, new), HistoryCapacity)
      /\ history \in Seq([stamp : Nat, pose : Poses]) /\ Len(history) <= HistoryCapacity
      /\ HistoryCapacity \in Nat \ {0}
      /\ UNCHANGED <<queue, frame, map, radius, topic, extension, switches>>
  BY CapacityAssumption DEF MapperInv, InOrder, odometryCallback, CapacityAssumption
<1> HIDE DEF new
<1>4. history' \in Seq([stamp : Nat, pose : Poses]) /\ Len(history') <= HistoryCapacity
  <2>1. /\ history' \in Seq([stamp : Nat, pose : Poses])
        /\ Slides(history', history, new, HistoryCapacity)
    BY <1>2, <1>3, KeepAppend
  <2> QED  BY <1>3, <2>1 DEF Slides
<1>5. InOrder'
  BY <1>1, <1>3, <1>4 DEF MapperInv, InOrder
<1>6. ASSUME NEW x \in Nat, Behind(x)
      PROVE  Behind(x)'
  BY <1>1, <1>3, <1>6 DEF Behind
<1> QED  BY <1>3, <1>5, <1>6, InputInv DEF map, extension

LEMMA WaitInv ==
  ASSUME MapperInv, WaitExpires
  PROVE  MapperInv'
<1>1. /\ queue \in Seq(Clouds) /\ queue # <<>>
      /\ queue' = [queue EXCEPT ![1].expired = TRUE]
      /\ UNCHANGED <<history, sent, frame, map, radius, topic, extension>>
  BY DEF MapperInv, InOrder, WaitExpires
<1>2. /\ 1 \in DOMAIN queue /\ queue[1] \in Clouds /\ Len(queue) \in Nat
      /\ DOMAIN queue = 1 .. Len(queue)
  BY <1>1, TailQueue, LenProperties
<1> DEFINE first == [queue[1] EXCEPT !.expired = TRUE]
<1>3. first \in Clouds /\ first.stamp = queue[1].stamp
  BY <1>2 DEF Clouds
<1>4. queue' = [queue EXCEPT ![1] = first]
  BY <1>1
<1> HIDE DEF first
<1>5. queue' \in Seq(Clouds) /\ Len(queue') = Len(queue) /\ DOMAIN queue' = DOMAIN queue
  <2>1. 1 \in 1 .. Len(queue)
    BY <1>2
  <2>2. queue' \in Seq(Clouds) /\ Len(queue') = Len(queue)
    <3> DEFINE k == [queue EXCEPT ![1] = first]
    <3>1. k \in Seq(Clouds) /\ Len(k) = Len(queue)
      <4>1. queue \in Seq(Clouds)
        BY <1>1
      <4> QED  BY <4>1, <1>3, <2>1, ExceptSeq
    <3> QED  BY <1>4, <3>1
  <2> QED  BY <1>2, <2>2, LenProperties
<1>6. \A i \in DOMAIN queue : queue'[i].stamp = queue[i].stamp
  BY <1>2, <1>3, <1>4
<1>7. InOrder'
  BY <1>1, <1>5, <1>6 DEF MapperInv, InOrder
<1>8. ASSUME NEW x \in Nat, Behind(x)
      PROVE  Behind(x)'
  BY <1>1, <1>5, <1>6, <1>8 DEF Behind
<1> QED  BY <1>1, <1>7, <1>8, InputInv DEF map, extension

\* The worker takes the head of the queue, or gives it up.
LEMMA DequeueInv ==
  ASSUME MapperInv, TakeFrame \/ DropFrame
  PROVE  MapperInv'
<1>1. /\ queue \in Seq(Clouds) /\ queue # <<>> /\ queue' = Tail(queue) /\ frame = {}
      /\ UNCHANGED <<history, sent, map, radius, topic, extension>>
      /\ \A f \in frame' : f.stamp = Head(queue).stamp /\ frame' = {f}
  <2>1. queue \in Seq(Clouds) /\ queue # <<>>
    BY DEF MapperInv, InOrder, TakeFrame, DropFrame, Matched
  <2>2. /\ queue' = Tail(queue) /\ frame = {}
        /\ UNCHANGED <<history, sent, map, radius, topic, extension>>
    BY DEF TakeFrame, DropFrame
  <2>3. \A f \in frame' : f.stamp = Head(queue).stamp /\ frame' = {f}
    BY DEF TakeFrame, DropFrame
  <2> QED  BY <2>1, <2>2, <2>3
<1>2. /\ Head(queue) = queue[1] /\ 1 \in DOMAIN queue
      /\ queue' \in Seq(Clouds) /\ Len(queue') <= Len(queue) /\ DOMAIN queue' \subseteq Nat
      /\ \A i \in DOMAIN queue' : i + 1 \in DOMAIN queue /\ queue'[i] = queue[i + 1]
  BY <1>1, TailQueue
<1>3. /\ \A i \in DOMAIN queue : queue[i].stamp <= sent.cloud /\ queue[i].stamp \in Nat
      /\ \A i, j \in DOMAIN queue : i <= j => queue[i].stamp <= queue[j].stamp
      /\ Len(queue) <= QueueCapacity
  BY StampTypes DEF MapperInv, InOrder
<1>4. \A i, j \in DOMAIN queue' : i <= j => queue'[i].stamp <= queue'[j].stamp
  <2> SUFFICES ASSUME NEW i \in DOMAIN queue', NEW j \in DOMAIN queue', i <= j
               PROVE  queue'[i].stamp <= queue'[j].stamp
    OBVIOUS
  <2>1. i + 1 <= j + 1
    BY <1>2
  <2> QED  BY <1>2, <1>3, <2>1
<1>5. \A f \in frame' : /\ f.stamp \in Nat /\ f.stamp <= sent.cloud
                        /\ \A i \in DOMAIN queue' : f.stamp <= queue'[i].stamp
                        /\ frame' = {f}
  <2> TAKE f \in frame'
  <2>1. f.stamp = queue[1].stamp /\ frame' = {f}
    BY <1>1, <1>2
  <2>2. \A i \in DOMAIN queue' : 1 <= i + 1
    BY <1>2
  <2> QED  BY <1>2, <1>3, <2>1, <2>2
<1>6. Len(queue') <= QueueCapacity
  <2>1. Len(queue) \in Nat /\ Len(queue') \in Nat /\ QueueCapacity \in Nat
    BY <1>1, <1>2, LenProperties, CapacityAssumption DEF CapacityAssumption
  <2> QED  BY <1>2, <1>3, <2>1
<1>7. InOrder'
  BY <1>1, <1>2, <1>3, <1>4, <1>5, <1>6 DEF MapperInv, InOrder
<1>8. ASSUME NEW x \in Nat, Behind(x)
      PROVE  Behind(x)'
  BY <1>1, <1>2, <1>8 DEF Behind
<1> QED  BY <1>1, <1>7, <1>8, InputInv DEF map, extension

-----------------------------------------------------------------------------
(* The map and its grids                                                     *)

\* The observations of the voxel after a cloud.
Noted(f) ==
  CASE Observation(f) # "none" -> Keep(Append(seen, Observation(f)), HitConfirmation)
    [] OTHER -> seen

\* The counted run of hits stays one of the last observations.
LEMMA CountsStep ==
  ASSUME NEW c, SoundCell(c), Counts(c, seen), NEW f, NEW d, SoundCell(d),
         d.run <= CASE Observation(f) = "hit" -> c.run + 1
                    [] Observation(f) = "free" -> 0
                    [] OTHER -> c.run
  PROVE  Counts(d, Noted(f))
<1>1. /\ seen \in Seq({"hit", "free"}) /\ Len(seen) <= HitConfirmation
      /\ HitConfirmation \in Nat \ {0} /\ c.run \in Nat /\ d.run \in 0 .. HitConfirmation
      /\ Len(seen) \in Nat /\ DOMAIN seen = 1 .. Len(seen) /\ c.run <= Len(seen)
      /\ \A i \in DOMAIN seen : Len(seen) - c.run < i => seen[i] = "hit"
  BY LogAssumption, LenProperties DEF Counts, SoundCell, LogAssumption
<1>2. CASE Observation(f) = "none"
  <2>1. Noted(f) = seen /\ d.run <= c.run
    BY <1>2 DEF Noted
  <2> QED  BY <1>1, <2>1 DEF Counts
<1>3. CASE Observation(f) # "none"
  <2> DEFINE o == Observation(f)
             k == Keep(Append(seen, o), HitConfirmation)
  <2>1. o \in {"hit", "free"} /\ Noted(f) = k
    BY <1>3 DEF Noted, Observation
  <2> HIDE DEF o
  <2>2. /\ k \in Seq({"hit", "free"}) /\ Slides(k, seen, o, HitConfirmation)
        /\ Len(k) \in 1 .. HitConfirmation /\ k[Len(k)] = o
    <3>1. k \in Seq({"hit", "free"}) /\ Slides(k, seen, o, HitConfirmation)
      BY <1>1, <2>1, KeepAppend
    <3> QED  BY <3>1 DEF Slides
  <2>3. PICK off \in {0, 1} :
          /\ Len(k) = Len(seen) + 1 - off /\ (off = 1 => Len(k) = HitConfirmation)
          /\ \A i \in 1 .. Len(k) - 1 : /\ i + off \in 1 .. Len(seen)
                                        /\ k[i] = seen[i + off]
    BY <2>2 DEF Slides
  <2> HIDE DEF k
  <2>4. DOMAIN k = 1 .. Len(k)
    BY <2>2, LenProperties
  <2>5. CASE o = "free"
    <3>1. d.run = 0
      BY <1>1, <2>5 DEF o
    <3> QED  BY <2>1, <2>2, <2>4, <3>1 DEF Counts
  <2>6. CASE o = "hit"
    <3>1. d.run <= c.run + 1
      BY <2>6 DEF o
    <3>2. d.run <= Len(k)
      BY <1>1, <2>2, <2>3, <3>1
    <3>3. ASSUME NEW i \in DOMAIN k, Len(k) - d.run < i
          PROVE  k[i] = "hit"
      <4>1. CASE i = Len(k)
        BY <2>2, <2>6, <4>1
      <4>2. CASE i # Len(k)
        <5>1. i \in 1 .. Len(k) - 1
          BY <2>2, <2>4, <4>2
        <5>2. i + off \in DOMAIN seen /\ k[i] = seen[i + off]
          BY <1>1, <2>3, <5>1
        <5>3. Len(seen) - c.run < i + off
          BY <1>1, <2>2, <2>3, <3>1, <3>3, <5>1, SMTT(30)
        <5> QED  BY <1>1, <5>2, <5>3
      <4> QED  BY <4>1, <4>2
    <3> QED  BY <2>1, <2>2, <3>2, <3>3 DEF Counts
  <2> QED  BY <2>1, <2>5, <2>6
<1> QED  BY <1>2, <1>3

\* What a grid that is published says.
LEMMA PublishGrid ==
  ASSUME Passes, NEW c, c.log \in Int, c.hard \in BOOLEAN, NEW stamp \in Nat,
         \A g \in grid : g.stamp <= stamp,
         NEW r \in {"small", "large"}, publishGrid(c, stamp, r)
  PROVE  \E h \in Grids : /\ grid' = {h} /\ topic' = {h}
                          /\ h.stamp = stamp /\ h.radius = r
                          /\ \A g \in grid : NoLater(g, h)
                          /\ h.revision = Revision + 1
<1> DEFINE h == [stamp |-> stamp, revision |-> Revision + 1, occupied |-> Occupied(c),
                 radius |-> r]
<1>1. grid' = {h} /\ topic' = {h}
  BY DEF publishGrid
<1>2. Occupied(c) \in BOOLEAN
  BY LogAssumption DEF Occupied, LogAssumption
<1>3. Revision \in Nat /\ \A g \in grid : g.revision = Revision
  <2>1. CASE grid = {}
    BY <2>1 DEF Revision
  <2>2. CASE grid # {}
    <3>1. (CHOOSE g \in grid : TRUE) \in grid
      BY <2>2
    <3>2. \A g \in grid : g = (CHOOSE k \in grid : TRUE)
      BY <3>1 DEF Passes
    <3>3. \A g \in grid : g.revision \in Nat
      BY DEF Passes, Grids
    <3> QED  BY <2>2, <3>1, <3>2, <3>3 DEF Revision
  <2> QED  BY <2>1, <2>2
<1>4. h \in Grids
  BY <1>2, <1>3 DEF Grids
<1>5. h.stamp = stamp /\ h.revision = Revision + 1 /\ h.radius = r
  OBVIOUS
<1> HIDE DEF h
<1>6. \A g \in grid : NoLater(g, h)
  BY <1>3, <1>5 DEF NoLater
<1> QED  BY <1>1, <1>4, <1>5, <1>6

\* A new grid replaces the one on the topic and comes after the one that the
\* extension has.
LEMMA GridPasses ==
  ASSUME Passes, NEW h \in Grids, grid' = {h}, topic' = {h},
         \A g \in grid : NoLater(g, h), UNCHANGED <<latest, planner>>
  PROVE  Passes'
<1>1. \A g \in latest : NoLater(g, h)
  <2> TAKE g \in latest
  <2>1. PICK k \in grid : NoLater(g, k)
    BY DEF Passes
  <2>2. g \in Grids /\ k \in Grids /\ NoLater(k, h)
    BY <2>1 DEF Passes
  <2> QED  BY <2>1, <2>2 DEF NoLater, Grids
<1>2. NoLater(h, h)
  BY DEF NoLater, Grids
<1>3. /\ grid' \subseteq Grids /\ topic' \subseteq Grids /\ latest' \subseteq Grids
      /\ \A g, k \in grid' : g = k
      /\ \A g, k \in topic' : g = k
      /\ \A g, k \in latest' : g = k
  BY DEF Passes
<1>4. /\ \A g \in topic' : \E k \in grid' : NoLater(g, k)
      /\ \A g \in latest' : \E k \in grid' : NoLater(g, k)
      /\ \A g \in latest', k \in topic' : NoLater(g, k)
  BY <1>1, <1>2
<1>5. \A q \in planner' : \E g \in latest' : q.stamp = g.stamp /\ q.revision = g.revision
  BY DEF Passes
<1> QED  BY <1>3, <1>4, <1>5 DEF Passes

\* The cloud that is processed, and what it leaves when it is one.
LEMMA FrameStep ==
  ASSUME MapperInv, NEW f \in frame
  PROVE  /\ frame = {f} /\ f.stamp \in Nat /\ cell.update <= f.stamp /\ f.stamp <= sent.cloud
         /\ \A i \in DOMAIN queue : f.stamp <= queue[i].stamp
         /\ \A g \in grid : g.stamp <= f.stamp
BY DEF MapperInv, InOrder, Behind

LEMMA processInv ==
  ASSUME MapperInv, processFrame
  PROVE  MapperInv'
<1>1. PICK f \in frame :
        /\ frame' = {}
        /\ IF "malformed" \in f.scan THEN UNCHANGED <<map, topic>>
           ELSE /\ cell' = Updated(cell, f) /\ seen' = Noted(f)
                /\ publishGrid(cell', f.stamp, radius)
        /\ UNCHANGED <<inputs, radius, extension, switches>>
  BY DEF processFrame, Noted
<1>2. UNCHANGED <<queue, history, sent, radius, enabled, latest, planner>>
  BY <1>1 DEF inputs, extension
<1>3. InOrder'
  BY <1>1, <1>2 DEF MapperInv, InOrder
<1>4. ASSUME NEW x \in Nat, Behind(x)
      PROVE  Behind(x)'
  BY <1>1, <1>2, <1>4 DEF Behind
<1>5. CASE "malformed" \in f.scan
  <2>1. UNCHANGED <<cell, seen, grid, topic>>
    BY <1>1, <1>5 DEF map
  <2> QED  BY <1>2, <1>3, <1>4, <2>1, InputInv
<1>6. CASE "malformed" \notin f.scan
  <2>1. /\ cell' = Updated(cell, f) /\ seen' = Noted(f)
        /\ publishGrid(cell', f.stamp, radius)
    BY <1>1, <1>6
  <2>2. /\ SoundCell(cell) /\ f.stamp \in Nat /\ cell.update <= f.stamp
        /\ Counts(cell, seen) /\ Passes /\ radius \in {"small", "large"}
        /\ \A g \in grid : g.stamp <= f.stamp
    BY FrameStep DEF MapperInv
  <2>3. /\ SoundCell(cell') /\ cell'.update <= f.stamp /\ Current(cell', f.stamp)
        /\ cell'.run <= CASE Observation(f) = "hit" -> cell.run + 1
                          [] Observation(f) = "free" -> 0
                          [] OTHER -> cell.run
    BY <2>1, <2>2, UpdatedStep
  <2>4. Counts(cell', seen')
    BY <2>1, <2>2, <2>3, CountsStep
  <2>5. cell'.log \in Int /\ cell'.hard \in BOOLEAN /\ cell'.update \in Nat
    BY <2>3 DEF SoundCell, LogMin
  <2>6. PICK h \in Grids : /\ grid' = {h} /\ topic' = {h} /\ h.stamp = f.stamp
                           /\ h.radius = radius /\ \A g \in grid : NoLater(g, h)
    BY <2>1, <2>2, <2>5, PublishGrid
  <2>7. Passes'
    BY <1>2, <2>2, <2>6, GridPasses
  <2>8. Behind(f.stamp)'
    BY <1>1, <1>2, FrameStep DEF Behind
  <2>9. Behind(cell.update)'
    <3>1. \A i \in DOMAIN queue : queue[i].stamp \in Nat
      BY StampTypes
    <3>2. sent.cloud \in Nat
      BY StampTypes
    <3> QED  BY <1>1, <1>2, <2>2, <2>3, <2>5, <3>1, <3>2, FrameStep DEF Behind
  <2>10. ProfileInNewestGrid'
    BY <1>2, <2>6 DEF MapperInv, ProfileInNewestGrid
  <2>11. (\A g \in grid : Behind(g.stamp) /\ Current(cell, g.stamp))'
    BY <2>3, <2>6, <2>8
  <2> QED  BY <1>2, <1>3, <2>2, <2>3, <2>4, <2>7, <2>9, <2>10, <2>11 DEF MapperInv
<1> QED  BY <1>5, <1>6

LEMMA radiusInv ==
  ASSUME MapperInv, NEW r \in {"small", "large"}, setSoftInflationRadius(r)
  PROVE  MapperInv'
<1>1. /\ radius' = r
      /\ UNCHANGED <<queue, history, sent, frame, cell, seen, enabled, latest, planner>>
      /\ IF grid = {} THEN UNCHANGED <<grid, topic>>
         ELSE \E g \in grid : publishGrid(cell, g.stamp, r)
  BY DEF setSoftInflationRadius, inputs, extension
<1>2. InOrder' /\ Behind(cell.update)' /\ Counts(cell, seen)' /\ SoundCell(cell)'
  BY <1>1 DEF MapperInv, InOrder, Behind
<1>3. CASE grid = {}
  <2>1. UNCHANGED <<grid, topic>>
    BY <1>1, <1>3
  <2> QED  BY <1>1, <1>2, <1>3, <2>1 DEF MapperInv, Passes, ProfileInNewestGrid
<1>4. CASE grid # {}
  <2>1. PICK g \in grid : publishGrid(cell, g.stamp, r)
    BY <1>1, <1>4
  <2>2. /\ Passes /\ g.stamp \in Nat /\ \A k \in grid : k = g
        /\ cell.log \in Int /\ cell.hard \in BOOLEAN
    BY <2>1 DEF MapperInv, Passes, Grids, SoundCell, LogMin
  <2>3. PICK h \in Grids : /\ grid' = {h} /\ topic' = {h} /\ h.stamp = g.stamp
                           /\ h.radius = r /\ \A k \in grid : NoLater(k, h)
    <3>1. \A k \in grid : k.stamp <= g.stamp
      BY <2>2
    <3> QED  BY <2>1, <2>2, <3>1, PublishGrid
  <2>4. Passes'
    BY <1>1, <2>2, <2>3, GridPasses
  <2>5. (\A k \in grid : Behind(k.stamp) /\ Current(cell, k.stamp))'
    <3>1. Behind(g.stamp) /\ Current(cell, g.stamp)
      BY <2>1 DEF MapperInv
    <3> QED  BY <1>1, <2>3, <3>1 DEF Behind
  <2>6. ProfileInNewestGrid'
    BY <1>1, <2>3 DEF MapperInv, ProfileInNewestGrid
  <2> QED  BY <1>1, <1>2, <2>4, <2>5, <2>6 DEF MapperInv
<1> QED  BY <1>3, <1>4

-----------------------------------------------------------------------------
(* The extension                                                             *)

\* The planner gets the grid that the extension has.
LEMMA ExtendStep ==
  ASSUME NEW g, NEW on \in BOOLEAN, Extend(g, on)
  PROVE  \A q \in planner' : /\ q.stamp = g.stamp /\ q.revision = g.revision
                             /\ q.shadow => on
BY DEF Extend

LEMMA gridInv ==
  ASSUME MapperInv, gridCallback
  PROVE  MapperInv'
<1>1. PICK g \in topic : /\ topic' = {} /\ latest' = {g} /\ Extend(g, enabled)
                         /\ UNCHANGED <<inputs, frame, map, radius, enabled, switches>>
  BY DEF gridCallback
<1>2. UNCHANGED <<queue, history, sent, frame, cell, seen, grid, radius, enabled>>
  BY <1>1 DEF inputs, map
<1>3. \A q \in planner' : /\ q.stamp = g.stamp /\ q.revision = g.revision
                          /\ q.shadow => enabled
  <2>1. enabled \in BOOLEAN
    BY DEF MapperInv
  <2> QED  BY <1>1, <2>1, ExtendStep
<1>4. Passes'
  <2>1. /\ grid' \subseteq Grids /\ topic' \subseteq Grids /\ latest' \subseteq Grids
        /\ \A k, h \in grid' : k = h
        /\ \A k, h \in topic' : k = h
        /\ \A k, h \in latest' : k = h
        /\ \A k \in topic' : \E h \in grid' : NoLater(k, h)
        /\ \A k \in latest', h \in topic' : NoLater(k, h)
    BY <1>1, <1>2 DEF MapperInv, Passes
  <2>2. \A k \in latest' : \E h \in grid' : NoLater(k, h)
    BY <1>1, <1>2 DEF MapperInv, Passes
  <2>3. \A q \in planner' : \E k \in latest' : q.stamp = k.stamp /\ q.revision = k.revision
    BY <1>1, <1>3
  <2> QED  BY <2>1, <2>2, <2>3 DEF Passes
<1>5. ProfileInNewestGrid'
  BY <1>2, <1>3 DEF MapperInv, ProfileInNewestGrid
<1>6. /\ InOrder' /\ Behind(cell.update)' /\ Counts(cell, seen)' /\ SoundCell(cell)'
      /\ (\A k \in grid : Behind(k.stamp) /\ Current(cell, k.stamp))'
  BY <1>2 DEF MapperInv, InOrder, Behind
<1> QED  BY <1>2, <1>4, <1>5, <1>6 DEF MapperInv

LEMMA extensionInv ==
  ASSUME MapperInv, NEW on \in BOOLEAN, setExtension(on)
  PROVE  MapperInv'
<1>1. /\ enabled' = on
      /\ IF latest = {} THEN UNCHANGED planner ELSE \E g \in latest : Extend(g, on)
      /\ UNCHANGED <<queue, history, sent, frame, cell, seen, grid, radius, topic, latest>>
  BY DEF setExtension, inputs, map
<1>2. \A q \in planner' : /\ \E g \in latest : q.stamp = g.stamp /\ q.revision = g.revision
                          /\ q.shadow => on
  <2>1. CASE latest = {}
    <3>1. planner' = planner /\ planner = {}
      BY <1>1, <2>1 DEF MapperInv, Passes
    <3> QED  BY <3>1
  <2>2. CASE latest # {}
    <3>1. PICK g \in latest : Extend(g, on)
      BY <1>1, <2>2
    <3> QED  BY <3>1 DEF Extend
  <2> QED  BY <2>1, <2>2
<1>3. Passes' /\ ProfileInNewestGrid'
  BY <1>1, <1>2 DEF MapperInv, Passes, ProfileInNewestGrid
<1>4. /\ InOrder' /\ Behind(cell.update)' /\ Counts(cell, seen)' /\ SoundCell(cell)'
      /\ (\A k \in grid : Behind(k.stamp) /\ Current(cell, k.stamp))'
  BY <1>1 DEF MapperInv, InOrder, Behind
<1> QED  BY <1>1, <1>3, <1>4 DEF MapperInv

-----------------------------------------------------------------------------
(* The theorems                                                              *)

LEMMA InitInv ==
  ASSUME Init
  PROVE  MapperInv
<1>1. MaxStamp \in Nat /\ QueueCapacity \in Nat \ {0} /\ HistoryCapacity \in Nat \ {0}
      /\ HitConfirmation \in Nat \ {0}
  BY BoundAssumption, CapacityAssumption, LogAssumption
     DEF BoundAssumption, CapacityAssumption, LogAssumption
<1>2. sent \in [cloud : 0 .. MaxStamp, odometry : Nat] /\ sent.cloud = 0
  BY <1>1 DEF Init
<1>3. queue = <<>> /\ history = <<>> /\ frame = {} /\ seen = <<>> /\ Len(<<>>) = 0
  BY DEF Init
<1>4. /\ <<>> \in Seq(Clouds) /\ <<>> \in Seq([stamp : Nat, pose : Poses])
      /\ <<>> \in Seq({"hit", "free"}) /\ DOMAIN <<>> = {}
  OBVIOUS
<1>5. InOrder
  BY <1>1, <1>2, <1>3, <1>4 DEF InOrder
<1>6. SoundCell(cell) /\ Behind(cell.update) /\ Counts(cell, seen)
  BY <1>1, <1>2, <1>3, <1>4, NewCellSound DEF Init, Behind, Counts
<1>7. /\ grid = {} /\ topic = {} /\ latest = {} /\ planner = {}
      /\ radius \in {"small", "large"} /\ enabled \in BOOLEAN
  BY DEF Init
<1> QED  BY <1>5, <1>6, <1>7 DEF MapperInv, Passes, ProfileInNewestGrid

\* The invariant survives every step.
LEMMA NextInv ==
  ASSUME MapperInv, [Next]_vars
  PROVE  MapperInv'
<1>1. ASSUME NEW scan \in Scans, cloudCallback(scan)
      PROVE  MapperInv'
  BY <1>1, cloudInv
<1>2. ASSUME NEW pose \in Poses, odometryCallback(pose)
      PROVE  MapperInv'
  BY <1>2, odometryInv
<1>3. CASE WaitExpires
  BY <1>3, WaitInv
<1>4. CASE TakeFrame \/ DropFrame
  BY <1>4, DequeueInv
<1>5. CASE processFrame
  BY <1>5, processInv
<1>6. ASSUME NEW r \in {"small", "large"}, setSoftInflationRadius(r)
      PROVE  MapperInv'
  BY <1>6, radiusInv
<1>7. CASE gridCallback
  BY <1>7, gridInv
<1>8. ASSUME NEW on \in BOOLEAN, setExtension(on)
      PROVE  MapperInv'
  BY <1>8, extensionInv
<1>9. CASE UNCHANGED vars
  BY <1>9 DEF vars, inputs, map, extension, MapperInv, InOrder, Behind, Passes,
              ProfileInNewestGrid
<1> QED  BY <1>1, <1>2, <1>3, <1>4, <1>5, <1>6, <1>7, <1>8, <1>9 DEF Next

\* The inductive invariant holds of every state.
THEOREM MapperInvariant == Spec => []MapperInv
<1>1. Init => MapperInv
  BY InitInv
<1>2. MapperInv /\ [Next]_vars => MapperInv'
  BY NextInv
<1> QED  BY <1>1, <1>2, PTL DEF Spec

\* MapperSafe: the voxel keeps the ranges that clamping and confirmation promise,
\* its clock is never ahead of the newest cloud, the queues are bounded, and the
\* newest grids are of the profiles that were confirmed (both parametersCallback).
THEOREM MapperCorrect == Spec => []MapperSafe
<1>1. MapperInv => MapperSafe
  <2> SUFFICES ASSUME MapperInv
               PROVE  MapperSafe
    OBVIOUS
  <2>1. /\ SoundCell(cell) /\ cell.update <= sent.cloud /\ ProfileInNewestGrid
        /\ Len(queue) <= QueueCapacity /\ Len(history) <= HistoryCapacity
        /\ sent.cloud \in Nat /\ sent.cloud <= MaxStamp /\ MaxStamp \in Nat
    BY StampTypes, BoundAssumption DEF MapperInv, InOrder, Behind, BoundAssumption
  <2>2. cell \in CellType /\ cell.hit <= cell.update
    <3>1. cell.hit <= cell.update /\ cell.hit \in Nat /\ cell.update \in Nat
      BY <2>1 DEF SoundCell
    <3>2. cell.hit \in 0 .. MaxStamp /\ cell.update \in 0 .. MaxStamp
      BY <2>1, <3>1
    <3> QED  BY <2>1, <3>1, <3>2 DEF SoundCell, CellType
  <2>3. cell.hard => Occupied(cell)
    BY <2>1 DEF SoundCell, Occupied
  <2> QED  BY <2>1, <2>2, <2>3 DEF MapperSafe, VoxelTypeOK
<1> QED  BY <1>1, MapperInvariant, PTL

\* MapsInOrder: both nodes number and stamp their grids in order, though either
\* publishes an old grid again when its parameters change.
THEOREM OrderCorrect == Spec => MapsInOrder
<1> DEFINE Ordered ==
      /\ \A g \in grid, h \in grid' : g.stamp <= h.stamp /\ g.revision <= h.revision
      /\ \A g \in planner, h \in planner' : g.stamp <= h.stamp /\ g.revision <= h.revision
<1>1. MapperInv /\ [Next]_vars => [Ordered]_vars
  <2> SUFFICES ASSUME MapperInv, Next
               PROVE  Ordered
    BY DEF Ordered
  <2>1. /\ Passes /\ \A g, h \in grid : g = h
        /\ \A g \in grid : g.stamp \in Nat /\ g.revision \in Nat
    BY StampTypes DEF MapperInv, Passes
  <2>2. \A g, h \in planner : /\ g.stamp = h.stamp /\ g.revision = h.revision
                              /\ h.stamp \in Nat /\ h.revision \in Nat
    BY <2>1 DEF Passes, Grids
  <2>3. CASE UNCHANGED <<grid, planner>>
    BY <2>1, <2>2, <2>3 DEF Ordered
  <2>4. CASE processFrame
    <3>1. PICK f \in frame :
            /\ UNCHANGED <<grid, topic>> \/ publishGrid(cell', f.stamp, radius)
            /\ cell' = cell \/ cell' = Updated(cell, f)
            /\ UNCHANGED planner
      BY <2>4 DEF processFrame, map, extension
    <3>2. CASE UNCHANGED grid
      BY <2>1, <2>2, <3>1, <3>2 DEF Ordered
    <3>3. CASE publishGrid(cell', f.stamp, radius)
      <4>1. SoundCell(cell')
        BY <3>1, FrameStep, UpdatedStep DEF MapperInv
      <4>2. cell'.log \in Int /\ cell'.hard \in BOOLEAN
        BY <4>1 DEF SoundCell, LogMin
      <4>3. PICK h : grid' = {h} /\ \A g \in grid : NoLater(g, h)
        BY <2>1, <3>3, <4>2, FrameStep, PublishGrid DEF MapperInv
      <4> QED  BY <2>2, <3>1, <4>3 DEF Ordered, NoLater
    <3> QED  BY <3>1, <3>2, <3>3
  <2>5. ASSUME NEW r \in {"small", "large"}, setSoftInflationRadius(r)
        PROVE  Ordered
    <3>1. CASE grid = {}
      BY <2>2, <2>5, <3>1 DEF Ordered, setSoftInflationRadius, extension
    <3>2. CASE grid # {}
      <4>1. PICK g \in grid : publishGrid(cell, g.stamp, r)
        BY <2>5, <3>2 DEF setSoftInflationRadius
      <4>2. /\ cell.log \in Int /\ cell.hard \in BOOLEAN /\ g.stamp \in Nat
            /\ \A k \in grid : k.stamp <= g.stamp
        BY <2>1, <4>1 DEF MapperInv, SoundCell, LogMin
      <4>3. PICK h : grid' = {h} /\ \A k \in grid : NoLater(k, h)
        BY <2>1, <4>1, <4>2, PublishGrid
      <4>4. UNCHANGED planner
        BY <2>5 DEF setSoftInflationRadius, extension
      <4> QED  BY <2>2, <4>3, <4>4 DEF Ordered, NoLater
    <3> QED  BY <3>1, <3>2
  <2>6. CASE gridCallback
    <3>1. PICK g \in topic : Extend(g, enabled) /\ UNCHANGED grid
      BY <2>6 DEF gridCallback, map
    <3>2. \A q \in planner' : q.stamp = g.stamp /\ q.revision = g.revision
      BY <3>1 DEF Extend
    <3>3. \A q \in planner : q.stamp <= g.stamp /\ q.revision <= g.revision
      BY <2>1, <3>1 DEF Passes, NoLater
    <3> QED  BY <2>1, <3>1, <3>2, <3>3 DEF Ordered
  <2>7. ASSUME NEW on \in BOOLEAN, setExtension(on)
        PROVE  Ordered
    <3>1. CASE latest = {}
      BY <2>1, <2>2, <2>7, <3>1 DEF Ordered, setExtension, map
    <3>2. CASE latest # {}
      <4>1. PICK g \in latest : Extend(g, on)
        BY <2>7, <3>2 DEF setExtension
      <4>2. \A q \in planner' : q.stamp = g.stamp /\ q.revision = g.revision
        BY <4>1 DEF Extend
      <4>3. \A q \in planner : q.stamp = g.stamp /\ q.revision = g.revision
        BY <2>1, <4>1 DEF Passes
      <4>4. g.stamp \in Nat /\ g.revision \in Nat
        BY <2>1, <4>1 DEF Passes, Grids
      <4>5. UNCHANGED grid
        BY <2>7 DEF setExtension, map
      <4> QED  BY <2>1, <4>2, <4>3, <4>4, <4>5 DEF Ordered
    <3> QED  BY <3>1, <3>2
  <2>8. \/ UNCHANGED <<grid, planner>> \/ processFrame \/ gridCallback
        \/ \E r \in {"small", "large"} : setSoftInflationRadius(r)
        \/ \E on \in BOOLEAN : setExtension(on)
    BY DEF Next, cloudCallback, odometryCallback, WaitExpires, TakeFrame, DropFrame,
           map, extension
  <2> QED  BY <2>3, <2>4, <2>5, <2>6, <2>7, <2>8
<1> QED  BY <1>1, MapperInvariant, PTL DEF Spec, MapsInOrder

\* The voxel changes only when the worker processes a cloud.
LEMMA OnlyFrames ==
  ASSUME [Next]_vars, cell' # cell
  PROVE  \E f \in frame : /\ processFrame /\ cell' = Updated(cell, f) /\ seen' = Noted(f)
BY DEF Next, vars, cloudCallback, odometryCallback, WaitExpires, TakeFrame, DropFrame,
       processFrame, Noted, setSoftInflationRadius, gridCallback, setExtension, map

\* ConfirmedByHits: an obstacle enters the map only when hit_confirmation_count
\* observations in a row have hit it (update of the rolling voxel map).
THEOREM ConfirmationCorrect == Spec => ConfirmedByHits
<1> DEFINE Row == ~ Occupied(cell) /\ Occupied(cell') =>
                    seen' = [i \in 1 .. HitConfirmation |-> "hit"]
<1>1. MapperInv /\ MapperInv' /\ [Next]_vars => Row
  <2> SUFFICES ASSUME MapperInv, MapperInv', [Next]_vars,
                      ~ Occupied(cell), Occupied(cell')
               PROVE  seen' = [i \in 1 .. HitConfirmation |-> "hit"]
    OBVIOUS
  <2>1. cell' # cell
    OBVIOUS
  <2>2. PICK f \in frame : cell' = Updated(cell, f)
    BY <2>1, OnlyFrames
  <2>3. SoundCell(cell) /\ f.stamp \in Nat /\ cell.update <= f.stamp
    BY FrameStep DEF MapperInv
  <2>4. cell'.hard /\ ~ cell.hard
    BY <2>3 DEF SoundCell, Occupied
  <2>5. cell'.run = HitConfirmation
    BY <2>2, <2>3, <2>4, UpdatedStep
  <2>6. /\ seen' \in Seq({"hit", "free"}) /\ Len(seen') <= HitConfirmation
        /\ cell'.run <= Len(seen') /\ HitConfirmation \in Nat
        /\ \A i \in DOMAIN seen' : Len(seen') - cell'.run < i => seen'[i] = "hit"
    BY LogAssumption DEF MapperInv, Counts, LogAssumption
  <2>7. Len(seen') \in Nat /\ DOMAIN seen' = 1 .. Len(seen')
    BY <2>6, LenProperties
  <2>8. Len(seen') = HitConfirmation
    <3> DEFINE n == Len(seen')
    <3>1. HitConfirmation <= n
      BY <2>5, <2>6
    <3>2. n <= HitConfirmation /\ n \in Nat /\ HitConfirmation \in Nat
      BY <2>6, <2>7
    <3> HIDE DEF n
    <3>3. n = HitConfirmation
      BY <3>1, <3>2
    <3> QED  BY <3>3 DEF n
  <2>9. \A i \in 1 .. HitConfirmation : seen'[i] = "hit"
    BY <2>5, <2>6, <2>7, <2>8
  <2>10. seen' = [i \in DOMAIN seen' |-> seen'[i]]
    <3>1. PICK n \in Nat : seen' \in [1 .. n -> {"hit", "free"}]
      BY <2>6, SeqDef
    <3> QED  BY <3>1
  <2> QED  BY <2>7, <2>8, <2>9, <2>10
<1> QED  BY <1>1, MapperInvariant, PTL DEF Spec, ConfirmedByHits

\* NoSuddenForgetting: one cloud takes from a voxel beside the robot no more than a
\* miss and the decay of the time since the grid before, with the time decay waits
\* (comment in update): a wall that was kept behind the robot survives the turn.
THEOREM ForgettingCorrect == Spec => NoSuddenForgetting
<1> DEFINE Slow == \A f \in frame, g \in grid :
       processFrame /\ f.pose \in {"front", "behind"} =>
         cell.log - cell'.log <= LogMiss + DecayRate * (DecayStart + f.stamp - g.stamp)
<1>1. MapperInv /\ [Next]_vars => Slow
  <2> SUFFICES ASSUME MapperInv, NEW f \in frame, NEW g \in grid,
                      processFrame, f.pose \in {"front", "behind"}
               PROVE  cell.log - cell'.log
                        <= LogMiss + DecayRate * (DecayStart + f.stamp - g.stamp)
    OBVIOUS
  <2>1. /\ SoundCell(cell) /\ f.stamp \in Nat /\ cell.update <= f.stamp /\ frame = {f}
        /\ g.stamp \in Nat /\ g.stamp <= f.stamp /\ Current(cell, g.stamp)
    BY FrameStep, StampTypes DEF MapperInv
  <2>2. cell' = cell \/ cell' = Updated(cell, f)
    BY <2>1 DEF processFrame, map
  <2>3. CASE cell' = Updated(cell, f)
    BY <2>1, <2>3, UpdatedLoss
  <2>4. CASE cell' = cell
    <3> DEFINE most == DecayRate * (DecayStart + f.stamp - g.stamp)
    <3>1. /\ DecayRate \in Nat /\ DecayStart + f.stamp - g.stamp \in Nat
          /\ LogMiss \in Nat /\ cell.log \in Int
      BY <2>1, LogAssumption DEF LogAssumption, SoundCell, LogMin
    <3>2. most \in Nat
      BY <3>1
    <3> HIDE DEF most
    <3>3. cell.log - cell'.log <= LogMiss + most
      BY <2>4, <3>1, <3>2
    <3> QED  BY <3>3 DEF most
  <2> QED  BY <2>2, <2>3, <2>4
<1> QED  BY <1>1, MapperInvariant, PTL DEF Spec, NoSuddenForgetting

\* EvidenceIsGradual: both of them.
THEOREM EvidenceCorrect == Spec => EvidenceIsGradual
BY ConfirmationCorrect, ForgettingCorrect DEF EvidenceIsGradual

-----------------------------------------------------------------------------
(***************************************************************************)
(* What a callback holds while it validates is still true of the path it   *)
(* took, if that path is still the current one: the map is the newest,     *)
(* because maps arrive on the same thread; the id belongs to the same way, *)
(* because a commit takes another id; an invalid path stays invalid, and   *)
(* overdue, until it is cleared or replaced.                               *)
(***************************************************************************)
Ids == current.id \in PathIds /\ callback.id \in PathIds

JudgesCurrent ==
  callback.step = "validate" =>
    /\ callback.map = latest_map_
    /\ current.way # NoWay /\ current.id = callback.id =>
         /\ current.way = callback.way
         /\ ~ callback.valid => ~ current.valid /\ (callback.overdue => current.overdue)

Flags == {callback.valid, callback.overdue, current.valid, current.overdue} \subseteq BOOLEAN

Records ==
  /\ current \in [way : {current.way}, id : {current.id},
                  generation : {current.generation},
                  valid : {current.valid}, overdue : {current.overdue}]
  /\ callback \in [step : {callback.step}, map : {callback.map}, way : {callback.way},
                   id : {callback.id}, valid : {callback.valid},
                   overdue : {callback.overdue}]

JudgeInv == Ids /\ Flags /\ Records /\ JudgesCurrent
-----------------------------------------------------------------------------
(* The ids *)

\* There are three ids, and two are in use at most.
LEMMA FreshId ==
  ASSUME Ids
  PROVE  /\ NewPathId \in PathIds /\ NewPathId # current.id /\ NewPathId # callback.id
<1>1. \E id \in PathIds : id # current.id /\ id # callback.id
  BY DEF Ids, PathIds
<1> QED  BY <1>1 DEF NewPathId

\* What the planner may do with the path while a callback validates it: nothing,
\* forget it, put another with a new id in its place, or let its time pass.
Kept(new) ==
  \/ new = current
  \/ new.way = NoWay
  \/ new.id # callback.id
  \/ new = [current EXCEPT !.overdue = TRUE] /\ current.way # NoWay /\ ~ current.valid

WellFormed(c) ==
  /\ c \in [way : {c.way}, id : PathIds, generation : {c.generation},
            valid : BOOLEAN, overdue : BOOLEAN]

\* All the worker does to the path is one of these.
LEMMA WorkerKeeps ==
  ASSUME JudgeInv, Worker \/ GraceElapses
  PROVE  Kept(current') /\ WellFormed(current') /\ UNCHANGED <<callback, latest_map_>>
<1>1. /\ current \in [way : {current.way}, id : {current.id},
                      generation : {current.generation},
                      valid : {current.valid}, overdue : {current.overdue}]
      /\ current.id \in PathIds
      /\ current.valid \in BOOLEAN /\ current.overdue \in BOOLEAN
  BY DEF JudgeInv, Ids, Flags, Records
<1>2. CASE current' = current
  <2>1. WellFormed(current')
    BY <1>1, <1>2 DEF WellFormed
  <2>2. UNCHANGED <<callback, latest_map_>>
    BY DEF Worker, CaptureInputs, NoGuide, WrongPathLevel, SearchCancelled, SearchEnds,
           CheckOnNewest, SearchFailed, OptimizationFailed, CommitPath, PublishPath,
           WorkerPublishesEmpty, GraceElapses, shared
  <2> QED  BY <1>2, <2>1, <2>2 DEF Kept
<1>3. CASE current' = Cleared
  <2>1. WellFormed(current') /\ current'.way = NoWay
    BY <1>1, <1>3 DEF WellFormed, Cleared
  <2>2. UNCHANGED <<callback, latest_map_>>
    BY DEF Worker, CaptureInputs, NoGuide, WrongPathLevel, SearchCancelled, SearchEnds,
           CheckOnNewest, SearchFailed, OptimizationFailed, CommitPath, PublishPath,
           WorkerPublishesEmpty, GraceElapses, shared
  <2> QED  BY <2>1, <2>2 DEF Kept
<1>4. CASE current' = [Cleared EXCEPT !.valid = FALSE]
  <2>1. WellFormed(current') /\ current'.way = NoWay
    BY <1>1, <1>4 DEF WellFormed, Cleared
  <2>2. UNCHANGED <<callback, latest_map_>>
    BY DEF Worker, CaptureInputs, NoGuide, WrongPathLevel, SearchCancelled, SearchEnds,
           CheckOnNewest, SearchFailed, OptimizationFailed, CommitPath, PublishPath,
           WorkerPublishesEmpty, GraceElapses, shared
  <2> QED  BY <2>1, <2>2 DEF Kept
<1>5. CASE CommitPath
  <2>1. /\ current'.way = worker.way /\ current'.id = NewPathId
        /\ current' \in [way : {worker.way}, id : {NewPathId},
                         generation : {worker.generation}, valid : {TRUE},
                         overdue : {FALSE}]
    BY <1>5 DEF CommitPath
  <2>2. NewPathId \in PathIds /\ NewPathId # callback.id
    BY FreshId DEF JudgeInv
  <2> QED  BY <1>5, <2>1, <2>2 DEF Kept, WellFormed, CommitPath, shared
<1>6. CASE GraceElapses
  BY <1>1, <1>6 DEF GraceElapses, Kept, WellFormed, shared
<1> QED
  BY <1>2, <1>3, <1>4, <1>5, <1>6
     DEF Worker, CaptureInputs, NoGuide, WrongPathLevel, SearchCancelled, SearchEnds,
         CheckOnNewest, SearchFailed, OptimizationFailed, PublishPath, WorkerPublishesEmpty
\* The callback thread between two callbacks, or with an empty path to publish.
Rests(c) == c = Idle \/ c = [Idle EXCEPT !.step = "publish_empty"]

LEMMA RestsRecord ==
  ASSUME NEW c, Rests(c)
  PROVE  /\ c \in [step : {c.step}, map : {c.map}, way : {c.way}, id : {c.id},
                   valid : {c.valid}, overdue : {c.overdue}]
         /\ c.id \in PathIds /\ c.valid = FALSE /\ c.overdue = FALSE
         /\ c.step # "validate"
BY DEF Rests, Idle, PathIds

\* A callback that ends, whatever it did to the path, leaves nothing to be judged.
LEMMA RestsKeeps ==
  ASSUME WellFormed(current'), Rests(callback')
  PROVE  JudgeInv'
BY RestsRecord DEF JudgeInv, Ids, Flags, Records, JudgesCurrent, WellFormed

LEMMA PathRecord ==
  ASSUME JudgeInv
  PROVE  WellFormed(current)
BY DEF JudgeInv, Ids, Flags, Records, WellFormed

\* What a change of the path leaves of what is being judged.
LEMMA KeptKeeps ==
  ASSUME JudgeInv, Kept(current'), WellFormed(current'), UNCHANGED <<callback, latest_map_>>
  PROVE  JudgeInv'
<1>1. Ids' /\ Flags' /\ Records'
  BY DEF JudgeInv, Ids, Flags, Records, WellFormed
<1>2. JudgesCurrent'
  <2>1. CASE current' = current
    BY <2>1 DEF JudgeInv, JudgesCurrent
  <2>2. CASE current'.way = NoWay \/ current'.id # callback.id
    BY <2>2 DEF JudgeInv, JudgesCurrent
  <2>3. CASE current' = [current EXCEPT !.overdue = TRUE] /\ current.way # NoWay
    <3>1. /\ current'.way = current.way /\ current'.id = current.id
          /\ current'.valid = current.valid /\ current'.overdue = TRUE
      BY <2>3, PathRecord DEF WellFormed
    <3> QED  BY <2>3, <3>1 DEF JudgeInv, JudgesCurrent
  <2> QED  BY <2>1, <2>2, <2>3 DEF Kept
<1> QED  BY <1>1, <1>2 DEF JudgeInv

-----------------------------------------------------------------------------
(* The callbacks *)

LEMMA MapKeeps ==
  ASSUME JudgeInv, NEW new, MapCallback(new)
  PROVE  JudgeInv'
<1>1. UNCHANGED current /\ latest_map_' = new /\ WellFormed(current)
  BY PathRecord DEF MapCallback
<1>2. CASE current.way = NoWay
  BY <1>1, <1>2, RestsKeeps DEF MapCallback, Rests
<1>3. CASE current.way # NoWay
  <2>1. callback' = [step |-> "validate", map |-> new, way |-> current.way,
                     id |-> current.id, valid |-> current.valid,
                     overdue |-> current.overdue]
    BY <1>3 DEF MapCallback
  <2>2. Records' /\ Ids' /\ Flags'
    BY <1>1, <2>1 DEF Records, Ids, Flags, WellFormed
  <2>3. JudgesCurrent'
    BY <1>1, <2>1 DEF JudgesCurrent
  <2> QED  BY <2>2, <2>3 DEF JudgeInv
<1> QED  BY <1>2, <1>3

\* The three ways in which a callback changes the path.
LEMMA ChangedRecord ==
  ASSUME NEW c, WellFormed(c)
  PROVE  /\ WellFormed([c EXCEPT !.valid = FALSE, !.overdue = FALSE])
         /\ WellFormed([c EXCEPT !.way = NoWay, !.overdue = FALSE])
         /\ WellFormed([c EXCEPT !.way = NoWay, !.overdue = FALSE, !.valid = FALSE])
         /\ WellFormed([c EXCEPT !.way = NoWay, !.overdue = FALSE, !.valid = FALSE,
                                 !.generation = 0])
BY DEF WellFormed

LEMMA ExecutorKeeps ==
  ASSUME JudgeInv, Executor \/ Operator
  PROVE  JudgeInv'
<1> DEFINE cut == [current EXCEPT !.valid = FALSE, !.overdue = FALSE]
           emptied == [Cleared EXCEPT !.valid = FALSE]
           removed == [Cleared EXCEPT !.valid = FALSE, !.generation = 0]
<1>1. WellFormed(current) /\ WellFormed(cut) /\ WellFormed(Cleared)
      /\ WellFormed(emptied) /\ WellFormed(removed)
  <2>1. WellFormed(current)
    BY PathRecord
  <2>2. /\ current \in [way : {current.way}, id : PathIds, generation : {current.generation},
            valid : BOOLEAN, overdue : BOOLEAN]
    BY <2>1 DEF WellFormed
  <2> QED  BY <2>1, <2>2, ChangedRecord DEF Cleared, WellFormed
<1> HIDE DEF cut, emptied, removed
<1>2. CASE \E path \in {"short", "route"} : PathCallback(path)
  <2>1. PICK path \in {"short", "route"} : PathCallback(path)
    BY <1>2
  <2>2. UNCHANGED <<callback, latest_map_>> /\ callback.step = "idle"
        /\ (current' = current \/ current' = cut)
    BY <2>1 DEF PathCallback, cut
  <2>3. Ids' /\ Flags' /\ Records' /\ JudgesCurrent'
    BY <1>1, <2>2 DEF JudgeInv, Ids, Flags, Records, JudgesCurrent, WellFormed
  <2> QED  BY <2>3 DEF JudgeInv
<1>3. CASE Invalidate \/ AwaitReplacement \/ StillValid \/ CallbackPublishesEmpty
  <2>1. Rests(callback') /\ current' \in {current, cut, Cleared}
    BY <1>3 DEF Invalidate, AwaitReplacement, StillValid, CallbackPublishesEmpty, Rests,
                shared, cut
  <2> QED  BY <1>1, <2>1, RestsKeeps
<1>4. CASE EmptyPathCallback \/ ParametersCallback
  <2>1. Rests(callback') /\ current' \in {emptied, removed}
    BY <1>4 DEF EmptyPathCallback, ParametersCallback, Rests, emptied, removed
  <2> QED  BY <1>1, <2>1, RestsKeeps
<1> QED  BY <1>2, <1>3, <1>4 DEF Executor, Operator

LEMMA JudgeInit == LocalInit => JudgeInv
<1> SUFFICES ASSUME LocalInit PROVE JudgeInv
  OBVIOUS
<1>1. Rests(callback) /\ current = [way |-> NoWay, id |-> 0, generation |-> 0,
                                    valid |-> FALSE, overdue |-> FALSE]
  BY DEF LocalInit, Rests
<1>2. Records /\ Ids /\ Flags /\ JudgesCurrent
  <2>1. WellFormed(current)
    BY <1>1 DEF WellFormed, PathIds
  <2>2. Ids /\ Flags /\ Records
    BY <1>1, <2>1, RestsRecord DEF Ids, Flags, Records, WellFormed
  <2> QED  BY <1>1, <2>2, RestsRecord DEF JudgesCurrent
<1> QED  BY <1>2 DEF JudgeInv

LEMMA JudgeNext == JudgeInv /\ [LocalNext]_localVars => JudgeInv'
<1> SUFFICES ASSUME JudgeInv, [LocalNext]_localVars PROVE JudgeInv'
  OBVIOUS
<1>1. CASE MapArrives
  BY <1>1, MapKeeps DEF MapArrives
<1>2. CASE Executor \/ Operator
  BY <1>2, ExecutorKeeps
<1>3. CASE Worker \/ GraceElapses
  BY <1>3, WorkerKeeps, KeptKeeps
<1>4. CASE UNCHANGED <<current, callback, latest_map_>>
  BY <1>4, PathRecord, KeptKeeps DEF Kept
<1> QED
  BY <1>1, <1>2, <1>3, <1>4
     DEF LocalNext, localVars, shared, node, OdomCallback, FollowerPathCallback,
         FollowerOdometryCallback, ControlLoop, PathExpires, OdometryExpires

\* The inductive invariant: what a callback judges is the current path and the
\* newest map, however the worker commits, clears and publishes meanwhile.
THEOREM JudgeInvariant == LocalSpec => []JudgeInv
BY JudgeInit, JudgeNext, PTL DEF LocalSpec

\* JudgedOnItsMap: a path is declared invalid only if the newest map blocks it,
\* and cleared by a callback only after it has been invalid for the grace period
\* (mapCallback, the comparison with path_id_to_validate).
THEOREM JudgementCorrect == LocalSpec => JudgedOnItsMap
<1> DEFINE Judged ==
      callback.step = "validate" /\ callback'.step # "validate" /\ current.way # NoWay =>
        /\ current.valid /\ ~current'.valid => current.way \in latest_map_
        /\ current'.way = NoWay => ~current.valid /\ current.overdue
<1>1. JudgeInv /\ [LocalNext]_localVars => Judged
  <2> SUFFICES ASSUME JudgeInv, [LocalNext]_localVars, callback.step = "validate",
                      callback'.step # "validate", current.way # NoWay
               PROVE  /\ current.valid /\ ~current'.valid => current.way \in latest_map_
                      /\ current'.way = NoWay => ~current.valid /\ current.overdue
    OBVIOUS
  <2>1. WellFormed(current) /\ callback.map = latest_map_
        /\ (current.id = callback.id =>
              /\ current.way = callback.way
              /\ ~ callback.valid => ~ current.valid /\ (callback.overdue => current.overdue))
    BY PathRecord DEF JudgeInv, JudgesCurrent
  <2>2. CASE Invalidate
    <3>1. CASE current.id = callback.id /\ current.valid
      <4>1. current' = [current EXCEPT !.valid = FALSE, !.overdue = FALSE]
        BY <2>2, <3>1 DEF Invalidate
      <4>2. current'.way = current.way
        BY <2>1, <4>1 DEF WellFormed
      <4> QED  BY <2>1, <2>2, <3>1, <4>2 DEF Invalidate
    <3>2. CASE ~ (current.id = callback.id /\ current.valid)
      BY <2>2, <3>2 DEF Invalidate
    <3> QED  BY <3>1, <3>2
  <2>3. CASE AwaitReplacement
    BY <2>1, <2>3 DEF AwaitReplacement
  <2>4. CASE StillValid
    BY <2>4 DEF StillValid
  <2>5. \/ Invalidate \/ AwaitReplacement \/ StillValid
    <3>1. CASE Worker \/ GraceElapses
      BY <3>1, WorkerKeeps
    <3>2. CASE MapArrives \/ Operator
      BY <3>2 DEF MapArrives, MapCallback, Operator, EmptyPathCallback, PathCallback,
                  ParametersCallback
    <3>3. CASE UNCHANGED callback
      BY <3>3
    <3>4. CASE Executor
      BY <3>4 DEF Executor, CallbackPublishesEmpty
    <3> QED
      BY <3>1, <3>2, <3>3, <3>4
         DEF LocalNext, localVars, node, OdomCallback, FollowerPathCallback,
             FollowerOdometryCallback, ControlLoop, PathExpires, OdometryExpires
  <2> QED  BY <2>2, <2>3, <2>4, <2>5
<1> QED  BY <1>1, JudgeInvariant, PTL DEF LocalSpec, JudgedOnItsMap

-----------------------------------------------------------------------------
(* The tracker: arcs, and the least and the greatest of a set of numbers *)

LEMMA SmallestOf ==
  ASSUME NEW S \in SUBSET Nat, S # {}
  PROVE  Min(S) \in S /\ \A k \in S : Min(S) <= k
<1>1. IsWellFoundedOn(OpToRel(<, Nat), Nat)
  BY NatLessThanWellFounded
<1>2. PICK m \in S : \A k \in S : ~ (<<k, m>> \in OpToRel(<, Nat))
  BY <1>1, WFMin
<1>3. \A k \in S : ~ (k < m)
  BY <1>2 DEF OpToRel
<1>4. \A k \in S : m =< k
  BY <1>3
<1> QED
  BY <1>4 DEF Min

LEMMA LargestOf ==
  ASSUME NEW B \in Nat, NEW S \in SUBSET (0..B), S # {}
  PROVE  Max(S) \in S /\ \A k \in S : k <= Max(S)
<1> DEFINE below == {B - k : k \in S}
<1>1. below \in SUBSET Nat /\ below # {}
  <2>1. \A k \in S : B - k \in Nat
    OBVIOUS
  <2> QED
    BY <2>1
<1>2. PICK m \in below : \A k \in below : m <= k
  BY <1>1, SmallestOf
<1>3. PICK x \in S : m = B - x
  BY <1>2
<1>4. \A k \in S : x >= k
  <2>1. \A k \in S : m <= B - k
    BY <1>2
  <2> QED
    BY <1>3, <2>1
<1> QED
  BY <1>4 DEF Max

LEMMA PlacesOf ==
  ASSUME NEW S, NEW q \in Seq(S)
  PROVE  Len(q) \in Nat /\ DOMAIN q = 1..Len(q) /\ \A k \in 1..Len(q) : q[k] \in S
OBVIOUS

LEMMA ApartIs ==
  ASSUME NEW p \in Int \X Int, NEW q \in Int \X Int
  PROVE  Apart(p, q) \in Int /\ Apart(p, q) >= 0
<1>1. \A x \in Int : Wide(x) \in Int /\ Wide(x) >= 0
  BY DEF Wide
<1>2. q[1] - p[1] \in Int /\ q[2] - p[2] \in Int
  OBVIOUS
<1>3. Apart(p, q) = Wide(q[1] - p[1]) + Wide(q[2] - p[2])
  BY DEF Apart
<1> QED
  BY <1>1, <1>2, <1>3

\* The arc grows along a route: the first point with a smaller one would be
\* preceded by such a point.
LEMMA ArcsGrow ==
  ASSUME NEW t, IsTask(t), NEW i \in DOMAIN t.points, NEW j \in DOMAIN t.points, i <= j
  PROVE  t.arc[i] <= t.arc[j]
<1> DEFINE n == Len(t.points)
<1>1. n \in Nat /\ DOMAIN t.points = 1..n /\ t.arc \in [1..n -> Nat]
  <2>1. t.points \in Seq(Int \X Int) /\ t.arc \in [DOMAIN t.points -> Nat]
    BY DEF IsTask
  <2>2. n \in Nat /\ DOMAIN t.points = 1..n
    BY <2>1, PlacesOf
  <2> QED
    BY <2>1, <2>2
<1>2. ASSUME NEW k \in 1..(n - 1)
      PROVE  t.arc[k] <= t.arc[k + 1]
  <2>1. t.points[k] \in Int \X Int /\ t.points[k + 1] \in Int \X Int
    <3>1. t.points \in Seq(Int \X Int)
      BY DEF IsTask
    <3>2. n \in Nat
      BY <1>1
    <3>3. k \in 1..n /\ k + 1 \in 1..n
      BY <3>2
    <3>4. \A l \in 1..n : t.points[l] \in Int \X Int
      BY <3>1, PlacesOf
    <3> QED
      BY <3>3, <3>4
  <2>2. Apart(t.points[k], t.points[k + 1]) \in Int /\ Apart(t.points[k], t.points[k + 1]) >= 0
    BY <2>1, ApartIs
  <2>3. t.arc[k + 1] = t.arc[k] + Apart(t.points[k], t.points[k + 1])
    BY DEF IsTask, Stretches
  <2>4. t.arc[k] \in Nat
    BY <1>1
  <2> QED
    BY <2>2, <2>3, <2>4
<1> DEFINE wrong == {k \in i..n : t.arc[k] < t.arc[i]}
<1>3. SUFFICES ASSUME wrong # {} PROVE FALSE
  <2>1. j \in i..n /\ t.arc[j] \in Nat /\ t.arc[i] \in Nat
    BY <1>1
  <2> QED
    BY <2>1
<1>4. wrong \in SUBSET Nat
  BY <1>1
<1>5. Min(wrong) \in wrong /\ \A k \in wrong : Min(wrong) <= k
  BY <1>3, <1>4, SmallestOf
<1> DEFINE m == Min(wrong)
<1> HIDE DEF m
<1>6. m \in i..n /\ t.arc[m] < t.arc[i] /\ \A k \in wrong : m <= k
  BY <1>5 DEF m
<1>7. m # i /\ m - 1 \in i..n /\ m - 1 \in 1..(n - 1) /\ m \in Nat
  BY <1>1, <1>6
<1>8. m - 1 \notin wrong
  BY <1>6, <1>7
<1>9. t.arc[m - 1] <= t.arc[m]
  BY <1>2, <1>7
<1>10. t.arc[m - 1] \in Nat /\ t.arc[m] \in Nat /\ t.arc[i] \in Nat
  BY <1>1, <1>6, <1>7, SMTT(30)
<1> QED
  BY <1>6, <1>7, <1>8, <1>9, <1>10

LEMMA GateAfterIs ==
  ASSUME NEW t, IsTask(t)
  PROVE  /\ GateAfter(t, 1) \in t.gates \cup {Len(t.points)}
         /\ \A g \in t.gates : GateAfter(t, 1) <= g
<1>1. Len(t.points) \in Nat /\ t.gates \subseteq 2..(Len(t.points) - 1)
  BY DEF IsTask
<1> DEFINE S == {g \in t.gates : g > 1} \cup {Len(t.points)}
<1>2. S \in SUBSET Nat /\ S # {} /\ t.gates \subseteq S
  BY <1>1
<1>3. Min(S) \in S /\ \A k \in S : Min(S) <= k
  BY <1>2, SmallestOf
<1> QED
  BY <1>2, <1>3 DEF GateAfter

-----------------------------------------------------------------------------
(* The inductive invariant: the gates before the open one have been entered, *)
(* and the progress is not beyond the open one                               *)

TrackTypes ==
  /\ track \in Tracks /\ number \in 1..Len(track.tasks)
  /\ robot \in Int \X Int /\ heading \in Headings
  /\ progress_m_ \in Nat /\ active_segment_ \in Nat \ {0}
  /\ gate_index_ \in task_.gates \cup {Ends}

GatesEntered == \A g \in task_.gates : g < gate_index_ => g \in entered
ProgressHeld == progress_m_ <= ArcAt(gate_index_)
AdjustsAtTheEnd == adjusting_ => progress_m_ >= Total - FinishWindow

TrackInv == TrackTypes /\ GatesEntered /\ ProgressHeld /\ AdjustsAtTheEnd

LEMMA TaskIs ==
  ASSUME track \in Tracks, number \in 1..Len(track.tasks)
  PROVE  /\ IsTask(task_) /\ Ends \in Nat \ {0} /\ DOMAIN task_.points = 1..Ends
         /\ task_.gates \subseteq 2..(Ends - 1)
         /\ \A k \in 1..Ends : ArcAt(k) \in Nat /\ task_.points[k] \in Int \X Int
         /\ \A i, j \in 1..Ends : i <= j => ArcAt(i) <= ArcAt(j)
         /\ FinishWindow \in Nat /\ Total \in Nat
<1>1. IsTask(task_)
  BY TrackerAssumption DEF task_
<1>2. Ends \in Nat \ {0} /\ DOMAIN task_.points = 1..Ends /\ task_.gates \subseteq 2..(Ends - 1)
  BY <1>1 DEF IsTask, Ends
<1>3. \A k \in 1..Ends : ArcAt(k) \in Nat /\ task_.points[k] \in Int \X Int
  BY <1>1, <1>2, SMTT(30) DEF IsTask, ArcAt
<1>4. \A i, j \in 1..Ends : i <= j => ArcAt(i) <= ArcAt(j)
  BY <1>1, <1>2, ArcsGrow DEF ArcAt
<1>5. FinishWindow \in Nat /\ Total \in Nat
  BY <1>1, <1>2, <1>3, TrackerAssumption DEF IsTask, FinishWindow, Larger, Total
<1> QED
  BY <1>1, <1>2, <1>3, <1>4, <1>5

\* The point of a stretch that is nearest to the robot lies on the stretch.
LEMMA AlongIs ==
  ASSUME TrackTypes, NEW k \in 1..(Ends - 1)
  PROVE  Along(k) \in Nat /\ ArcAt(k) + Along(k) <= ArcAt(k + 1)
<1>1. /\ Ends \in Nat \ {0} /\ k \in 1..Ends /\ k + 1 \in 1..Ends /\ k <= k + 1
  BY TaskIs DEF TrackTypes
<1>2. /\ ArcAt(k) \in Nat /\ ArcAt(k + 1) \in Nat /\ ArcAt(k) <= ArcAt(k + 1)
      /\ task_.points[k] \in Int \X Int /\ task_.points[k + 1] \in Int \X Int
  BY <1>1, TaskIs DEF TrackTypes
<1>3. LengthOf(k) \in Nat /\ ArcAt(k) + LengthOf(k) = ArcAt(k + 1)
  BY <1>2 DEF LengthOf
<1> DEFINE d == Minus(robot, task_.points[k])
<1>4. d \in Int \X Int
  BY <1>2, SMTT(30) DEF TrackTypes, Minus
<1>5. Tangent(k) \in Int \X Int
  BY <1>2 DEF Tangent, Minus, Bounded
<1> HIDE DEF d
<1>6. Dot(d, Tangent(k)) \in Int
  BY <1>4, <1>5 DEF Dot
<1>7. Along(k) = Bounded(Dot(d, Tangent(k)), 0, LengthOf(k))
  BY DEF Along, d
<1>8. Along(k) \in Nat /\ Along(k) <= LengthOf(k)
  BY <1>3, <1>6, <1>7 DEF Bounded
<1> QED
  BY <1>2, <1>3, <1>8

LEMMA OpenGateIs ==
  ASSUME TrackTypes
  PROVE  /\ OpenGate \in task_.gates \cup {Ends} /\ gate_index_ <= OpenGate
         /\ OpenGate \in 1..Ends /\ gate_index_ \in 1..Ends
         /\ \A g \in task_.gates : gate_index_ <= g /\ g < OpenGate => Inside(g)
<1> DEFINE S == {g \in task_.gates : g >= gate_index_ /\ ~Inside(g)} \cup {Ends}
<1>1. Ends \in Nat \ {0} /\ task_.gates \subseteq 2..(Ends - 1)
  BY TaskIs DEF TrackTypes
<1>2. gate_index_ \in 1..Ends
  BY <1>1 DEF TrackTypes
<1>3. S \in SUBSET Nat /\ S # {}
  BY <1>1
<1>4. OpenGate \in S /\ \A k \in S : OpenGate <= k
  BY <1>3, SmallestOf DEF OpenGate
<1>5. \A k \in S : k \in 1..Ends /\ gate_index_ <= k
  BY <1>1, <1>2
<1>6. ASSUME NEW g \in task_.gates, gate_index_ <= g, g < OpenGate
      PROVE  Inside(g)
  <2>1. g \in Nat /\ OpenGate \in Nat
    BY <1>1, <1>3, <1>4
  <2>2. g \notin S
    BY <1>4, <1>6, <2>1
  <2> QED
    BY <1>1, <1>2, <1>6, <2>1, <2>2
<1> QED
  BY <1>2, <1>4, <1>5, <1>6

LEMMA GateProgressIs ==
  ASSUME TrackTypes, ProgressHeld
  PROVE  GateProgress \in Nat /\ progress_m_ <= GateProgress /\ GateProgress <= ArcAt(OpenGate)
<1>1. /\ Ends \in Nat \ {0} /\ task_.gates \subseteq 2..(Ends - 1)
      /\ \A k \in 1..Ends : ArcAt(k) \in Nat
      /\ \A i, j \in 1..Ends : i <= j => ArcAt(i) <= ArcAt(j)
  BY TaskIs DEF TrackTypes
<1>2. OpenGate \in 1..Ends /\ gate_index_ \in 1..Ends /\ gate_index_ <= OpenGate
  BY OpenGateIs
<1>3. ArcAt(OpenGate) \in Nat /\ progress_m_ \in 0..ArcAt(OpenGate)
  <2>1. ArcAt(gate_index_) <= ArcAt(OpenGate) /\ ArcAt(gate_index_) \in Nat
    BY <1>1, <1>2
  <2> QED
    BY <1>1, <1>2, <2>1 DEF TrackTypes, ProgressHeld
<1> DEFINE S == {progress_m_} \cup {ArcAt(g) : g \in PassedGates}
<1>4. ASSUME NEW g \in PassedGates
      PROVE  ArcAt(g) \in 0..ArcAt(OpenGate)
  <2>1. g \in 1..Ends /\ g <= OpenGate
    BY <1>1, <1>2 DEF PassedGates
  <2> QED
    BY <1>1, <1>2, <1>3, <2>1
<1>5. S \in SUBSET (0..ArcAt(OpenGate)) /\ S # {} /\ progress_m_ \in S
  BY <1>3, <1>4
<1>6. Max(S) \in S /\ \A k \in S : k <= Max(S)
  BY <1>3, <1>5, LargestOf
<1>7. GateProgress = Max(S)
  BY DEF GateProgress
<1>8. Max(S) \in 0..ArcAt(OpenGate) /\ progress_m_ <= Max(S)
  BY <1>5, <1>6
<1> QED
  BY <1>3, <1>7, <1>8

\* What every tick does first, in whatever branch of update it ends.
LEMMA UpdateStep ==
  ASSUME TrackInv, UpdateProgress, Enter
  PROVE  /\ progress_m_' \in Nat /\ progress_m_ <= progress_m_'
         /\ active_segment_' \in Nat \ {0}
         /\ gate_index_' \in task_.gates \cup {Ends} /\ gate_index_' \in 1..Ends
         /\ progress_m_' <= ArcAt(gate_index_')
         /\ \A g \in task_.gates : g < gate_index_' => g \in entered'
<1>1. TrackTypes /\ ProgressHeld /\ GatesEntered
  BY DEF TrackInv
<1>2. /\ Ends \in Nat \ {0} /\ task_.gates \subseteq 2..(Ends - 1)
      /\ \A k \in 1..Ends : ArcAt(k) \in Nat
      /\ \A i, j \in 1..Ends : i <= j => ArcAt(i) <= ArcAt(j)
  BY <1>1, TaskIs DEF TrackTypes
<1>3. /\ gate_index_' = OpenGate /\ OpenGate \in task_.gates \cup {Ends}
      /\ OpenGate \in 1..Ends /\ gate_index_ \in 1..Ends
      /\ \A g \in task_.gates : gate_index_ <= g /\ g < OpenGate => Inside(g)
  BY <1>1, OpenGateIs DEF UpdateProgress
<1>4. GateProgress \in Nat /\ progress_m_ <= GateProgress /\ GateProgress <= ArcAt(OpenGate)
  BY <1>1, GateProgressIs
<1>5. /\ progress_m_' \in Nat /\ GateProgress <= progress_m_'
      /\ progress_m_' <= ArcAt(OpenGate) /\ active_segment_' \in Nat \ {0}
  <2>1. CASE progress_m_' = GateProgress /\ UNCHANGED active_segment_
    BY <1>1, <1>2, <1>3, <1>4, <2>1 DEF TrackTypes
  <2>2. ASSUME NEW best \in Candidates,
               progress_m_' = Larger(GateProgress, best[3]), active_segment_' = best[2]
        PROVE  /\ progress_m_' \in Nat /\ GateProgress <= progress_m_'
               /\ progress_m_' <= ArcAt(OpenGate) /\ active_segment_' \in Nat \ {0}
    <3>1. PICK k \in Ahead : best = <<Offset(k), k, ArcAt(k) + Along(k)>>
      BY DEF Candidates
    <3>2. k \in 1..(Ends - 1) /\ k \in 1..Ends /\ k + 1 \in 1..Ends /\ k + 1 <= OpenGate
      <4>1. k \in Larger(active_segment_ - 1, 1)..(OpenGate - 1)
        BY DEF Ahead, Searched
      <4>2. Larger(active_segment_ - 1, 1) \in Nat /\ 1 <= Larger(active_segment_ - 1, 1)
        BY <1>1 DEF Larger, TrackTypes
      <4> QED
        BY <1>2, <1>3, <4>1, <4>2
    <3>3. Along(k) \in Nat /\ ArcAt(k) + Along(k) <= ArcAt(k + 1)
      BY <1>1, <3>2, AlongIs
    <3>4. /\ ArcAt(k + 1) <= ArcAt(OpenGate) /\ ArcAt(k) \in Nat /\ ArcAt(k + 1) \in Nat
          /\ ArcAt(OpenGate) \in Nat
      BY <1>2, <1>3, <3>2
    <3>5. active_segment_' = k /\ progress_m_' = Larger(GateProgress, ArcAt(k) + Along(k))
      BY <2>2, <3>1
    <3> QED
      BY <1>4, <3>2, <3>3, <3>4, <3>5 DEF Larger
  <2>3. \/ progress_m_' = GateProgress /\ UNCHANGED active_segment_
        \/ \E best \in Candidates :
             progress_m_' = Larger(GateProgress, best[3]) /\ active_segment_' = best[2]
    BY DEF UpdateProgress
  <2> QED
    BY <2>1, <2>2, <2>3
<1>6. ASSUME NEW g \in task_.gates, g < OpenGate
      PROVE  g \in entered'
  <2>1. ASSUME NEW h \in task_.gates, h < OpenGate
        PROVE  h \in entered \cup {l \in task_.gates : Inside(l)}
    <3>1. h \in Nat /\ gate_index_ \in Nat
      BY <1>2, <1>3
    <3>2. CASE h < gate_index_
      BY <1>1, <3>2 DEF GatesEntered
    <3>3. CASE gate_index_ <= h
      BY <1>3, <2>1, <3>3
    <3> QED
      BY <3>1, <3>2, <3>3
  <2>2. \A h \in task_.gates : h < g => h < OpenGate
    BY <1>2, <1>3, <1>6
  <2>3. g \in entered \/ g \in {l \in task_.gates : Inside(l)}
    BY <1>6, <2>1
  <2> QED
    BY <2>1, <2>2, <2>3 DEF Enter
<1> QED
  BY <1>1, <1>3, <1>4, <1>5, <1>6 DEF TrackTypes

LEMMA TickKeeps ==
  ASSUME TrackInv, UpdateProgress, Enter, UNCHANGED <<track, number>>,
         robot' \in Int \X Int, heading' \in Headings, adjusting_' => Adjusts
  PROVE  TrackInv'
<1>1. TrackTypes /\ AdjustsAtTheEnd
  BY DEF TrackInv
<1>2. task_' = task_ /\ Ends' = Ends /\ Total' = Total /\ FinishWindow' = FinishWindow
      /\ \A k : ArcAt(k)' = ArcAt(k)
  BY DEF task_, Ends, Total, FinishWindow, ArcAt, Larger
<1>3. /\ progress_m_' \in Nat /\ progress_m_ <= progress_m_'
      /\ active_segment_' \in Nat \ {0}
      /\ gate_index_' \in task_.gates \cup {Ends} /\ gate_index_' \in 1..Ends
      /\ progress_m_' <= ArcAt(gate_index_')
      /\ \A g \in task_.gates : g < gate_index_' => g \in entered'
  BY UpdateStep
<1>4. TrackTypes'
  BY <1>1, <1>2, <1>3 DEF TrackTypes
<1>5. GatesEntered'
  BY <1>2, <1>3 DEF GatesEntered
<1>6. ProgressHeld'
  BY <1>2, <1>3 DEF ProgressHeld, ArcAt
<1>7. AdjustsAtTheEnd'
  <2>1. Total \in Nat /\ FinishWindow \in Nat /\ progress_m_ \in Nat
    BY <1>1, TaskIs DEF TrackTypes
  <2>2. adjusting_' => progress_m_' >= Total - FinishWindow
    BY <1>1, <1>3, <2>1 DEF AdjustsAtTheEnd, Adjusts
  <2> QED
    BY <1>2, <2>2 DEF AdjustsAtTheEnd
<1> QED
  BY <1>4, <1>5, <1>6, <1>7 DEF TrackInv

\* One step of the robot, sideways or ahead, ends at a place.
LEMMA PlacesAdd ==
  \A p \in Int \X Int : \A h \in Headings : /\ Plus(p, h) \in Int \X Int
                                               /\ Plus(p, Forward(h)) \in Int \X Int
<1>1. \A h \in Headings : h \in Int \X Int /\ Forward(h) \in Int \X Int
  BY DEF Headings, Forward, Times
<1> QED
  BY <1>1 DEF Plus

LEMMA SetTaskKeeps ==
  ASSUME TrackInv, setTask
  PROVE  TrackInv'
<1> DEFINE t == track.tasks[number + 1]
<1>1. /\ track' = track /\ number' = number + 1 /\ number' \in 1..Len(track.tasks)
      /\ track \in Tracks /\ robot' \in Int \X Int /\ heading' \in Headings
  <2>1. /\ track \in Tracks /\ number \in 1..Len(track.tasks)
        /\ robot \in Int \X Int /\ heading \in Headings
    BY DEF TrackInv, TrackTypes
  <2>2. Len(track.tasks) \in Nat
    BY <2>1, TrackerAssumption
  <2> QED
    BY <2>1, <2>2 DEF setTask
<1>2. task_' = t /\ IsTask(t) /\ Ends' = Len(t.points) /\ (ArcAt(gate_index_))' = t.arc[gate_index_']
  BY <1>1, TrackerAssumption DEF task_, Ends, ArcAt
<1>3. /\ gate_index_' \in t.gates \cup {Len(t.points)}
      /\ \A g \in t.gates : gate_index_' <= g
  BY <1>2, GateAfterIs DEF setTask
<1>4. progress_m_' = 0 /\ active_segment_' = 1 /\ adjusting_' = FALSE
  BY DEF setTask
<1>5. Len(t.points) \in Nat \ {0} /\ t.gates \subseteq 2..(Len(t.points) - 1)
      /\ gate_index_' \in 1..Len(t.points) /\ t.arc[gate_index_'] \in Nat
  <2>1. /\ t.points \in Seq(Int \X Int) /\ Len(t.points) > 0
        /\ t.arc \in [DOMAIN t.points -> Nat] /\ t.gates \subseteq 2..(Len(t.points) - 1)
    BY <1>2 DEF IsTask
  <2>2. Len(t.points) \in Nat \ {0} /\ DOMAIN t.points = 1..Len(t.points)
    BY <2>1, PlacesOf
  <2>3. gate_index_' \in 1..Len(t.points)
    BY <1>3, <2>1, <2>2, SMTT(30)
  <2> QED
    BY <2>1, <2>2, <2>3
<1> HIDE DEF t
<1>6. TrackTypes'
  BY <1>1, <1>2, <1>3, <1>4 DEF TrackTypes
<1>7. GatesEntered'
  <2>1. \A g \in t.gates : ~ (g < gate_index_')
    BY <1>3, <1>5
  <2> QED
    BY <1>2, <2>1 DEF GatesEntered
<1>8. ProgressHeld'
  BY <1>2, <1>4, <1>5 DEF ProgressHeld
<1>9. AdjustsAtTheEnd'
  BY <1>4 DEF AdjustsAtTheEnd
<1> QED
  BY <1>6, <1>7, <1>8, <1>9 DEF TrackInv

LEMMA SlipKeeps ==
  ASSUME TrackInv, Slip
  PROVE  TrackInv'
<1>1. robot' \in Int \X Int
  BY PlacesAdd DEF Slip, TrackInv, TrackTypes
<1>2. /\ track' = track /\ number' = number /\ progress_m_' = progress_m_
      /\ active_segment_' = active_segment_ /\ gate_index_' = gate_index_
      /\ adjusting_' = adjusting_ /\ entered' = entered /\ heading' = heading
  BY DEF Slip
<1> QED
  BY <1>1, <1>2 DEF TrackInv, TrackTypes, GatesEntered, ProgressHeld, AdjustsAtTheEnd,
                    task_, Ends, Total, FinishWindow, ArcAt, Larger

LEMMA TrackStep ==
  ASSUME TrackInv, [TrackerNext]_trackerVars
  PROVE  TrackInv'
<1>1. robot \in Int \X Int /\ heading \in Headings
  BY DEF TrackInv, TrackTypes
<1>2. CASE TrackRoute
  <2>1. /\ UpdateProgress /\ Enter /\ UNCHANGED <<track, number>>
        /\ adjusting_' = adjusting_
    BY <1>2 DEF TrackRoute
  <2>2. /\ robot' = robot \/ robot' = Plus(robot, Forward(heading))
        /\ heading' = heading \/ heading' \in Headings
    BY <1>2 DEF TrackRoute
  <2> QED
    BY <1>1, <2>1, <2>2, TickKeeps, PlacesAdd DEF Adjusts
<1>3. CASE Adjust
  <2>1. /\ UpdateProgress /\ Enter /\ UNCHANGED <<track, number>> /\ Adjusts
        /\ robot' = robot \/ \E h \in Headings : robot' = Plus(robot, h)
        /\ heading' = heading \/ heading' \in Headings
    BY <1>3 DEF Adjust
  <2> QED
    BY <1>1, <2>1, TickKeeps, PlacesAdd
<1>4. CASE Arrive
  BY <1>1, <1>4, TickKeeps DEF Arrive
<1>5. CASE setTask
  BY <1>5, SetTaskKeeps
<1>6. CASE Slip
  BY <1>6, SlipKeeps
<1>7. CASE UNCHANGED trackerVars
  BY <1>7 DEF trackerVars, TrackInv, TrackTypes, GatesEntered, ProgressHeld, AdjustsAtTheEnd,
              task_, Ends, Total, FinishWindow, ArcAt, Larger
<1> QED
  BY <1>2, <1>3, <1>4, <1>5, <1>6, <1>7 DEF TrackerNext, Tick

LEMMA TrackStarts == TrackerInit => TrackInv
<1> SUFFICES ASSUME TrackerInit PROVE TrackInv
  OBVIOUS
<1>1. /\ track \in Tracks /\ number \in 1..Len(track.tasks) /\ Len(track.tasks) \in Nat
      /\ robot \in Int \X Int /\ heading \in Headings
  BY TrackerAssumption DEF TrackerInit
<1>2. IsTask(task_)
  BY <1>1, TaskIs
<1>3. /\ gate_index_ \in task_.gates \cup {Ends}
      /\ \A g \in task_.gates : gate_index_ <= g
  BY <1>2, GateAfterIs DEF TrackerInit, Ends
<1>4. /\ Ends \in Nat \ {0} /\ task_.gates \subseteq 2..(Ends - 1)
      /\ \A k \in 1..Ends : ArcAt(k) \in Nat
  BY <1>1, TaskIs
<1>5. gate_index_ \in 1..Ends
  BY <1>3, <1>4
<1>6. progress_m_ = 0 /\ active_segment_ = 1 /\ adjusting_ = FALSE
  BY DEF TrackerInit
<1>7. TrackTypes
  BY <1>1, <1>3, <1>6 DEF TrackTypes
<1>8. GatesEntered
  <2>1. \A g \in task_.gates : ~ (g < gate_index_)
    BY <1>3, <1>4, <1>5
  <2> QED
    BY <2>1 DEF GatesEntered
<1>9. ProgressHeld
  BY <1>4, <1>5, <1>6 DEF ProgressHeld
<1> QED
  BY <1>6, <1>7, <1>8, <1>9 DEF TrackInv, AdjustsAtTheEnd

\* A gate before the end of the route lies behind the progress, so before the
\* open gate, when the adjustment may begin.
LEMMA NoCornerCutStep ==
  ASSUME TrackInv, [TrackerNext]_trackerVars, reached' /\ ~reached
  PROVE  \A g \in task_.gates : ArcAt(g) < Total - FinishWindow => g \in entered'
<1>1. UpdateProgress /\ Enter /\ Adjusts
  BY DEF TrackerNext, Tick, TrackRoute, Adjust, Arrive, setTask, Slip, trackerVars
<1>2. /\ progress_m_' \in Nat /\ progress_m_ <= progress_m_'
      /\ gate_index_' \in 1..Ends /\ progress_m_' <= ArcAt(gate_index_')
      /\ \A g \in task_.gates : g < gate_index_' => g \in entered'
  BY <1>1, UpdateStep
<1>3. /\ Ends \in Nat \ {0} /\ task_.gates \subseteq 2..(Ends - 1)
      /\ \A k \in 1..Ends : ArcAt(k) \in Nat
      /\ \A i, j \in 1..Ends : i <= j => ArcAt(i) <= ArcAt(j)
      /\ Total \in Nat /\ FinishWindow \in Nat /\ progress_m_ \in Nat
  BY TaskIs DEF TrackInv, TrackTypes
<1>4. progress_m_' >= Total - FinishWindow
  BY <1>1, <1>2, <1>3 DEF Adjusts, TrackInv, AdjustsAtTheEnd
<1> SUFFICES ASSUME NEW g \in task_.gates, ArcAt(g) < Total - FinishWindow
             PROVE  g \in entered'
  OBVIOUS
<1>5. g \in 1..Ends /\ g \in Nat /\ gate_index_' \in Nat
  BY <1>2, <1>3
<1>6. g < gate_index_'
  <2>1. ArcAt(g) \in Nat /\ ArcAt(gate_index_') \in Nat
    BY <1>2, <1>3, <1>5
  <2>2. ~ (gate_index_' <= g)
    <3>1. ASSUME gate_index_' <= g
          PROVE  ArcAt(gate_index_') <= ArcAt(g)
      BY <1>2, <1>3, <1>5, <3>1
    <3> QED
      BY <1>2, <1>3, <1>4, <2>1, <3>1
  <2> QED
    BY <1>5, <2>2
<1> QED
  BY <1>2, <1>6

(* A task is never finished before the robot has been inside the circle of   *)
(* every mandatory corner, in the order of the route, up to the finish       *)
(* window: for every route, every place the robot may be pushed to and every *)
(* value of the tolerances.                                                  *)
THEOREM CornersAreEntered == TrackerSpec => NoCornerIsCut
<1>1. TrackInv /\ [TrackerNext]_trackerVars =>
        [reached' /\ ~reached =>
           \A g \in task_.gates : ArcAt(g) < Total - FinishWindow => g \in entered']_trackerVars
  BY NoCornerCutStep
<1>2. TrackerInit => TrackInv
  BY TrackStarts
<1>3. TrackInv /\ [TrackerNext]_trackerVars => TrackInv'
  BY TrackStep
<1> QED
  BY <1>1, <1>2, <1>3, PTL DEF TrackerSpec, NoCornerIsCut

-----------------------------------------------------------------------------
(***************************************************************************)
(* The benchmarks.                                                         *)
(***************************************************************************)

\* The circle node.  It is active only with a locked circle that it may drive.
CircleTypes ==
  /\ setup \in CircleSetups
  /\ path_ready_ \in BOOLEAN /\ circle_safe_ \in BOOLEAN
  /\ auto_arm_pending_ \in BOOLEAN /\ active_ \in BOOLEAN /\ completed_ \in BOOLEAN
  /\ up \in BOOLEAN /\ overdue \in BOOLEAN /\ unwritten \in BOOLEAN
  /\ latest_odometry_ \in Odometries \cup {NoOdometry}
  /\ previous_angle_ \in Angles \cup {NaN}
  /\ center \in Places \cup {NoPlace}
  /\ error_samples_ \in Nat /\ accumulated_progress_ \in Nat
  /\ turned \in Int /\ lowest \in Int

MayDriveTheCircle ==
  path_ready_ = TRUE /\ (setup.clearance => circle_safe_ \/ setup.unsafe)

CircleInv ==
  /\ CircleTypes
  /\ path_ready_ = (center # NoPlace)
  /\ reference_path = center
  /\ active_ => MayDriveTheCircle
  /\ CircleSafe

LEMMA DeltaInt ==
  ASSUME NEW a \in Angles, NEW b \in Angles
  PROVE  directedAngularDelta(a, b) \in Int
BY CircleAssumption DEF Angles, directedAngularDelta

LEMMA OdometryFields ==
  ASSUME NEW o \in Odometries
  PROVE  o.angle \in Angles \cup {NaN}
BY CircleAssumption DEF Odometries, Angles

LEMMA WriteStep ==
  ASSUME NEW status, NEW reason, NEW samples, NEW progress,
         writeMetrics(status, reason, samples, progress)
  PROVE  /\ unwritten' \in BOOLEAN
         /\ metrics' = metrics \/ (/\ metrics'.status = status
                                   /\ metrics'.samples = samples
                                   /\ metrics'.progress = progress)
         /\ ~unwritten' => /\ metrics'.status = status
                           /\ metrics'.samples = samples
                           /\ metrics'.progress = progress
         /\ metrics'.status = metrics.status \/ metrics'.status = status
<1>. DEFINE written == [status |-> status, reason |-> reason, samples |-> samples,
                        progress |-> progress]
<1>1. written.status = status /\ written.samples = samples /\ written.progress = progress
  OBVIOUS
<1>2. (metrics' = written /\ unwritten' = FALSE) \/ (metrics' = metrics /\ unwritten' = TRUE)
  BY DEF writeMetrics
<1>. HIDE DEF written
<1>. QED
  BY <1>1, <1>2

LEMMA CircleStarts == CircleInit => CircleInv
<1>. SUFFICES ASSUME CircleInit PROVE CircleInv
  OBVIOUS
<1>1. setup.from_odometry \in BOOLEAN /\ setup.enable_motion \in BOOLEAN
  BY CircleAssumption DEF CircleInit
<1>2. circle_safe_ \in BOOLEAN
  BY DEF CircleInit, MaybeSafe
<1>3. CircleTypes
  <2>1. /\ path_ready_ \in BOOLEAN /\ auto_arm_pending_ \in BOOLEAN
        /\ center \in Places \cup {NoPlace}
    BY <1>1 DEF CircleInit
  <2>2. /\ accumulated_progress_ \in Nat /\ error_samples_ \in Nat
        /\ turned \in Int /\ lowest \in Int
    BY DEF CircleInit
  <2>3. /\ active_ \in BOOLEAN /\ completed_ \in BOOLEAN /\ up \in BOOLEAN
        /\ overdue \in BOOLEAN /\ unwritten \in BOOLEAN /\ setup \in CircleSetups
    BY DEF CircleInit
  <2>4. latest_odometry_ = NoOdometry /\ previous_angle_ = NaN
    BY DEF CircleInit
  <2>. QED
    BY <1>2, <2>1, <2>2, <2>3, <2>4 DEF CircleTypes
<1>4. path_ready_ = (center # NoPlace)
  BY <1>1, CircleAssumption DEF CircleInit
<1>5. CircleSafe
  BY DEF CircleInit, CircleSafe, PathIsTheRuns, LapIsDriven, MetricsTellTheLap, NoMetrics
<1>. QED
  BY <1>3, <1>4, <1>5 DEF CircleInv, CircleInit

LEMMA DisarmKeeps ==
  ASSUME CircleInv, Disarm
  PROVE  CircleInv'
<1>1. CircleTypes' /\ (path_ready_ = (center # NoPlace))' /\ (reference_path = center)'
  BY WriteStep DEF CircleInv, CircleTypes, Disarm, stop, circle, run3
<1>2. (active_ => MayDriveTheCircle)'
  BY DEF Disarm, stop
<1>3. PathIsTheRuns'
  BY DEF Disarm, stop, PathIsTheRuns
<1>4. LapIsDriven'
  BY DEF CircleInv, CircleSafe, LapIsDriven, Disarm, stop, circle, run3
<1>5. MetricsTellTheLap'
  <2>1. CASE active_
    <3>1. ~completed_
      BY <2>1 DEF CircleInv, CircleSafe, LapIsDriven
    <3>2. /\ ~unwritten' => /\ metrics'.status = "stopped"
                            /\ metrics'.samples = error_samples_
                            /\ metrics'.progress = accumulated_progress_
          /\ metrics'.status = metrics.status \/ metrics'.status = "stopped"
      BY <2>1, WriteStep DEF Disarm, stop
    <3>. QED
      BY <3>1, <3>2 DEF CircleInv, CircleSafe, MetricsTellTheLap, Disarm, run3
  <2>2. CASE ~active_
    BY <2>2 DEF CircleInv, CircleSafe, MetricsTellTheLap, Disarm, stop, run3
  <2>. QED
    BY <2>1, <2>2
<1>. QED
  BY <1>1, <1>2, <1>3, <1>4, <1>5 DEF CircleInv, CircleSafe

LEMMA ArmKeeps ==
  ASSUME CircleInv, Arm
  PROVE  CircleInv'
<1>1. /\ up = TRUE /\ ~active_ /\ ~completed_ /\ MayDriveTheCircle
      /\ latest_odometry_ \in Odometries
  BY DEF CircleInv, CircleTypes, Arm, MayArm, startCheck, MayDriveTheCircle
<1>2. CircleTypes'
  <2>1. previous_angle_' \in Angles \cup {NaN}
    BY <1>1, OdometryFields DEF Arm
  <2>2. /\ auto_arm_pending_' = FALSE /\ active_' = TRUE /\ overdue' = FALSE
        /\ accumulated_progress_' = 0 /\ turned' = 0 /\ lowest' = 0
    BY DEF Arm
  <2>4. auto_arm_pending_' \in BOOLEAN /\ active_' \in BOOLEAN /\ overdue' \in BOOLEAN
    BY <2>2
  <2>5. accumulated_progress_' \in Nat /\ turned' \in Int /\ lowest' \in Int
    BY <2>2
  <2>3. UNCHANGED <<circle, error_samples_, completed_, latest_odometry_, up, metrics, unwritten>>
    BY DEF Arm
  <2>. QED
    BY <2>1, <2>3, <2>4, <2>5 DEF CircleInv, CircleTypes, circle
<1>3. PathIsTheRuns' /\ (active_ => MayDriveTheCircle)'
  BY <1>1, <1>2 DEF CircleInv, Arm, circle, PathIsTheRuns, MayDriveTheCircle, CircleTypes
<1>4. LapIsDriven' /\ MetricsTellTheLap'
  BY <1>1 DEF CircleInv, CircleSafe, Arm, LapIsDriven, MetricsTellTheLap
<1>. QED
  BY <1>2, <1>3, <1>4 DEF CircleInv, CircleSafe, Arm, circle

LEMMA CircleTimerKeeps ==
  ASSUME CircleInv, timerCallback
  PROVE  CircleInv'
<1>1. CASE active_ /\ overdue
  <2>1. ~completed_ /\ stop("max_duration_timeout")
    BY <1>1 DEF CircleInv, CircleSafe, LapIsDriven, timerCallback
  <2>2. /\ ~unwritten' => /\ metrics'.status = "stopped"
                          /\ metrics'.samples = error_samples_
                          /\ metrics'.progress = accumulated_progress_
        /\ metrics'.status = metrics.status \/ metrics'.status = "stopped"
        /\ unwritten' \in BOOLEAN
    BY <1>1, <2>1, WriteStep DEF stop
  <2>3. CircleTypes' /\ (path_ready_ = (center # NoPlace))' /\ (reference_path = center)'
    BY <2>1, <2>2 DEF CircleInv, CircleTypes, timerCallback, stop, run3
  <2>4. PathIsTheRuns' /\ ~active_'
    BY <2>1 DEF stop, PathIsTheRuns
  <2>5. LapIsDriven'
    BY <2>1, <2>4 DEF CircleInv, CircleSafe, LapIsDriven, timerCallback, run3
  <2>6. MetricsTellTheLap'
    BY <2>1, <2>2 DEF CircleInv, CircleSafe, MetricsTellTheLap, timerCallback, run3
  <2>. QED
    BY <2>3, <2>4, <2>5, <2>6 DEF CircleInv, CircleSafe
<1>2. CASE ~(active_ /\ overdue)
  <2>1. /\ UNCHANGED <<active_, metrics, unwritten>>
        /\ control_path' = IF active_ THEN center ELSE control_path
        /\ up = TRUE
    BY <1>2 DEF timerCallback, CircleInv, CircleTypes
  <2>2. CircleTypes' /\ (path_ready_ = (center # NoPlace))' /\ (reference_path = center)'
    BY <2>1 DEF CircleInv, CircleTypes, timerCallback, run3
  <2>3. (active_ => MayDriveTheCircle)'
    BY <2>1 DEF CircleInv, MayDriveTheCircle, timerCallback
  <2>4. PathIsTheRuns'
    BY <2>1 DEF CircleInv, CircleSafe, PathIsTheRuns, MayDriveTheCircle, timerCallback
  <2>5. LapIsDriven' /\ MetricsTellTheLap'
    BY <2>1 DEF CircleInv, CircleSafe, LapIsDriven, MetricsTellTheLap, timerCallback, run3
  <2>. QED
    BY <2>2, <2>3, <2>4, <2>5 DEF CircleInv, CircleSafe
<1>. QED
  BY <1>1, <1>2

LEMMA ShutdownKeeps ==
  ASSUME CircleInv, Shutdown
  PROVE  CircleInv'
<1>. DEFINE status == IF completed_ THEN "complete" ELSE "stopped"
<1>1. /\ ~unwritten' => /\ metrics'.status = status
                        /\ metrics'.samples = error_samples_
                        /\ metrics'.progress = accumulated_progress_
      /\ metrics'.status = metrics.status \/ metrics'.status = status
      /\ unwritten' \in BOOLEAN
  BY WriteStep DEF Shutdown
<1>2. CircleTypes' /\ (path_ready_ = (center # NoPlace))' /\ (reference_path = center)'
  BY <1>1 DEF CircleInv, CircleTypes, Shutdown, circle, run3
<1>3. (active_ => MayDriveTheCircle)'
  BY DEF CircleInv, MayDriveTheCircle, Shutdown, circle
<1>4. PathIsTheRuns'
  BY DEF PathIsTheRuns, Shutdown
<1>5. LapIsDriven'
  BY DEF CircleInv, CircleSafe, LapIsDriven, Shutdown, run3
<1>6. MetricsTellTheLap'
  BY <1>1 DEF CircleInv, CircleSafe, MetricsTellTheLap, Shutdown, run3
<1>. QED
  BY <1>2, <1>3, <1>4, <1>5, <1>6 DEF CircleInv, CircleSafe

\* A sample counts on from what was counted, or from the odometry that arms.
LEMMA SampleCounts ==
  ASSUME CircleInv, NEW odometry \in Odometries, NEW arms \in BOOLEAN,
         Sample(odometry, arms)
  PROVE  /\ accumulated_progress_' \in Nat
         /\ turned' \in Int /\ lowest' \in Int
         /\ accumulated_progress_' = turned' - lowest'
<1>. DEFINE previous == IF arms THEN odometry.angle ELSE previous_angle_
            from == IF arms THEN 0 ELSE accumulated_progress_
            lost == NaN \in {previous, odometry.angle}
            before == IF arms THEN 0 ELSE turned
            turn == IF lost THEN 0
                    ELSE before + directedAngularDelta(previous, odometry.angle)
            least == IF lost \/ arms THEN 0 ELSE lowest
<1>1. /\ accumulated_progress_' = Progressed(previous, odometry.angle, from)
      /\ turned' = turn
      /\ lowest' = IF turn < least THEN turn ELSE least
  BY DEF Sample
<1>2. previous \in Angles \cup {NaN} /\ odometry.angle \in Angles \cup {NaN}
  BY OdometryFields DEF CircleInv, CircleTypes
<1>3. /\ from \in Nat /\ before \in Int /\ least \in Int
      /\ ~lost => from = before - least
  BY DEF CircleInv, CircleTypes, CircleSafe, LapIsDriven
<1>4. CASE lost
  BY <1>1, <1>4 DEF Progressed
<1>5. CASE ~lost
  <2>. DEFINE delta == directedAngularDelta(previous, odometry.angle)
  <2>1. previous \in Angles /\ odometry.angle \in Angles
    BY <1>2, <1>5
  <2>2. delta \in Int
    BY <2>1, DeltaInt
  <2>3. accumulated_progress_' = IF from + delta < 0 THEN 0 ELSE from + delta
    BY <1>1, <1>5 DEF Progressed
  <2>4. turned' = before + delta
    BY <1>1, <1>5
  <2>5. lowest' = IF turned' < least THEN turned' ELSE least
    BY <1>1, <1>5
  <2>6. from = before - least
    BY <1>3, <1>5
  <2>. HIDE DEF delta, from, before, least
  <2>. QED
    BY <1>3, <2>2, <2>3, <2>4, <2>5, <2>6
<1>. QED
  BY <1>4, <1>5

LEMMA SampleKeeps ==
  ASSUME CircleInv, up = TRUE, NEW odometry \in Odometries, NEW arms \in BOOLEAN,
         Sample(odometry, arms), UNCHANGED <<setup, up>>,
         active_ \/ (arms = TRUE /\ ~completed_),
         ~active_ \/ ~arms,
         MayDriveTheCircle', center' \in Places, reference_path' = center',
         circle_safe_' \in BOOLEAN, path_ready_' = TRUE,
         active_ => center' = center,
         latest_odometry_' = odometry, previous_angle_' = odometry.angle
  PROVE  CircleInv'
<1>. DEFINE done == lapDone(odometry, accumulated_progress_')
<1>1. /\ accumulated_progress_' \in Nat /\ turned' \in Int /\ lowest' \in Int
      /\ accumulated_progress_' = turned' - lowest'
  BY SampleCounts
<1>2. ~completed_
  BY DEF CircleInv, CircleSafe, LapIsDriven
<1>3. /\ error_samples_' = error_samples_ + 1
      /\ auto_arm_pending_' = (auto_arm_pending_ /\ ~arms)
      /\ overdue' = (overdue /\ ~arms)
      /\ active_' = ~done
      /\ completed_' = (completed_ \/ done)
      /\ control_path' = IF done THEN NoPlace ELSE IF arms THEN center' ELSE control_path
  BY DEF Sample
<1>4. /\ done => /\ unwritten' \in BOOLEAN
                 /\ ~unwritten' => /\ metrics'.status = "complete"
                                   /\ metrics'.samples = error_samples_'
                                   /\ metrics'.progress = accumulated_progress_'
                 /\ metrics'.status = metrics.status \/ metrics'.status = "complete"
      /\ ~done => UNCHANGED <<metrics, unwritten>>
  BY WriteStep DEF Sample
<1>5. CircleTypes'
  <2>1. previous_angle_' \in Angles \cup {NaN}
    BY OdometryFields
  <2>2. /\ auto_arm_pending_' \in BOOLEAN /\ active_' \in BOOLEAN /\ completed_' \in BOOLEAN
        /\ overdue' \in BOOLEAN /\ unwritten' \in BOOLEAN /\ error_samples_' \in Nat
    BY <1>3, <1>4 DEF CircleInv, CircleTypes
  <2>3. /\ setup' \in CircleSetups /\ path_ready_' \in BOOLEAN /\ up' \in BOOLEAN
        /\ latest_odometry_' \in Odometries \cup {NoOdometry}
        /\ center' \in Places \cup {NoPlace}
    BY DEF CircleInv, CircleTypes
  <2>. QED
    BY <1>1, <2>1, <2>2, <2>3 DEF CircleTypes
<1>6. PathIsTheRuns'
  <2>1. active_ => control_path = center
    BY DEF CircleInv, CircleSafe, PathIsTheRuns
  <2>2. done \/ control_path' = center'
    BY <1>3, <2>1
  <2>3. center' # NoPlace
    BY CircleAssumption
  <2>4. done => control_path' = NoPlace
    BY <1>3
  <2>. HIDE DEF done
  <2>. QED
    BY <1>3, <2>2, <2>3, <2>4 DEF PathIsTheRuns, MayDriveTheCircle
<1>7. LapIsDriven'
  <2>1. done => accumulated_progress_' >= Turn - Slack
    BY DEF lapDone
  <2>. HIDE DEF done
  <2>. QED
    BY <1>1, <1>2, <1>3, <2>1 DEF LapIsDriven
<1>8. MetricsTellTheLap'
  <2>1. metrics.status # "complete"
    BY <1>2 DEF CircleInv, CircleSafe, MetricsTellTheLap
  <2>. HIDE DEF done
  <2>. QED
    BY <1>2, <1>3, <1>4, <2>1 DEF MetricsTellTheLap
<1>9. path_ready_' = (center' # NoPlace)
  BY CircleAssumption
<1>. QED
  BY <1>5, <1>6, <1>7, <1>8, <1>9 DEF CircleInv, CircleSafe

LEMMA OdometryKeeps ==
  ASSUME CircleInv, NEW odometry \in Odometries, NEW place \in Places,
         odomCallback(odometry, place)
  PROVE  CircleInv'
<1>. DEFINE locks == ~path_ready_ /\ odometry.frame /\ odometry.angle # NaN
            arms == auto_arm_pending_ /\ MayArm(odometry, path_ready_', circle_safe_')
<1>1. /\ up = TRUE /\ UNCHANGED <<setup, up>>
      /\ latest_odometry_' = odometry
      /\ previous_angle_' = IF path_ready_' THEN odometry.angle ELSE previous_angle_
      /\ IF path_ready_' /\ (active_ \/ arms) THEN Sample(odometry, arms) ELSE Look
  BY DEF odomCallback, CircleInv, CircleTypes, circle, initializeCircleFromOdometry, Drive
<1>2. /\ reference_path' = center'
      /\ circle_safe_' \in BOOLEAN /\ path_ready_' \in BOOLEAN
      /\ center' \in Places \cup {NoPlace}
      /\ path_ready_' = (center' # NoPlace)
      /\ active_ => /\ UNCHANGED <<path_ready_, circle_safe_, center, reference_path>>
                    /\ path_ready_ = TRUE
  <2>1. CASE locks
    <3>1. /\ center' = place /\ reference_path' = place
          /\ circle_safe_' \in BOOLEAN /\ path_ready_' = TRUE
      BY <2>1 DEF odomCallback, initializeCircleFromOdometry, MaybeSafe
    <3>2. ~active_
      BY <2>1 DEF CircleInv, MayDriveTheCircle
    <3>. QED
      BY <3>1, <3>2, CircleAssumption
  <2>2. CASE ~locks
    <3>1. UNCHANGED circle
      BY <2>2 DEF odomCallback
    <3>. QED
      BY <3>1 DEF circle, CircleInv, CircleTypes, MayDriveTheCircle
  <2>. QED
    BY <2>1, <2>2
<1>3. arms \in BOOLEAN
  BY DEF MayArm, startCheck, CircleInv, CircleTypes
<1>4. CASE path_ready_' /\ (active_ \/ arms)
  <2>1. MayDriveTheCircle'
    <3>1. CASE active_
      BY <1>1, <1>2, <3>1 DEF CircleInv, MayDriveTheCircle
    <3>2. CASE arms
      BY <1>1, <1>2, <1>4, <3>2 DEF MayArm, startCheck, MayDriveTheCircle
    <3>. QED
      BY <1>4, <3>1, <3>2
  <2>2. active_ \/ (arms = TRUE /\ ~completed_)
    BY <1>3, <1>4 DEF MayArm
  <2>3. ~active_ \/ ~arms
    BY DEF MayArm
  <2>4. center' \in Places /\ path_ready_' = TRUE
    BY <1>2, <1>4
  <2>5. Sample(odometry, arms) /\ previous_angle_' = odometry.angle
    BY <1>1, <1>4
  <2>. HIDE DEF arms
  <2>. QED
    BY <1>1, <1>2, <1>3, <2>1, <2>2, <2>3, <2>4, <2>5, SampleKeeps
<1>5. CASE ~(path_ready_' /\ (active_ \/ arms))
  <2>1. Look /\ ~active_
    BY <1>1, <1>2, <1>5
  <2>2. CircleTypes'
    BY <1>1, <1>2, <2>1, OdometryFields DEF Look, run3, CircleInv, CircleTypes
  <2>3. PathIsTheRuns'
    BY <1>1, <2>1 DEF Look, CircleInv, CircleSafe, PathIsTheRuns
  <2>4. LapIsDriven' /\ MetricsTellTheLap'
    BY <1>1, <2>1 DEF Look, run3, CircleInv, CircleSafe, LapIsDriven, MetricsTellTheLap
  <2>5. ~active_'
    BY <2>1 DEF Look
  <2>. QED
    BY <1>2, <2>2, <2>3, <2>4, <2>5 DEF CircleInv, CircleSafe
<1>. QED
  BY <1>4, <1>5

LEMMA CircleNextKeeps == CircleInv /\ [CircleNext]_circleVars => CircleInv'
<1>. SUFFICES ASSUME CircleInv, [CircleNext]_circleVars
              PROVE  CircleInv'
  OBVIOUS
<1>1. CASE UNCHANGED circleVars
  BY <1>1 DEF circleVars, circle, run3, CircleInv, CircleTypes, MayDriveTheCircle,
     CircleSafe, PathIsTheRuns, LapIsDriven, MetricsTellTheLap
<1>2. CASE DurationElapses
  BY <1>2 DEF DurationElapses, circle, run3, CircleInv, CircleTypes, MayDriveTheCircle,
     CircleSafe, PathIsTheRuns, LapIsDriven, MetricsTellTheLap
<1>. QED
  BY <1>1, <1>2, DisarmKeeps, ArmKeeps, CircleTimerKeeps, ShutdownKeeps, OdometryKeeps
     DEF CircleNext

-----------------------------------------------------------------------------
(***************************************************************************)
(* The fixed path.  While a run is on all of its samples lie near the      *)
(* reference, and those since zero_command_since_ are of a robot that      *)
(* stands at its end.                                                      *)
(***************************************************************************)
FixedSamples == [run : Nat, near : BOOLEAN, inside : BOOLEAN, standing : BOOLEAN]

FixedTypes ==
  /\ state_ \in {"Idle", "Running", "Completed", "Aborted"}
  /\ bench \in Nat /\ bench <= MaxRuns
  /\ samples_ \in Seq(FixedSamples)
  /\ zero_command_since_ \in Nat
  /\ latest_pose \in [near : BOOLEAN, inside : BOOLEAN, odometry : {"fresh", "foreign", "old"}]
  /\ standing \in BOOLEAN
  /\ csv_ \in [open : BOOLEAN, good : BOOLEAN, of : Nat]
  /\ rows \in [Runs -> Nat]

AtTheEnd(samples, from) ==
  /\ from \in DOMAIN samples
  /\ \A k \in from..Len(samples) : samples[k].inside = TRUE /\ samples[k].standing = TRUE

RunIsOn ==
  /\ bench > NoRun
  /\ result_reason_ = "running"
  /\ \A k \in DOMAIN samples_ : samples_[k].near = TRUE
  /\ zero_command_since_ # NotYet => AtTheEnd(samples_, zero_command_since_)

RowsCounted ==
  /\ csv_.good = TRUE => csv_.of = bench
  /\ csv_.good = TRUE /\ bench > NoRun => rows[bench] = Len(samples_)
  /\ \A r \in Runs : r > bench => rows[r] = 0

FixedInv ==
  /\ FixedTypes
  /\ state_ = "Running" => RunIsOn
  /\ \A k \in DOMAIN samples_ : samples_[k].run = bench
  /\ RowsCounted
  /\ FixedSafe

LEMMA FixedStarts == FixedInit => FixedInv
<1>. SUFFICES ASSUME FixedInit PROVE FixedInv
  OBVIOUS
<1>1. FixedTypes
  <2>1. csv_ \in [open : BOOLEAN, good : BOOLEAN, of : Nat]
    BY DEF FixedInit, NoRun
  <2>2. rows \in [Runs -> Nat]
    BY DEF FixedInit
  <2>3. latest_pose \in [near : BOOLEAN, inside : BOOLEAN, odometry : {"fresh", "foreign", "old"}]
    BY DEF FixedInit, Unknown
  <2>4. samples_ \in Seq(FixedSamples)
    BY DEF FixedInit
  <2>. QED
    BY <2>1, <2>2, <2>3, <2>4, FixedAssumption DEF FixedInit, FixedTypes, NoRun, NotYet
<1>2. DOMAIN samples_ = {}
  BY DEF FixedInit
<1>3. RowsCounted
  BY FixedAssumption DEF FixedInit, RowsCounted, NoRun, Runs
<1>4. FixedSafe
  BY <1>2 DEF FixedInit, FixedSafe, PathIsThisRuns, FollowedToTheEnd, FilesTellTheRun, NoRun
<1>. QED
  BY <1>1, <1>2, <1>3, <1>4 DEF FixedInv, FixedInit

LEMMA InputsKeep ==
  ASSUME FixedInv, fixedOdometryCallback \/ commandCallback \/ LimitPasses
  PROVE  FixedInv'
<1>1. UNCHANGED <<runVars, outputs_>>
  BY DEF fixedOdometryCallback, commandCallback, LimitPasses
<1>2. /\ latest_pose' \in [near : BOOLEAN, inside : BOOLEAN, odometry : {"fresh", "foreign", "old"}]
      /\ standing' \in BOOLEAN
  <2>1. CASE fixedOdometryCallback
    BY <2>1 DEF FixedInv, FixedTypes, fixedOdometryCallback
  <2>2. CASE commandCallback
    BY <2>2 DEF FixedInv, FixedTypes, commandCallback
  <2>3. CASE LimitPasses
    <3>1. Unknown \in [near : BOOLEAN, inside : BOOLEAN, odometry : {"fresh", "foreign", "old"}]
      BY DEF Unknown
    <3>2. latest_pose' \in {latest_pose, Unknown} /\ standing' = standing
      BY <2>3 DEF LimitPasses
    <3>. QED
      BY <3>1, <3>2 DEF FixedInv, FixedTypes
  <2>. QED
    BY <2>1, <2>2, <2>3
<1>3. FixedTypes'
  BY <1>1, <1>2 DEF FixedInv, FixedTypes, runVars, outputs_
<1>. QED
  BY <1>1, <1>3 DEF FixedInv, runVars, outputs_, RunIsOn, RowsCounted, FixedSafe,
     PathIsThisRuns, FollowedToTheEnd, FilesTellTheRun, AtTheEnd

LEMMA startKeeps ==
  ASSUME FixedInv, startCallback
  PROVE  FixedInv'
<1>1. /\ bench \in Nat /\ bench < MaxRuns /\ bench' = bench + 1
      /\ samples_' = <<>> /\ zero_command_since_' = NotYet
      /\ result_reason_' = "running" /\ state_' = "Running"
      /\ local_path_' = bench'
      /\ UNCHANGED <<standing, rows, summary>>
  BY DEF startCallback, FixedInv, FixedTypes
<1>2. bench' \in Nat /\ bench' > NoRun /\ bench' <= MaxRuns /\ bench' \in Runs
  BY <1>1, FixedAssumption DEF NoRun, Runs
<1>3. DOMAIN samples_' = {} /\ Len(samples_') = 0 /\ samples_' \in Seq(FixedSamples)
  BY <1>1
<1>4. /\ csv_' \in [open : BOOLEAN, good : BOOLEAN, of : Nat]
      /\ csv_'.good = TRUE => csv_'.of = bench'
  <2>1. CASE csv_.open
    <3>1. csv_' = [csv_ EXCEPT !.good = FALSE]
      BY <2>1 DEF startCallback, openCsv
    <3>. QED
      BY <3>1 DEF FixedInv, FixedTypes
  <2>2. CASE ~csv_.open
    <3>1. \/ csv_' = [open |-> TRUE, good |-> TRUE, of |-> bench']
          \/ csv_' = [open |-> FALSE, good |-> FALSE, of |-> NoRun]
      BY <2>2 DEF startCallback, openCsv
    <3>2. CASE csv_' = [open |-> TRUE, good |-> TRUE, of |-> bench']
      BY <1>2, <3>2
    <3>3. CASE csv_' = [open |-> FALSE, good |-> FALSE, of |-> NoRun]
      BY <3>3 DEF NoRun
    <3>. QED
      BY <3>1, <3>2, <3>3
  <2>. QED
    BY <2>1, <2>2
<1>5. latest_pose' \in [near : BOOLEAN, inside : BOOLEAN, odometry : {"fresh", "foreign", "old"}]
  BY DEF startCallback
<1>6. FixedTypes'
  BY <1>1, <1>2, <1>3, <1>4, <1>5 DEF FixedInv, FixedTypes, NotYet
<1>7. RowsCounted'
  <2>1. rows[bench'] = 0
    BY <1>1, <1>2 DEF FixedInv, RowsCounted
  <2>2. \A r \in Runs : r > bench' => rows[r] = 0
    BY <1>1 DEF FixedInv, RowsCounted, Runs
  <2>. QED
    BY <1>1, <1>3, <1>4, <2>1, <2>2 DEF RowsCounted
<1>8. RunIsOn'
  BY <1>1, <1>2, <1>3 DEF RunIsOn
<1>9. FixedSafe'
  BY <1>1, <1>2, <1>3, <1>7 DEF FixedSafe, PathIsThisRuns, FollowedToTheEnd,
     FilesTellTheRun, RowsCounted
<1>. QED
  BY <1>3, <1>6, <1>7, <1>8, <1>9 DEF FixedInv

\* Closing the stream leaves it good, and another one as it is.
LEMMA ClosedCsv ==
  ASSUME NEW csv \in [open : BOOLEAN, good : BOOLEAN, of : Nat], closeCsv(csv)
  PROVE  /\ csv_' \in [open : BOOLEAN, good : BOOLEAN, of : Nat]
         /\ csv_'.good = csv.good /\ csv_'.of = csv.of
BY DEF closeCsv

LEMMA AbortKeeps ==
  ASSUME FixedInv, state_ = "Running", NEW reason \in {"manual_abort", "odometry_timeout", "timeout"},
         Abort(reason), UNCHANGED <<inputs_, bench>>
  PROVE  FixedInv'
<1>1. /\ UNCHANGED <<samples_, zero_command_since_, rows, latest_pose, standing, bench>>
      /\ state_' = "Aborted" /\ result_reason_' = reason /\ local_path_' = NoRun
      /\ summary' = [of |-> bench, result |-> reason, samples |-> Len(samples_')]
  BY DEF Abort, finishLocked, inputs_
<1>2. /\ csv_' \in [open : BOOLEAN, good : BOOLEAN, of : Nat]
      /\ csv_'.good = csv_.good /\ csv_'.of = csv_.of
  BY ClosedCsv DEF Abort, FixedInv, FixedTypes
<1>3. FixedTypes'
  BY <1>1, <1>2 DEF FixedInv, FixedTypes
<1>4. RowsCounted'
  BY <1>1, <1>2 DEF FixedInv, RowsCounted
<1>5. PathIsThisRuns'
  BY <1>1 DEF PathIsThisRuns
<1>6. FollowedToTheEnd'
  BY <1>1 DEF FixedInv, RunIsOn, FollowedToTheEnd
<1>7. summary'.of = bench /\ summary'.result = reason /\ summary'.samples = Len(samples_)
  BY <1>1
<1>8. FilesTellTheRun'
  BY <1>1, <1>4, <1>7 DEF FilesTellTheRun, RowsCounted
<1>. QED
  BY <1>1, <1>3, <1>4, <1>5, <1>6, <1>8 DEF FixedInv, FixedSafe

LEMMA MeasureKeeps ==
  ASSUME FixedInv, state_ = "Running", Measure, UNCHANGED <<inputs_, bench>>
  PROVE  FixedInv'
<1>. DEFINE sample == [run |-> bench, near |-> latest_pose.near, inside |-> latest_pose.inside,
                       standing |-> standing]
            last == Len(samples_) + 1
            Csvs == [open : BOOLEAN, good : BOOLEAN, of : Nat]
<1>1. /\ RunIsOn /\ bench \in Nat /\ bench > NoRun /\ bench <= MaxRuns
      /\ samples_ \in Seq(FixedSamples) /\ zero_command_since_ \in Nat
      /\ csv_ \in Csvs /\ rows \in [Runs -> Nat]
      /\ latest_pose.near \in BOOLEAN /\ latest_pose.inside \in BOOLEAN /\ standing \in BOOLEAN
      /\ UNCHANGED <<latest_pose, standing, bench>>
  <2>1. RunIsOn /\ FixedTypes
    BY DEF FixedInv
  <2>2. bench > NoRun
    BY <2>1 DEF RunIsOn
  <2>. QED
    BY <2>1, <2>2 DEF FixedTypes, inputs_
<1>2. samples_' = Append(samples_, sample)
  BY DEF Measure
<1>3. /\ sample \in FixedSamples /\ sample.run = bench /\ sample.near = latest_pose.near
      /\ sample.inside = latest_pose.inside /\ sample.standing = standing
  BY <1>1 DEF FixedSamples
<1>4. PICK csv \in {csv_, [csv_ EXCEPT !.good = FALSE]} : writeCsv(csv) /\ Judge(csv)
  BY DEF Measure
<1>5. /\ samples_' \in Seq(FixedSamples) /\ Len(samples_') = last
      /\ DOMAIN samples_' = 1..last /\ DOMAIN samples_ = 1..Len(samples_)
      /\ Len(samples_) \in Nat
      /\ samples_'[last] = sample
      /\ \A k \in 1..Len(samples_) : samples_'[k] = samples_[k]
  <2>. HIDE DEF sample
  <2>. QED
    BY <1>1, <1>2, <1>3, AppendProperties
<1>. HIDE DEF sample
<1>6. bench \in Runs
  BY <1>1, FixedAssumption DEF Runs, NoRun
<1>7. /\ csv \in Csvs /\ rows' \in [Runs -> Nat]
      /\ csv.good = TRUE => csv = csv_ /\ csv.of = bench /\ rows'[bench] = rows[bench] + 1
      /\ \A r \in Runs : r # bench => rows'[r] = rows[r]
  <2>1. csv_.good = TRUE => csv_.of = bench
    BY DEF FixedInv, RowsCounted
  <2>2. CASE csv = csv_ /\ rows' = IF csv_.good THEN [rows EXCEPT ![csv_.of] = @ + 1] ELSE rows
    BY <1>1, <1>6, <2>1, <2>2
  <2>3. CASE csv = [csv_ EXCEPT !.good = FALSE] /\ UNCHANGED rows
    BY <1>1, <2>3
  <2>. QED
    BY <1>4, <2>2, <2>3 DEF writeCsv
<1>8. /\ csv_' \in Csvs /\ csv_'.good = csv.good /\ csv_'.of = csv.of
  BY <1>4, <1>7, ClosedCsv DEF Judge, KeepRunning
<1>9. RowsCounted'
  <2>1. csv_.good = TRUE => rows[bench] = Len(samples_)
    BY <1>1 DEF FixedInv, RowsCounted
  <2>2. \A r \in Runs : r > bench => rows[r] = 0
    BY DEF FixedInv, RowsCounted
  <2>3. \A r \in Runs : r > bench' => rows'[r] = 0
    BY <1>1, <1>7, <2>2
  <2>. QED
    BY <1>1, <1>5, <1>7, <1>8, <2>1, <2>3 DEF RowsCounted
<1>10. \A k \in DOMAIN samples_' : samples_'[k].run = bench'
  BY <1>1, <1>3, <1>5 DEF FixedInv
<1>11. \A k \in DOMAIN samples_' : samples_'[k].near = TRUE \/ (k = last /\ ~latest_pose.near)
  BY <1>1, <1>3, <1>5 DEF RunIsOn
<1>12. CASE ~latest_pose.near
  <2>1. /\ UNCHANGED zero_command_since_
        /\ finishLocked("Aborted", "tracking_error_limit")
    BY <1>4, <1>12 DEF Judge
  <2>2. /\ state_' = "Aborted" /\ result_reason_' = "tracking_error_limit"
        /\ local_path_' = NoRun
        /\ summary' = [of |-> bench, result |-> "tracking_error_limit", samples |-> Len(samples_')]
    BY <2>1 DEF finishLocked
  <2>3. FixedTypes'
    BY <1>1, <1>5, <1>7, <1>8, <2>1, <2>2 DEF FixedInv, FixedTypes
  <2>4. FollowedToTheEnd'
    BY <1>5, <1>10, <1>11, <2>2 DEF FollowedToTheEnd
  <2>5. FilesTellTheRun' /\ PathIsThisRuns'
    BY <1>1, <1>9, <2>2 DEF FilesTellTheRun, RowsCounted, PathIsThisRuns
  <2>. QED
    BY <1>9, <1>10, <2>2, <2>3, <2>4, <2>5 DEF FixedInv, FixedSafe
<1>13. CASE latest_pose.near /\ latest_pose.inside /\ standing
  <2>1. zero_command_since_' = IF zero_command_since_ = NotYet THEN last ELSE zero_command_since_
    BY <1>4, <1>5, <1>13 DEF Judge
  <2>2. AtTheEnd(samples_', zero_command_since_') /\ zero_command_since_' \in Nat
    <3>1. CASE zero_command_since_ = NotYet
      <4>1. zero_command_since_' = last /\ last \in 1..last /\ last \in Nat
        BY <1>5, <2>1, <3>1
      <4>2. \A k \in last..Len(samples_') :
              samples_'[k].inside = TRUE /\ samples_'[k].standing = TRUE
        <5>1. sample.inside = TRUE /\ sample.standing = TRUE
          BY <1>1, <1>3, <1>13
        <5>2. \A k \in last..Len(samples_') : k = last
          BY <1>5
        <5>. QED
          BY <1>5, <5>1, <5>2
      <4>. QED
        BY <1>5, <4>1, <4>2 DEF AtTheEnd
    <3>2. CASE zero_command_since_ # NotYet
      <4>. DEFINE since == zero_command_since_
      <4>1. /\ zero_command_since_' = since /\ since \in Nat
            /\ since \in DOMAIN samples_
            /\ \A k \in since..Len(samples_) :
                 samples_[k].inside = TRUE /\ samples_[k].standing = TRUE
        BY <1>1, <2>1, <3>2 DEF RunIsOn, AtTheEnd
      <4>2. since \in 1..Len(samples_) /\ since \in DOMAIN samples_'
        BY <1>5, <4>1
      <4>3. ASSUME NEW k \in since..Len(samples_')
            PROVE  samples_'[k].inside = TRUE /\ samples_'[k].standing = TRUE
        <5>1. CASE k = last
          BY <1>3, <1>5, <1>13, <5>1
        <5>2. CASE k # last
          <6>1. k \in since..Len(samples_) /\ k \in 1..Len(samples_)
            BY <1>5, <4>2, <5>2
          <6>. QED
            BY <1>5, <4>1, <6>1
        <5>. QED
          BY <5>1, <5>2
      <4>. QED
        BY <4>1, <4>2, <4>3 DEF AtTheEnd
    <3>. QED
      BY <3>1, <3>2
  <2>3. \A k \in DOMAIN samples_' : samples_'[k].near = TRUE
    BY <1>11, <1>13
  <2>4. CASE finishLocked("Completed", "completed")
    <3>1. /\ state_' = "Completed" /\ result_reason_' = "completed"
          /\ local_path_' = NoRun
          /\ summary' = [of |-> bench, result |-> "completed", samples |-> Len(samples_')]
      BY <2>4 DEF finishLocked
    <3>2. FixedTypes'
      BY <1>1, <1>5, <1>7, <1>8, <2>2, <3>1 DEF FixedInv, FixedTypes
    <3>3. FollowedToTheEnd'
      BY <1>10, <2>2, <2>3, <3>1 DEF FollowedToTheEnd, AtTheEnd
    <3>4. FilesTellTheRun' /\ PathIsThisRuns'
      BY <1>1, <1>9, <3>1 DEF FilesTellTheRun, RowsCounted, PathIsThisRuns
    <3>. QED
      BY <1>9, <1>10, <3>1, <3>2, <3>3, <3>4 DEF FixedInv, FixedSafe
  <2>5. CASE KeepRunning(csv)
    <3>1. UNCHANGED <<state_, result_reason_, local_path_, summary>>
      BY <2>5 DEF KeepRunning
    <3>2. FixedTypes' /\ RunIsOn'
      BY <1>1, <1>5, <1>7, <1>8, <2>2, <2>3, <3>1 DEF FixedInv, FixedTypes, RunIsOn
    <3>3. FixedSafe'
      BY <1>1, <1>9, <1>10, <2>3, <3>1 DEF FixedInv, FixedSafe, PathIsThisRuns,
         FollowedToTheEnd, FilesTellTheRun, RowsCounted, RunIsOn
    <3>. QED
      BY <1>9, <1>10, <3>2, <3>3 DEF FixedInv
  <2>. QED
    BY <1>4, <1>13, <2>4, <2>5 DEF Judge
<1>14. CASE latest_pose.near /\ ~(latest_pose.inside /\ standing)
  <2>1. zero_command_since_' = NotYet /\ UNCHANGED <<state_, result_reason_, local_path_, summary>>
    BY <1>4, <1>14 DEF Judge, KeepRunning
  <2>2. \A k \in DOMAIN samples_' : samples_'[k].near = TRUE
    BY <1>11, <1>14
  <2>3. FixedTypes' /\ RunIsOn'
    BY <1>1, <1>5, <1>7, <1>8, <2>1, <2>2 DEF FixedInv, FixedTypes, RunIsOn, NotYet
  <2>4. FixedSafe'
    BY <1>1, <1>9, <1>10, <2>1, <2>2 DEF FixedInv, FixedSafe, PathIsThisRuns,
       FollowedToTheEnd, FilesTellTheRun, RowsCounted, RunIsOn
  <2>. QED
    BY <1>9, <1>10, <2>3, <2>4 DEF FixedInv
<1>. QED
  BY <1>12, <1>13, <1>14

LEMMA FixedNextKeeps == FixedInv /\ [FixedNext]_fixedVars => FixedInv'
<1>. SUFFICES ASSUME FixedInv, [FixedNext]_fixedVars
              PROVE  FixedInv'
  OBVIOUS
<1>1. CASE UNCHANGED fixedVars
  BY <1>1 DEF fixedVars, inputs_, FixedInv, FixedTypes, RunIsOn, RowsCounted, FixedSafe,
     PathIsThisRuns, FollowedToTheEnd, FilesTellTheRun, AtTheEnd
<1>2. CASE abortCallback
  BY <1>2, AbortKeeps DEF abortCallback
<1>3. CASE fixedTimerCallback
  BY <1>3, AbortKeeps, MeasureKeeps DEF fixedTimerCallback
<1>. QED
  BY <1>1, <1>2, <1>3, InputsKeep, startKeeps DEF FixedNext

-----------------------------------------------------------------------------

\* A behaviour of one of them leaves the others at their beginning.
LEMMA BenchmarksKeep ==
  CircleInv /\ FixedInv /\ [DriversNext]_driverVars => (CircleInv /\ FixedInv)'
<1>. SUFFICES ASSUME CircleInv, FixedInv, [DriversNext]_driverVars
              PROVE  CircleInv' /\ FixedInv'
  OBVIOUS
<1>1. [CircleNext]_circleVars /\ [FixedNext]_fixedVars
  BY DEF DriversNext, driverVars
<1>. QED
  BY <1>1, CircleNextKeeps, FixedNextKeeps

\* However a benchmark is started, disarmed, aborted and run again, and whatever
\* odometry it is sent, the follower has a path only while a run is on, a run is
\* complete only if it was driven to its end, and the files tell of it.
THEOREM BenchmarksCorrect == DriversSpec => []BenchmarksSafe
<1>1. DriversInit => CircleInv /\ FixedInv
  BY CircleStarts, FixedStarts DEF DriversInit
<1>2. CircleInv /\ FixedInv => BenchmarksSafe
  BY DEF CircleInv, FixedInv, BenchmarksSafe
<1>. QED
  BY <1>1, <1>2, BenchmarksKeep, PTL DEF DriversSpec
=============================================================================
