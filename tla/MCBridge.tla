------------------------------ MODULE MCBridge ------------------------------
(***************************************************************************)
(* The parts of the way to the robot, in one instance: the bridge's threads*)
(* and commands, for which a frame arrives or does not; the bytes the      *)
(* frames are made of; and the gate of the manual chain, in front of a     *)
(* bridge of its own.  A behaviour is of one part.  A body may be empty,   *)
(* may look like a frame, or end in the middle of synchronization bytes.   *)
(***************************************************************************)
EXTENDS ServerBridge, ApduStream, ManualVelocity

VARIABLE part

partVars == <<part, vars, streamVars, manualVars>>

SomeBodies == {<<>>, <<235, 145, 235, 144, 0, 5, 1>>, <<235, 145, 235>>}

SomeLimits == [vx |-> 2, vy |-> 1, wz |-> 1]
SomeTwists == {[vx |-> 3, vy |-> 1, wz |-> -2], [vx |-> 1, vy |-> NotFinite, wz |-> 0]}

\* In the other parts the threads stand, in one of their initial states.
PartsInit ==
  /\ part \in {"threads", "bytes", "manual"} /\ Init /\ StreamInit /\ ManualInit
  /\ part # "threads" => link

PartsNext ==
  /\ UNCHANGED part
  /\ \/ part = "threads" /\ Next /\ UNCHANGED <<streamVars, manualVars>>
     \/ part = "bytes" /\ StreamNext /\ UNCHANGED <<vars, manualVars>>
     \/ part = "manual" /\ ManualNext /\ UNCHANGED <<vars, streamVars>>

\* The worker is a running thread, and endlessly many polls take endless time.
PartsSpec == PartsInit /\ [][PartsNext]_partVars /\ WF_vars(Worker) /\ SF_vars(Tick)
=============================================================================
