------------------------------ MODULE MapTools ------------------------------
(***************************************************************************)
(* The programs a map is made with: its poses and clouds are written by    *)
(* DataRecorder, its graph is recorded by OdomWaypoint and edited by       *)
(* TopologyEditor.  They share files only, of sessions that have ended, so *)
(* a behaviour is one of one of them.                                      *)
(***************************************************************************)
EXTENDS OdomWaypoint, TopologyEditor, DataRecorder

VARIABLE tool               \* the program that runs

\* A long recording that is interrupted at its end, with every way to meet, split
\* and leave old ground, and short ones with every service and snapshot.
SomeRecordings ==
  {[vertices |-> 5, poses |-> 6, jumps |-> 1, calls |-> 0],
   [vertices |-> 3, poses |-> 2, jumps |-> 1, calls |-> 4]}

MapInit ==
  /\ tool \in {"recorder", "editor", "data recorder"}
  /\ EditorInit /\ Init /\ DataInit
  /\ tool # "recorder" => recording /\ bound.calls = 0   \* one of them, it does not run

MapNext ==
  \/ /\ tool = "editor" /\ UNCHANGED <<tool, vars, recorderVars>>
     /\ EditorNext
     \* bound: in the longest sessions no path is chosen and nothing is saved
     /\ edits' = MaxEdits => batch' = NoBatch /\ file' = First
  \/ /\ tool = "recorder" /\ UNCHANGED <<tool, editorVars, recorderVars>>
     /\ Next
  \/ /\ tool = "data recorder" /\ UNCHANGED <<tool, vars, editorVars>>
     /\ DataNext

MapSpec == MapInit /\ [][MapNext]_<<tool, vars, editorVars, recorderVars>>

=============================================================================
