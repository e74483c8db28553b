------------------------------ MODULE WebConsole ------------------------------
(***************************************************************************)
(* The web console's command handlers over the processes it manages (the   *)
(* planner chain, the loop patrol, the topology recording, the topology    *)
(* generation) and over the topology files they share.                     *)
(*                                                                         *)
(* Every browser has a thread of its own, which runs one handler at a      *)
(* time: it checks (Accept), then acts in one or more further steps.  Two  *)
(* timers of the ROS thread poll the generation and the recording.         *)
(* Whether odometry is fresh, and all that only lets a handler refuse, is  *)
(* left to the moment at which a browser asks.                             *)
(***************************************************************************)
EXTENDS Integers, Sequences

CONSTANTS
  Browsers,         \* the open sessions
  Files,            \* the topology files, by the name of their directory
  StoredFiles,      \* those that exist at the start
  MaxWrites,        \* bound: topology documents written
  MaxKeys           \* bound: keys that wait in the recording's terminal

NoFile == "none"    \* the empty path

ASSUME ConsoleAssumption ==
  /\ StoredFiles \subseteq Files /\ MaxWrites \in Nat \ {0} /\ MaxKeys \in Nat
  /\ NoFile \notin Files
Absent == -1        \* no directory of that name
Empty == 0          \* a directory, no topoGraph_data.json
Processes == {"planner", "loop_patrol", "recording", "generation"}

VARIABLES
  disk,         \* revision of each topology file
  writes,       \* documents written so far: the next is the next revision
  running,      \* ManagedProcess::running_, by process
  console,      \* selected_topology_path_, the revision of current_topology_
  job,          \* by browser: the command under way; of a planner's start, whether
                \*   nothing that it excludes was under way since its checks (history)
  generation,   \* topology_generation_state_, _output_, the process's argument
                \*   and exit code
  recording,    \* recording_state_, recording_save_name_
  keyboard,     \* the recording process: its mode, destination and input, whether
                \*   its log says that it began, and a failure line not read yet
  poll,         \* what pollTopologyRecording read under the lock
  graph         \* the graph the planner chain was started with, and whether
                \*   nothing else was under way then (history)

vars == <<disk, writes, running, console, job, generation, recording, keyboard,
          poll, graph>>

Job(c, f, e, alone) == [command |-> c, file |-> f, expected |-> e, alone |-> alone]
Idle == Job("idle", NoFile, Absent, FALSE)
NoKeyboard == [mode |-> "off", file |-> NoFile, keys |-> <<>>, began |-> FALSE,
               failed |-> FALSE]
NoPoll == [state |-> "none", name |-> NoFile]
NoGraph == [file |-> NoFile, revision |-> Absent, alone |-> FALSE]

Stored(f) == f # NoFile /\ disk[f] > Empty

Done(b) == job' = [job EXCEPT ![b] = Idle]
GoesOn(b, c) == job' = [job EXCEPT ![b].command = c]
Write(f) ==
  /\ writes < MaxWrites /\ writes' = writes + 1
  /\ disk' = [disk EXCEPT ![f] = writes + 1]
Runs(p, b) == running' = [running EXCEPT ![p] = b]

-----------------------------------------------------------------------------
(* What the handlers check before they act *)

CanSelect(f) == ~running.planner /\ ~running.recording /\ Stored(f)

CanSaveMutant == console.path # NoFile      \* (mutated: with a planner running)
CanSave == ~running.planner /\ console.path # NoFile

CanGenerate == ~running.generation /\ ~running.planner /\ ~running.recording

CanStartPlannerMutant == ~running.planner /\ console.path # NoFile
CanStartPlanner ==
  /\ ~running.planner
  /\ ~running.recording         \* finish topology recording before starting planner
  /\ console.path # NoFile /\ console.revision > Empty

CanRecord == ~running.planner /\ ~running.recording

CanType == Len(keyboard.keys) < MaxKeys

CanStopRecording(f) == running.recording /\ disk[f] = Absent /\ CanType

Allowed(c, f) ==
  CASE c = "select" -> CanSelect(f)
    [] c = "unselect" -> ~running.planner /\ ~running.recording
    [] c = "save" -> CanSave
    [] c = "generate" -> CanGenerate
    [] c = "planner" -> CanStartPlanner
    [] c = "stop" -> TRUE
    [] c = "patrol" -> running.planner /\ ~running.loop_patrol
    [] c = "patrol stop" -> running.loop_patrol
    [] c = "record" -> CanRecord
    [] c = "record stop" -> CanStopRecording(f)
    [] c = "record abort" -> CanType

OfFile == {"select", "generate", "record stop"}
Commands == OfFile \cup {"unselect", "save", "planner", "stop", "patrol",
                         "patrol stop", "record", "record abort"}

\* The commands that are refused while the planner runs, in every step in which
\* they may still switch or rewrite a file or start a process.
Offline == OfFile \cup {"unselect", "save", "write", "generating", "record"}

NobodyElse(b) == \A d \in Browsers \ {b} : job[d].command \notin Offline

\* handleCommand: a refused command changes nothing.  The browser sends the
\* revision it was last shown.
Accept(b) ==
  /\ job[b] = Idle
  /\ \E c \in Commands, f \in Files \cup {NoFile} :
       /\ c \in OfFile <=> f # NoFile
       /\ Allowed(c, f)
       /\ job' = [d \in Browsers |->
            IF d # b THEN [job[d] EXCEPT !.alone = @ /\ c \notin Offline]
            ELSE Job(c, f, IF c = "save" THEN console.revision ELSE Absent,
                     c = "planner" /\ NobodyElse(b))]
  /\ UNCHANGED <<disk, writes, running, console, generation, recording, keyboard,
                 poll, graph>>

-----------------------------------------------------------------------------
(* Topology files *)

\* selectTopologyFile, selectTopology; selectMap, of a map without a default
selectTopologyFile(b) ==
  /\ job[b].command \in {"select", "unselect"} /\ Done(b)
  /\ LET f == job[b].file IN
     console' = [path |-> f, revision |-> IF f = NoFile THEN Absent ELSE disk[f]]
  /\ UNCHANGED <<disk, writes, running, generation, recording, keyboard, poll, graph>>

\* TopologyStore::save, first: the file must still have the browser's revision.
SaveCompares(b) ==
  /\ job[b].command = "save"
  /\ IF Stored(console.path) /\ disk[console.path] # job[b].expected
     THEN Done(b)
     ELSE GoesOn(b, "write")
  /\ UNCHANGED <<disk, writes, running, console, generation, recording, keyboard,
                 poll, graph>>

\* Then the rename.  The path is a reference to selected_topology_path_, which
\* may have been switched since.
SaveWrites(b) ==
  /\ job[b].command = "write" /\ Done(b)
  /\ IF console.path = NoFile
     THEN UNCHANGED <<disk, writes, console>>
     ELSE Write(console.path) /\ console' = [console EXCEPT !.revision = writes + 1]
  /\ UNCHANGED <<running, generation, recording, keyboard, poll, graph>>

\* startTopologyGeneration: the process is started, then the state is set.
GenerationStarts(b) ==
  /\ job[b].command = "generate"
  /\ IF running.generation        \* ProcessManager::start refuses
     THEN Done(b) /\ UNCHANGED <<disk, running, generation>>
     ELSE /\ GoesOn(b, "generating")
          /\ Runs("generation", TRUE)
          /\ disk' = [disk EXCEPT ![job[b].file] = IF @ = Absent THEN Empty ELSE @]
          /\ generation' = [generation EXCEPT !.file = job[b].file, !.ok = FALSE]
  /\ UNCHANGED <<writes, console, recording, keyboard, poll, graph>>

GenerationNoted(b) ==
  /\ job[b].command = "generating" /\ Done(b)
  /\ generation' = [generation EXCEPT !.state = "running", !.output = job[b].file]
  /\ UNCHANGED <<disk, writes, running, console, recording, keyboard, poll, graph>>

\* pose_file_to_topology writes its output and exits with 0, or fails.
GenerationWrites ==
  /\ running.generation /\ ~generation.ok
  /\ Write(generation.file)
  /\ generation' = [generation EXCEPT !.ok = TRUE]
  /\ UNCHANGED <<running, console, job, recording, keyboard, poll, graph>>

GenerationExits ==
  /\ running.generation /\ Runs("generation", FALSE)
  /\ UNCHANGED <<disk, writes, console, job, generation, recording, keyboard, poll,
                 graph>>

pollTopologyGeneration ==
  /\ generation.state = "running" /\ ~running.generation
  /\ IF generation.ok /\ Stored(generation.output)
     THEN /\ console' = [path |-> generation.output,
                         revision |-> disk[generation.output]]
          /\ generation' = [generation EXCEPT !.state = "saved"]
     ELSE /\ generation' = [generation EXCEPT !.state = "error"]
          /\ UNCHANGED console
  /\ UNCHANGED <<disk, writes, running, job, recording, keyboard, poll, graph>>

-----------------------------------------------------------------------------
(* The planner chain and the loop patrol *)

\* Something that will still switch the selection or rewrite its file.
Unsettled ==
  \/ running.generation \/ generation.state = "running"
  \/ recording.state = "processing" \/ poll.state = "processing"

\* startProcess, target planner: the command is made for the path selected now ...
PlannerReads(b) ==
  /\ job[b].command = "planner"
  /\ job' = [job EXCEPT ![b].command = "starting planner", ![b].file = console.path]
  /\ UNCHANGED <<disk, writes, running, console, generation, recording, keyboard,
                 poll, graph>>

\* ... and run later; ProcessManager::start refuses a planner that runs.
PlannerStarts(b) ==
  /\ job[b].command = "starting planner" /\ Done(b)
  /\ IF running.planner
     THEN UNCHANGED <<running, graph>>
     ELSE /\ Runs("planner", TRUE)
          /\ graph' = [file |-> job[b].file, revision |-> Absent,
                       alone |-> job[b].alone /\ ~Unsettled /\ job[b].file = console.path]
  /\ UNCHANGED <<disk, writes, console, generation, recording, keyboard, poll>>

\* The nodes of the chain read the graph file once, when they come up.
PlannerLoads ==
  /\ running.planner /\ graph.revision = Absent /\ Stored(graph.file)
  /\ graph' = [graph EXCEPT !.revision = disk[graph.file]]
  /\ UNCHANGED <<disk, writes, running, console, job, generation, recording,
                 keyboard, poll>>

\* stopProcess: the patrol is stopped before the planner it commands.
StopEndsPatrol(b) ==
  /\ job[b].command = "stop" /\ GoesOn(b, "stopping")
  /\ Runs("loop_patrol", FALSE)
  /\ UNCHANGED <<disk, writes, console, generation, recording, keyboard, poll, graph>>

StopEndsPlanner(b) ==
  /\ job[b].command = "stopping" /\ Done(b)
  /\ Runs("planner", FALSE) /\ graph' = NoGraph
  /\ UNCHANGED <<disk, writes, console, generation, recording, keyboard, poll>>

startLoopPatrol(b) ==
  /\ job[b].command = "patrol" /\ Done(b) /\ Runs("loop_patrol", TRUE)
  /\ UNCHANGED <<disk, writes, console, generation, recording, keyboard, poll, graph>>

stopLoopPatrol(b) ==
  /\ job[b].command = "patrol stop" /\ Done(b) /\ Runs("loop_patrol", FALSE)
  /\ UNCHANGED <<disk, writes, console, generation, recording, keyboard, poll, graph>>

-----------------------------------------------------------------------------
(* Recording a topology: the console types into route3d_live_keyboard *)

\* ManagedProcess::readerLoop: running_ is reset after the last line was read.
Exits == ~keyboard.failed /\ Runs("recording", FALSE) /\ keyboard' = NoKeyboard

\* ManagedProcess::writeInput: the keys arrive if the process runs.
Types(keys) == keyboard' = [keyboard EXCEPT !.keys = @ \o keys]
Typed(k, f) == <<[key |-> k, name |-> f]>>

\* startTopologyRecording, until the process is started
RecordingStarts(b) ==
  /\ job[b].command = "record"
  /\ IF running.recording
     THEN Done(b) /\ UNCHANGED <<running, keyboard, recording>>
     ELSE /\ GoesOn(b, "menu")
          /\ Runs("recording", TRUE)
          /\ keyboard' = [NoKeyboard EXCEPT !.mode = "menu"]
          /\ recording' = [state |-> "starting", name |-> NoFile]
  /\ UNCHANGED <<disk, writes, console, generation, poll, graph>>

\* The menu was printed: `1' is typed.
RecordingMenu(b) ==
  /\ job[b].command = "menu" /\ running.recording
  /\ GoesOn(b, "confirm") /\ Types(Typed("1", NoFile))
  /\ UNCHANGED <<disk, writes, running, console, generation, recording, poll, graph>>

\* The recorder printed that it started.
RecordingConfirmed(b) ==
  /\ job[b].command = "confirm" /\ keyboard.began
  /\ Done(b) /\ recording' = [recording EXCEPT !.state = "recording"]
  /\ UNCHANGED <<disk, writes, running, console, generation, keyboard, poll, graph>>

\* It did not within the deadline, or it died, or a write failed: it is stopped.
RecordingFails(b) ==
  /\ job[b].command \in {"menu", "confirm"} /\ Done(b)
  /\ Exits
  /\ recording' = [recording EXCEPT !.state = "error"]
  /\ UNCHANGED <<disk, writes, console, generation, poll, graph>>

\* stopTopologyRecording: the state first, then the keys, if the process is alive
RecordingStops(b) ==
  /\ job[b].command = "record stop" /\ GoesOn(b, "type name")
  /\ recording' = [state |-> "processing", name |-> job[b].file]
  /\ UNCHANGED <<disk, writes, running, console, generation, keyboard, poll, graph>>

NameIsTyped(b) ==
  /\ job[b].command = "type name" /\ Done(b)
  /\ IF running.recording THEN Types(Typed("2", job[b].file)) ELSE UNCHANGED keyboard
  /\ UNCHANGED <<disk, writes, running, console, generation, recording, poll, graph>>

\* abortTopologyRecording: the key, if the process runs, then the state
RecordingAborts(b) ==
  /\ job[b].command = "record abort" /\ GoesOn(b, "aborting")
  /\ IF running.recording THEN Types(Typed("3", NoFile)) ELSE UNCHANGED keyboard
  /\ UNCHANGED <<disk, writes, running, console, generation, recording, poll, graph>>

AbortNoted(b) ==
  /\ job[b].command = "aborting" /\ Done(b)
  /\ recording' = [state |-> "aborted", name |-> NoFile]
  /\ UNCHANGED <<disk, writes, running, console, generation, keyboard, poll, graph>>

-----------------------------------------------------------------------------
(* route3d_live_keyboard.  It reads no key while it saves, and it goes on    *)
(* when saving failed: the session is kept ("kept"), no other can begin.     *)

Key == Head(keyboard.keys)
Became(m, f) ==
  keyboard' = [keyboard EXCEPT !.mode = m, !.file = f, !.keys = Tail(@)]

Begins == keyboard' = [keyboard EXCEPT !.mode = "recording", !.file = NoFile,
                                       !.keys = Tail(@), !.began = TRUE]

\* start: the session directory is there before the recorder is, so a start that
\* failed keeps it.
PressOne ==
  /\ Key.key = "1" /\ UNCHANGED running
  /\ IF keyboard.mode = "menu"
     THEN Begins \/ Became("kept", NoFile)
     ELSE Became(keyboard.mode, NoFile)

PressTwo ==
  /\ Key.key = "2" /\ UNCHANGED running
  /\ Became(IF keyboard.mode = "recording" THEN "saving" ELSE keyboard.mode, Key.name)

PressThree == Key.key = "3" /\ Exits

PressQ ==
  /\ Key.key = "q"
  /\ IF keyboard.mode = "recording"
     THEN Became("recording", NoFile) /\ UNCHANGED running
     ELSE Exits

ReadsKey ==
  /\ keyboard.mode \in {"menu", "recording", "kept"} /\ keyboard.keys # <<>>
  /\ PressOne \/ PressTwo \/ PressThree \/ PressQ
  /\ UNCHANGED <<disk, writes, console, job, generation, recording, poll, graph>>

\* stop_and_save: the name must be unused, the session is moved there.
SessionSaved ==
  /\ keyboard.mode = "saving" /\ disk[keyboard.file] = Absent
  /\ Write(keyboard.file)
  /\ keyboard' = [keyboard EXCEPT !.mode = "menu", !.file = NoFile]
  /\ UNCHANGED <<running, console, job, generation, recording, poll, graph>>

\* An exception is printed and the keyboard goes on.
SavingFails ==
  /\ keyboard.mode = "saving"
  /\ keyboard' = [keyboard EXCEPT !.mode = "kept", !.file = NoFile, !.failed = TRUE]
  /\ UNCHANGED <<disk, writes, running, console, job, generation, recording, poll,
                 graph>>

\* The console's reader thread gets that line: its log callback takes it for an
\* error whatever the state is by now.
\* (mutated: the callback shows the line only)
LogCallbackMutant ==
  /\ keyboard.failed /\ keyboard' = [keyboard EXCEPT !.failed = FALSE]
  /\ UNCHANGED <<disk, writes, running, console, job, generation, recording, poll,
                 graph>>
LogCallback ==
  /\ keyboard.failed /\ keyboard' = [keyboard EXCEPT !.failed = FALSE]
  /\ recording' = [recording EXCEPT !.state = "error"]
  /\ UNCHANGED <<disk, writes, running, console, job, generation, poll, graph>>

-----------------------------------------------------------------------------
(* pollTopologyRecording: it reads under the lock, and acts later *)

PollReads ==
  /\ poll = NoPoll /\ recording.state = "processing"
  /\ poll' = [state |-> "processing", name |-> recording.name]
  /\ UNCHANGED <<disk, writes, running, console, job, generation, recording,
                 keyboard, graph>>

PollFailsMutant == FALSE         \* (mutated: an exit is not looked at)
PollFails == ~Stored(poll.name) /\ ~running.recording
PollSaves ==
  /\ Stored(poll.name)
  /\ console' = [path |-> poll.name, revision |-> disk[poll.name]]
  /\ recording' = [state |-> "saved", name |-> NoFile]
  /\ IF running.recording THEN Types(Typed("q", NoFile)) ELSE UNCHANGED keyboard

PollActs ==
  /\ poll # NoPoll /\ poll' = NoPoll
  /\ \/ PollSaves
     \/ /\ PollFails
        /\ recording' = [recording EXCEPT !.state = "error"]
        /\ UNCHANGED <<console, keyboard>>
     \/ /\ ~Stored(poll.name) /\ ~PollFails
        /\ UNCHANGED <<console, recording, keyboard>>
  /\ UNCHANGED <<disk, writes, running, job, generation, graph>>

-----------------------------------------------------------------------------
Init ==
  /\ disk = [f \in Files |-> IF f \in StoredFiles THEN 1 ELSE Absent]
  /\ writes = 1
  /\ running = [p \in Processes |-> FALSE]
  /\ console = [path |-> NoFile, revision |-> Absent]
  /\ job = [b \in Browsers |-> Idle]
  /\ generation = [state |-> "idle", output |-> NoFile, file |-> NoFile, ok |-> FALSE]
  /\ recording = [state |-> "idle", name |-> NoFile]
  /\ keyboard = NoKeyboard /\ poll = NoPoll /\ graph = NoGraph

\* A process that dies, or that is stopped from a terminal
Dies(p) ==
  /\ running[p]
  /\ IF p = "recording" THEN Exits ELSE Runs(p, FALSE) /\ UNCHANGED keyboard
  /\ graph' = IF p = "planner" THEN NoGraph ELSE graph
  /\ UNCHANGED <<disk, writes, console, job, generation, recording, poll>>

Acts(b) ==
  /\ job[b] # Idle
  /\ \/ selectTopologyFile(b) \/ SaveCompares(b) \/ SaveWrites(b)
     \/ GenerationStarts(b) \/ GenerationNoted(b)
     \/ PlannerReads(b) \/ PlannerStarts(b) \/ StopEndsPatrol(b) \/ StopEndsPlanner(b)
     \/ startLoopPatrol(b) \/ stopLoopPatrol(b)
     \/ RecordingStarts(b) \/ RecordingMenu(b) \/ RecordingConfirmed(b)
     \/ RecordingFails(b) \/ RecordingStops(b) \/ NameIsTyped(b)
     \/ RecordingAborts(b) \/ AbortNoted(b)

Works == PlannerLoads \/ GenerationWrites \/ GenerationExits \/ ReadsKey
         \/ SessionSaved \/ SavingFails \/ LogCallback
Polls == pollTopologyGeneration \/ PollReads \/ PollActs

Next ==
  \/ \E b \in Browsers : Accept(b) \/ Acts(b)
  \/ Works \/ Polls
  \/ \E p \in {"planner", "loop_patrol", "recording"} : Dies(p)

Spec == Init /\ [][Next]_vars

\* Saving ends; the prompt waits for another name while the directory exists.
SavingEnds ==
  keyboard.mode = "saving" /\ disk[keyboard.file] = Absent /\ (SessionSaved \/ SavingFails)

\* Handlers run to their end, processes get on, the timers fire.  No browser
\* has to ask, no process has to die.
CommandsGetOn ==
  /\ \A b \in Browsers : WF_vars(Acts(b))
  /\ WF_vars(ReadsKey) /\ WF_vars(SavingEnds) /\ WF_vars(LogCallback)
  /\ WF_vars(GenerationExits)
  /\ WF_vars(pollTopologyGeneration) /\ WF_vars(PollReads) /\ WF_vars(PollActs)

FairSpec == Spec /\ CommandsGetOn

-----------------------------------------------------------------------------
ConsoleTypeOK ==
  /\ writes \in 1..MaxWrites /\ disk \in [Files -> Absent..MaxWrites]
  /\ running \in [Processes -> BOOLEAN]
  /\ console \in [path : Files \cup {NoFile}, revision : Absent..MaxWrites]
  /\ generation.state \in {"idle", "running", "saved", "error"}
  /\ recording.state \in
       {"idle", "starting", "recording", "processing", "saved", "error", "aborted"}
  /\ keyboard.mode \in {"off", "menu", "recording", "saving", "kept"}
  /\ (keyboard.mode # "off") = running.recording
  /\ graph.revision \in Absent..MaxWrites

\* A planner chain that was started while nothing else was under way excludes the
\* recording, and drives on the selected file as it is on disk, for as long as it
\* runs and whatever any of the browsers asks meanwhile ("stop planner before saving
\* topology so runtime graph and file stay consistent").
RuntimeGraphConsistent ==
  running.planner /\ graph.alone =>
    /\ ~running.recording
    /\ graph.file = console.path
    /\ graph.revision # Absent => graph.revision = disk[graph.file]

\* The console's state has its types, and a chain that was started alone has its
\* file for itself, over the steps of the handlers of all browsers.
ConsoleSafe == ConsoleTypeOK /\ RuntimeGraphConsistent

\* The recording is told to end under the name f: its process has the name, reads
\* it next, or has ended.
ToldToSave(f) ==
  /\ recording = [state |-> "processing", name |-> f]
  /\ \/ keyboard.mode = "off"
     \/ keyboard.mode = "saving" /\ keyboard.file = f
     \/ keyboard.mode = "recording" /\ keyboard.keys # <<>> /\ Key.key = "2" /\ Key.name = f

\* What becomes of a recording that is told to end under a name is reported, be it
\* saved, failed with its process alive, or dead, unless another stop replaces the
\* name, or a generation takes it for a directory of its own.  (Only names that are
\* not in use are accepted.)
ProcessingIsReported ==
  \A f \in Files \ StoredFiles :
    ToldToSave(f) ~> \/ recording # [state |-> "processing", name |-> f]
                     \/ disk[f] = Empty

=============================================================================
