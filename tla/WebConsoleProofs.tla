--------------------------- MODULE WebConsoleProofs ---------------------------
(***************************************************************************)
(* What holds of the web console for every number of browsers, every set   *)
(* of topology files and every bound: the types, and that a planner chain  *)
(* started while nothing else was under way has its file for itself.  At   *)
(* the end, for any number of sessions and any limits: what the queues may *)
(* hold and whom the lists of sessions name.                               *)
(***************************************************************************)
EXTENDS WebConsole, BrowserSessions, SequenceTheorems, TLAPS

-----------------------------------------------------------------------------
(* Types *)

MaybeFiles == Files \cup {NoFile}
Revisions == Absent..MaxWrites

\* What a handler may be about to do, and the steps that need a file.
Steps == Commands \cup {"idle", "write", "generating", "stopping", "menu", "confirm",
                        "type name", "aborting", "starting planner"}
NeedsFile == OfFile \cup {"generating", "type name"}

Jobs == [command : Steps, file : MaybeFiles, expected : Revisions, alone : BOOLEAN]
Generations == [state : {"idle", "running", "saved", "error"},
                output : MaybeFiles, file : MaybeFiles, ok : BOOLEAN]
Recordings == [state : {"idle", "starting", "recording", "processing", "saved",
                        "error", "aborted"}, name : MaybeFiles]
Keys == [key : {"1", "2", "3", "q"}, name : MaybeFiles]
Keyboards == [mode : {"off", "menu", "recording", "saving", "kept"},
              file : MaybeFiles, keys : Seq(Keys), began : BOOLEAN, failed : BOOLEAN]
Polled == [state : {"none", "processing"}, name : MaybeFiles]
Graphs == [file : MaybeFiles, revision : Revisions, alone : BOOLEAN]

\* A key `2' comes with the name under which the session is to be saved.
Named(k) == k.key = "2" => k.name \in Files

TypeInv ==
  /\ writes \in 1..MaxWrites /\ disk \in [Files -> Revisions]
  /\ running \in [Processes -> BOOLEAN]
  /\ console \in [path : MaybeFiles, revision : Revisions]
  /\ job \in [Browsers -> Jobs]
  /\ generation \in Generations /\ recording \in Recordings
  /\ keyboard \in Keyboards /\ poll \in Polled /\ graph \in Graphs

\* What is under way has the file it is about, and a recording process its mode.
FilesKnown ==
  /\ \A b \in Browsers : job[b].command \in NeedsFile => job[b].file \in Files
  /\ running.generation => generation.file \in Files
  /\ recording.state = "processing" => recording.name \in Files
  /\ keyboard.mode = "saving" => keyboard.file \in Files
  /\ \A i \in 1..Len(keyboard.keys) : Named(keyboard.keys[i])
  /\ poll # NoPoll => poll.state = "processing" /\ poll.name \in Files
  /\ (keyboard.mode # "off") = running.recording

ConsoleTypes == TypeInv /\ FilesKnown

-----------------------------------------------------------------------------
(* The types, for any number of browsers *)

\* The constants that mean nothing is under way.
LEMMA NothingTypes ==
  /\ Idle \in Jobs /\ Idle.command \notin NeedsFile
  /\ NoKeyboard \in Keyboards /\ NoPoll \in Polled /\ NoGraph \in Graphs
  /\ NoKeyboard.mode = "off" /\ NoKeyboard.keys = <<>>
  /\ Absent \in Revisions /\ Empty \in Revisions /\ 1 \in 1..MaxWrites
<1>1. Absent \in Revisions /\ Empty \in Revisions /\ 1 \in 1..MaxWrites
  BY ConsoleAssumption DEF Revisions, Absent, Empty
<1>2. NoFile \in MaybeFiles /\ "idle" \in Steps
  BY DEF MaybeFiles, Steps
<1>3. "idle" \notin NeedsFile
  BY DEF NeedsFile, OfFile
<1>4. Idle \in Jobs /\ Idle.command = "idle"
  BY <1>1, <1>2 DEF Idle, Job, Jobs
<1>5. NoKeyboard \in Keyboards /\ NoPoll \in Polled /\ NoGraph \in Graphs
  BY <1>1, <1>2 DEF NoKeyboard, Keyboards, NoPoll, Polled, NoGraph, Graphs
<1> QED  BY <1>1, <1>3, <1>4, <1>5 DEF NoKeyboard

\* A handler that ends, or goes on to another step with the file it has.
LEMMA JobStep ==
  ASSUME job \in [Browsers -> Jobs], NEW b \in Browsers, NEW c \in Steps,
         Done(b) \/ GoesOn(b, c),
         \A d \in Browsers : job[d].command \in NeedsFile => job[d].file \in Files,
         GoesOn(b, c) /\ c \in NeedsFile => job[b].file \in Files
  PROVE  /\ job' \in [Browsers -> Jobs]
         /\ \A d \in Browsers : job'[d].command \in NeedsFile => job'[d].file \in Files
         /\ \A d \in Browsers \ {b} : job'[d] = job[d]
         /\ job'[b].command \in {"idle", c}
<1>1. Idle \in Jobs /\ Idle.command = "idle" /\ Idle.command \notin NeedsFile
  BY NothingTypes DEF Idle, Job
<1>2. CASE Done(b)
  BY <1>1, <1>2 DEF Done
<1>3. CASE GoesOn(b, c)
  <2> DEFINE j == [job[b] EXCEPT !.command = c]
  <2>1. j \in Jobs /\ j.command = c /\ j.file = job[b].file
    BY DEF Jobs
  <2>2. job' = [job EXCEPT ![b] = j]
    BY <1>3 DEF GoesOn
  <2> HIDE DEF j
  <2> QED  BY <1>3, <2>1, <2>2
<1> QED  BY <1>2, <1>3

\* A document written.
LEMMA WriteType ==
  ASSUME disk \in [Files -> Revisions], writes \in 1..MaxWrites, NEW f \in Files,
         Write(f)
  PROVE  disk' \in [Files -> Revisions] /\ writes' \in 1..MaxWrites
BY ConsoleAssumption DEF Write, Revisions, Absent

\* A process started or ended.
LEMMA RunsType ==
  ASSUME running \in [Processes -> BOOLEAN], NEW p \in Processes, NEW v \in BOOLEAN,
         Runs(p, v)
  PROVE  /\ running' \in [Processes -> BOOLEAN] /\ running'[p] = v
         /\ \A q \in Processes \ {p} : running'[q] = running[q]
BY DEF Runs

\* A key typed behind those that wait, and the first of them read.
LEMMA TypedType ==
  ASSUME keyboard \in Keyboards, \A i \in 1..Len(keyboard.keys) : Named(keyboard.keys[i]),
         NEW k \in {"1", "2", "3", "q"}, NEW f \in MaybeFiles, k = "2" => f \in Files,
         Types(Typed(k, f))
  PROVE  /\ keyboard' \in Keyboards
         /\ keyboard'.mode = keyboard.mode /\ keyboard'.file = keyboard.file
         /\ \A i \in 1..Len(keyboard'.keys) : Named(keyboard'.keys[i])
<1> DEFINE e == [key |-> k, name |-> f]
           s == keyboard.keys \o <<e>>
<1>1. e \in Keys /\ Named(e)
  BY DEF Keys, Named
<1>2. keyboard.keys \in Seq(Keys)
  BY DEF Keyboards
<1> HIDE DEF e
<1>3. <<e>> \in Seq(Keys) /\ Len(<<e>>) = 1 /\ <<e>>[1] = e
  BY <1>1
<1>4. /\ s \in Seq(Keys) /\ Len(s) = Len(keyboard.keys) + 1
      /\ \A i \in 1..Len(s) :
           s[i] = IF i <= Len(keyboard.keys) THEN keyboard.keys[i] ELSE e
  BY <1>2, <1>3, ConcatProperties
<1>5. Len(keyboard.keys) \in Nat
  BY <1>2, LenProperties
<1>6. \A i \in 1..Len(s) : Named(s[i])
  BY <1>1, <1>4, <1>5
<1> HIDE DEF s
<1>7. keyboard' = [keyboard EXCEPT !.keys = s]
  BY DEF Types, Typed, s, e
<1> QED  BY <1>4, <1>6, <1>7 DEF Keyboards

LEMMA KeyRead ==
  ASSUME keyboard \in Keyboards, keyboard.keys # <<>>,
         \A i \in 1..Len(keyboard.keys) : Named(keyboard.keys[i]),
         NEW m \in {"off", "menu", "recording", "saving", "kept"}, NEW f \in MaybeFiles
  PROVE  /\ Key \in Keys /\ Named(Key)
         /\ Became(m, f) =>
              /\ keyboard' \in Keyboards /\ keyboard'.mode = m /\ keyboard'.file = f
              /\ \A i \in 1..Len(keyboard'.keys) : Named(keyboard'.keys[i])
<1>1. keyboard.keys \in Seq(Keys)
  BY DEF Keyboards
<1>2. /\ Key \in Keys /\ Key = keyboard.keys[1] /\ Len(keyboard.keys) \in Nat \ {0}
      /\ Tail(keyboard.keys) \in Seq(Keys)
      /\ Len(Tail(keyboard.keys)) = Len(keyboard.keys) - 1
      /\ \A i \in 1..Len(Tail(keyboard.keys)) :
           Tail(keyboard.keys)[i] = keyboard.keys[i + 1]
  BY <1>1, HeadTailProperties, EmptySeq, LenProperties DEF Key
<1>3. Named(Key) /\ \A i \in 1..Len(Tail(keyboard.keys)) : Named(Tail(keyboard.keys)[i])
  BY <1>2
<1> DEFINE t == Tail(keyboard.keys)
<1> HIDE DEF t
<1>4. ASSUME Became(m, f)
      PROVE  /\ keyboard' \in Keyboards /\ keyboard'.mode = m /\ keyboard'.file = f
             /\ keyboard'.keys = t
  <2>1. t \in Seq(Keys)
    BY <1>2 DEF t
  <2>2. keyboard' = [keyboard EXCEPT !.mode = m, !.file = f, !.keys = t]
    BY <1>4 DEF Became, t
  <2> QED  BY <2>1, <2>2 DEF Keyboards
<1> QED  BY <1>2, <1>3, <1>4 DEF t

\* A step of a handler that touches its own job and nothing that is typed.
LEMMA HandlerTypes ==
  ASSUME ConsoleTypes, NEW b \in Browsers, NEW c \in Steps \ NeedsFile,
         Done(b) \/ GoesOn(b, c)
  PROVE  /\ job' \in [Browsers -> Jobs]
         /\ \A d \in Browsers : job'[d].command \in NeedsFile => job'[d].file \in Files
BY JobStep DEF ConsoleTypes, TypeInv, FilesKnown

\* Accepting a command: the browser names the file where one is needed.
LEMMA AcceptTypes ==
  ASSUME ConsoleTypes, NEW b \in Browsers, Accept(b)
  PROVE  ConsoleTypes'
<1> PICK c \in Commands, f \in MaybeFiles :
      /\ c \in OfFile <=> f # NoFile
      /\ job' = [d \in Browsers |->
           IF d # b THEN [job[d] EXCEPT !.alone = @ /\ c \notin Offline]
           ELSE Job(c, f, IF c = "save" THEN console.revision ELSE Absent,
                    c = "planner" /\ NobodyElse(b))]
  BY DEF Accept, MaybeFiles
<1> DEFINE e == IF c = "save" THEN console.revision ELSE Absent
           a == c = "planner" /\ NobodyElse(b)
<1>1. e \in Revisions
  BY NothingTypes DEF ConsoleTypes, TypeInv
<1>2. a \in BOOLEAN
  BY Zenon
<1> HIDE DEF e, a
<1>3. Job(c, f, e, a) \in Jobs /\ Job(c, f, e, a).command = c /\ Job(c, f, e, a).file = f
  BY <1>1, <1>2 DEF Job, Jobs, Steps
<1>4. job'[b] = Job(c, f, e, a)
  BY DEF e, a
<1>5. ASSUME NEW d \in Browsers \ {b}
      PROVE  /\ job'[d] \in Jobs
             /\ job'[d].command = job[d].command /\ job'[d].file = job[d].file
  <2> DEFINE v == job[d].alone /\ c \notin Offline
  <2>1. job[d] \in Jobs
    BY DEF ConsoleTypes, TypeInv
  <2>2. v \in BOOLEAN
    BY Zenon
  <2>3. job'[d] = [job[d] EXCEPT !.alone = v]
    BY Zenon
  <2> HIDE DEF v
  <2> QED  BY <2>1, <2>2, <2>3 DEF Jobs
<1>6. job' \in [Browsers -> Jobs]
  <2>1. \A d \in Browsers : job'[d] \in Jobs
    BY <1>3, <1>4, <1>5
  <2>2. job' = [d \in Browsers |-> job'[d]]
    BY Zenon
  <2> QED  BY <2>1, <2>2, Zenon
<1>7. \A d \in Browsers : job'[d].command \in NeedsFile => job'[d].file \in Files
  <2>1. c \in NeedsFile => f \in Files
    BY DEF NeedsFile, Commands, OfFile, MaybeFiles
  <2> QED  BY <1>3, <1>4, <1>5, <2>1 DEF ConsoleTypes, FilesKnown
<1>8. UNCHANGED <<disk, writes, running, console, generation, recording, keyboard,
                  poll, graph>>
  BY DEF Accept
<1> QED  BY <1>6, <1>7, <1>8 DEF ConsoleTypes, TypeInv, FilesKnown

\* The commands about topology files and their generation.
LEMMA FileTypes ==
  ASSUME ConsoleTypes, NEW b \in Browsers,
         \/ selectTopologyFile(b) \/ SaveCompares(b) \/ SaveWrites(b)
         \/ GenerationStarts(b) \/ GenerationNoted(b)
  PROVE  ConsoleTypes'
<1>0. {"write", "idle"} \subseteq Steps \ NeedsFile /\ "generating" \in Steps
  BY DEF Steps, NeedsFile, OfFile
<1>1. CASE selectTopologyFile(b)
  <2>1. job[b].file \in MaybeFiles
    BY DEF ConsoleTypes, TypeInv, Jobs
  <2>2. job[b].file # NoFile => disk[job[b].file] \in Revisions
    BY <2>1 DEF ConsoleTypes, TypeInv, MaybeFiles
  <2>3. console' \in [path : MaybeFiles, revision : Revisions]
    BY <1>1, <2>1, <2>2, NothingTypes DEF selectTopologyFile
  <2>4. Done(b)
    BY <1>1 DEF selectTopologyFile
  <2> QED  BY <1>0, <1>1, <2>3, <2>4, HandlerTypes
           DEF selectTopologyFile, ConsoleTypes, TypeInv, FilesKnown
<1>2. CASE SaveCompares(b)
  <2>1. Done(b) \/ GoesOn(b, "write")
    BY <1>2 DEF SaveCompares
  <2> QED  BY <1>0, <1>2, <2>1, HandlerTypes
           DEF SaveCompares, ConsoleTypes, TypeInv, FilesKnown
<1>3. CASE SaveWrites(b)
  <2>1. /\ disk' \in [Files -> Revisions] /\ writes' \in 1..MaxWrites
        /\ console' \in [path : MaybeFiles, revision : Revisions]
    <3>1. CASE console.path = NoFile
      BY <1>3, <3>1 DEF SaveWrites, ConsoleTypes, TypeInv
    <3>2. CASE console.path # NoFile
      <4>1. /\ console.path \in Files /\ Write(console.path)
            /\ console' = [console EXCEPT !.revision = writes + 1]
        BY <1>3, <3>2 DEF SaveWrites, ConsoleTypes, TypeInv, MaybeFiles
      <4>2. writes + 1 \in Revisions
        BY <4>1, ConsoleAssumption DEF Write, ConsoleTypes, TypeInv, Revisions, Absent
      <4> QED  BY <4>1, <4>2, WriteType DEF ConsoleTypes, TypeInv
    <3> QED  BY <3>1, <3>2
  <2>2. Done(b)
    BY <1>3 DEF SaveWrites
  <2> QED  BY <1>0, <1>3, <2>1, <2>2, HandlerTypes
           DEF SaveWrites, ConsoleTypes, TypeInv, FilesKnown
<1>4. CASE GenerationStarts(b)
  <2>1. CASE running.generation
    BY <1>0, <1>4, <2>1, HandlerTypes
       DEF GenerationStarts, ConsoleTypes, TypeInv, FilesKnown
  <2>2. CASE ~running.generation
    <3>1. job[b].file \in Files
      BY <1>4 DEF GenerationStarts, ConsoleTypes, FilesKnown, NeedsFile, OfFile
    <3>2. disk' \in [Files -> Revisions]
      BY <1>4, <2>2, <3>1, NothingTypes DEF GenerationStarts, ConsoleTypes, TypeInv
    <3>3. generation' \in Generations /\ generation'.file \in Files
      BY <1>4, <2>2, <3>1
         DEF GenerationStarts, ConsoleTypes, TypeInv, Generations, MaybeFiles
    <3>4. running' \in [Processes -> BOOLEAN] /\ running'.recording = running.recording
      BY <1>4, <2>2, RunsType DEF GenerationStarts, ConsoleTypes, TypeInv, Processes
    <3>5. /\ job' \in [Browsers -> Jobs]
          /\ \A d \in Browsers : job'[d].command \in NeedsFile => job'[d].file \in Files
      BY <1>0, <1>4, <2>2, <3>1, JobStep
         DEF GenerationStarts, ConsoleTypes, TypeInv, FilesKnown
    <3> QED  BY <1>4, <3>2, <3>3, <3>4, <3>5
             DEF GenerationStarts, ConsoleTypes, TypeInv, FilesKnown
  <2> QED  BY <2>1, <2>2
<1>5. CASE GenerationNoted(b)
  <2>1. generation' \in Generations /\ generation'.file = generation.file
    BY <1>5 DEF GenerationNoted, ConsoleTypes, TypeInv, Generations, Jobs
  <2>2. Done(b)
    BY <1>5 DEF GenerationNoted
  <2> QED  BY <1>0, <1>5, <2>1, <2>2, HandlerTypes
           DEF GenerationNoted, ConsoleTypes, TypeInv, FilesKnown
<1> QED  BY <1>1, <1>2, <1>3, <1>4, <1>5

\* The commands about the planner chain and the loop patrol.
LEMMA ChainTypes ==
  ASSUME ConsoleTypes, NEW b \in Browsers,
         \/ PlannerReads(b) \/ PlannerStarts(b) \/ StopEndsPatrol(b)
         \/ StopEndsPlanner(b) \/ startLoopPatrol(b) \/ stopLoopPatrol(b)
  PROVE  ConsoleTypes'
<1>0. {"idle", "stopping", "starting planner"} \subseteq Steps \ NeedsFile
  BY DEF Steps, NeedsFile, OfFile
<1>1. CASE PlannerReads(b)
  <2> DEFINE j == [job[b] EXCEPT !.command = "starting planner", !.file = console.path]
  <2>1. j \in Jobs /\ j.command = "starting planner"
    BY <1>0 DEF ConsoleTypes, TypeInv, Jobs
  <2>2. job' = [job EXCEPT ![b] = j]
    BY <1>1 DEF PlannerReads, ConsoleTypes, TypeInv
  <2> HIDE DEF j
  <2>3. /\ job' \in [Browsers -> Jobs]
        /\ \A d \in Browsers : job'[d].command \in NeedsFile => job'[d].file \in Files
    BY <1>0, <2>1, <2>2 DEF ConsoleTypes, TypeInv, FilesKnown
  <2> QED  BY <1>1, <2>3 DEF PlannerReads, ConsoleTypes, TypeInv, FilesKnown
<1>2. CASE ~PlannerReads(b)
  <2>1. Done(b) \/ GoesOn(b, "stopping")
    BY <1>2 DEF PlannerStarts, StopEndsPatrol, StopEndsPlanner, startLoopPatrol,
                stopLoopPatrol
  <2>2. \A p \in {"planner", "loop_patrol"}, v \in BOOLEAN : Runs(p, v) =>
          /\ running' \in [Processes -> BOOLEAN]
          /\ running'.recording = running.recording
          /\ running'.generation = running.generation
    BY RunsType DEF ConsoleTypes, TypeInv, Processes
  <2>3. /\ running' \in [Processes -> BOOLEAN]
        /\ running'.recording = running.recording
        /\ running'.generation = running.generation
        /\ UNCHANGED <<disk, writes, console, generation, recording, keyboard, poll>>
    BY <1>2, <2>2 DEF PlannerStarts, StopEndsPatrol, StopEndsPlanner, startLoopPatrol,
                      stopLoopPatrol, ConsoleTypes, TypeInv
  <2>4. graph' \in Graphs
    <3> DEFINE v == job[b].alone /\ ~Unsettled /\ job[b].file = console.path
               g == [file |-> job[b].file, revision |-> Absent, alone |-> v]
    <3>1. job[b].file \in MaybeFiles /\ Absent \in Revisions
      BY NothingTypes DEF ConsoleTypes, TypeInv, Jobs
    <3>2. v \in BOOLEAN
      BY Zenon
    <3>3. graph' \in {graph, NoGraph, g}
      BY <1>2 DEF PlannerStarts, StopEndsPatrol, StopEndsPlanner, startLoopPatrol,
                  stopLoopPatrol
    <3> HIDE DEF v
    <3>4. g \in Graphs
      BY <3>1, <3>2 DEF Graphs
    <3> HIDE DEF g
    <3> QED  BY <3>3, <3>4, NothingTypes DEF ConsoleTypes, TypeInv
  <2> QED  BY <1>0, <2>1, <2>3, <2>4, HandlerTypes DEF ConsoleTypes, TypeInv, FilesKnown
<1> QED  BY <1>1, <1>2

\* The commands about the recording.
LEMMA RecordingTypes ==
  ASSUME ConsoleTypes, NEW b \in Browsers,
         \/ RecordingStarts(b) \/ RecordingMenu(b) \/ RecordingConfirmed(b)
         \/ RecordingFails(b) \/ RecordingStops(b) \/ NameIsTyped(b)
         \/ RecordingAborts(b) \/ AbortNoted(b)
  PROVE  ConsoleTypes'
<1>0. /\ {"idle", "menu", "confirm", "aborting"} \subseteq Steps \ NeedsFile
      /\ "type name" \in Steps /\ NoFile \in MaybeFiles
  BY DEF Steps, NeedsFile, OfFile, MaybeFiles
<1>1. /\ keyboard \in Keyboards
      /\ \A i \in 1..Len(keyboard.keys) : Named(keyboard.keys[i])
  BY DEF ConsoleTypes, TypeInv, FilesKnown
<1>2. \A v \in BOOLEAN : Runs("recording", v) =>
        /\ running' \in [Processes -> BOOLEAN] /\ running'.recording = v
        /\ running'.generation = running.generation
  BY RunsType DEF ConsoleTypes, TypeInv, Processes
<1>3. CASE RecordingStarts(b)
  <2>1. CASE running.recording
    BY <1>0, <1>3, <2>1, HandlerTypes
       DEF RecordingStarts, ConsoleTypes, TypeInv, FilesKnown
  <2>2. CASE ~running.recording
    <3>1. /\ keyboard' \in Keyboards /\ keyboard'.mode = "menu" /\ keyboard'.keys = <<>>
      BY <1>3, <2>2, NothingTypes DEF RecordingStarts, Keyboards
    <3>2. recording' \in Recordings /\ recording'.state = "starting"
      <4>1. recording' = [state |-> "starting", name |-> NoFile]
        BY <1>3, <2>2 DEF RecordingStarts
      <4> QED  BY <1>0, <4>1 DEF Recordings
    <3>3. GoesOn(b, "menu") /\ Runs("recording", TRUE)
      BY <1>3, <2>2 DEF RecordingStarts
    <3>4. \A i \in 1..Len(keyboard'.keys) : Named(keyboard'.keys[i])
      BY <3>1
    <3> QED  BY <1>0, <1>2, <1>3, <3>1, <3>2, <3>3, <3>4, HandlerTypes
             DEF RecordingStarts, ConsoleTypes, TypeInv, FilesKnown
  <2> QED  BY <2>1, <2>2
<1>4. CASE RecordingMenu(b)
  <2>1. GoesOn(b, "confirm") /\ Types(Typed("1", NoFile))
    BY <1>4 DEF RecordingMenu
  <2>2. /\ keyboard' \in Keyboards
        /\ keyboard'.mode = keyboard.mode /\ keyboard'.file = keyboard.file
        /\ \A i \in 1..Len(keyboard'.keys) : Named(keyboard'.keys[i])
    BY <1>0, <1>1, <2>1, TypedType
  <2> QED  BY <1>0, <1>4, <2>1, <2>2, HandlerTypes
           DEF RecordingMenu, ConsoleTypes, TypeInv, FilesKnown
<1>5. CASE RecordingConfirmed(b)
  <2>1. recording' \in Recordings /\ recording'.state = "recording"
    BY <1>5 DEF RecordingConfirmed, ConsoleTypes, TypeInv, Recordings
  <2>2. Done(b)
    BY <1>5 DEF RecordingConfirmed
  <2> QED  BY <1>0, <1>5, <2>1, <2>2, HandlerTypes
           DEF RecordingConfirmed, ConsoleTypes, TypeInv, FilesKnown
<1>6. CASE RecordingFails(b)
  <2>1. recording' \in Recordings /\ recording'.state = "error"
    BY <1>6 DEF RecordingFails, ConsoleTypes, TypeInv, Recordings
  <2>2. Done(b) /\ Runs("recording", FALSE) /\ keyboard' = NoKeyboard
    BY <1>6 DEF RecordingFails, Exits
  <2>3. /\ keyboard' \in Keyboards /\ keyboard'.mode = "off"
        /\ \A i \in 1..Len(keyboard'.keys) : Named(keyboard'.keys[i])
    BY <2>2, NothingTypes
  <2>4. /\ job' \in [Browsers -> Jobs]
        /\ \A d \in Browsers : job'[d].command \in NeedsFile => job'[d].file \in Files
    BY <1>0, <2>2, HandlerTypes
  <2> QED  BY <1>2, <1>6, <2>1, <2>2, <2>3, <2>4
           DEF RecordingFails, ConsoleTypes, TypeInv, FilesKnown
<1>7. CASE RecordingStops(b)
  <2>1. job[b].file \in Files
    BY <1>7 DEF RecordingStops, ConsoleTypes, FilesKnown, NeedsFile, OfFile
  <2>2. recording' \in Recordings /\ recording'.name \in Files
    BY <1>7, <2>1 DEF RecordingStops, Recordings, MaybeFiles
  <2>3. /\ job' \in [Browsers -> Jobs]
        /\ \A d \in Browsers : job'[d].command \in NeedsFile => job'[d].file \in Files
    BY <1>0, <1>7, <2>1, JobStep DEF RecordingStops, ConsoleTypes, TypeInv, FilesKnown
  <2> QED  BY <1>7, <2>2, <2>3 DEF RecordingStops, ConsoleTypes, TypeInv, FilesKnown
<1>8. CASE NameIsTyped(b)
  <2>1. job[b].file \in Files
    BY <1>8 DEF NameIsTyped, ConsoleTypes, FilesKnown, NeedsFile
  <2>2. /\ keyboard' \in Keyboards
        /\ keyboard'.mode = keyboard.mode /\ keyboard'.file = keyboard.file
        /\ \A i \in 1..Len(keyboard'.keys) : Named(keyboard'.keys[i])
    BY <1>1, <1>8, <2>1, TypedType DEF NameIsTyped, MaybeFiles
  <2>3. Done(b)
    BY <1>8 DEF NameIsTyped
  <2> QED  BY <1>0, <1>8, <2>2, <2>3, HandlerTypes
           DEF NameIsTyped, ConsoleTypes, TypeInv, FilesKnown
<1>9. CASE RecordingAborts(b)
  <2>1. /\ keyboard' \in Keyboards
        /\ keyboard'.mode = keyboard.mode /\ keyboard'.file = keyboard.file
        /\ \A i \in 1..Len(keyboard'.keys) : Named(keyboard'.keys[i])
    BY <1>0, <1>1, <1>9, TypedType DEF RecordingAborts
  <2>2. GoesOn(b, "aborting")
    BY <1>9 DEF RecordingAborts
  <2> QED  BY <1>0, <1>9, <2>1, <2>2, HandlerTypes
           DEF RecordingAborts, ConsoleTypes, TypeInv, FilesKnown
<1>10. CASE AbortNoted(b)
  <2>1. recording' \in Recordings /\ recording'.state = "aborted"
    BY <1>0, <1>10 DEF AbortNoted, Recordings
  <2>2. Done(b)
    BY <1>10 DEF AbortNoted
  <2> QED  BY <1>0, <1>10, <2>1, <2>2, HandlerTypes
           DEF AbortNoted, ConsoleTypes, TypeInv, FilesKnown
<1> QED  BY <1>3, <1>4, <1>5, <1>6, <1>7, <1>8, <1>9, <1>10

\* The generation's process and its poll.
LEMMA GenerationTypes ==
  ASSUME ConsoleTypes,
         GenerationWrites \/ GenerationExits \/ pollTopologyGeneration
  PROVE  ConsoleTypes'
<1>1. CASE GenerationWrites
  <2>1. generation.file \in Files
    BY <1>1 DEF GenerationWrites, ConsoleTypes, FilesKnown
  <2>2. disk' \in [Files -> Revisions] /\ writes' \in 1..MaxWrites
    BY <1>1, <2>1, WriteType DEF GenerationWrites, ConsoleTypes, TypeInv
  <2>3. generation' \in Generations /\ generation'.file = generation.file
    BY <1>1 DEF GenerationWrites, ConsoleTypes, TypeInv, Generations
  <2> QED  BY <1>1, <2>2, <2>3 DEF GenerationWrites, ConsoleTypes, TypeInv, FilesKnown
<1>2. CASE GenerationExits
  <2>1. /\ running' \in [Processes -> BOOLEAN] /\ ~running'.generation
        /\ running'.recording = running.recording
    BY <1>2, RunsType DEF GenerationExits, ConsoleTypes, TypeInv, Processes
  <2> QED  BY <1>2, <2>1 DEF GenerationExits, ConsoleTypes, TypeInv, FilesKnown
<1>3. CASE pollTopologyGeneration
  <2>1. generation' \in Generations /\ generation'.file = generation.file
    BY <1>3 DEF pollTopologyGeneration, ConsoleTypes, TypeInv, Generations
  <2>2. Stored(generation.output) => /\ generation.output \in Files
                                     /\ disk[generation.output] \in Revisions
    BY DEF Stored, ConsoleTypes, TypeInv, Generations, MaybeFiles
  <2>3. console' \in [path : MaybeFiles, revision : Revisions]
    BY <1>3, <2>2 DEF pollTopologyGeneration, ConsoleTypes, TypeInv, MaybeFiles
  <2> QED  BY <1>3, <2>1, <2>3
           DEF pollTopologyGeneration, ConsoleTypes, TypeInv, FilesKnown
<1> QED  BY <1>1, <1>2, <1>3

\* The keyboard process.
LEMMA KeyboardTypes ==
  ASSUME ConsoleTypes, ReadsKey \/ SessionSaved \/ SavingFails \/ LogCallback
  PROVE  ConsoleTypes'
<1>0. /\ keyboard \in Keyboards /\ NoFile \in MaybeFiles
      /\ \A i \in 1..Len(keyboard.keys) : Named(keyboard.keys[i])
  BY DEF ConsoleTypes, TypeInv, FilesKnown, MaybeFiles
<1>1. CASE ReadsKey
  <2>1. /\ keyboard.mode \in {"menu", "recording", "kept"} /\ keyboard.keys # <<>>
        /\ UNCHANGED <<disk, writes, console, job, generation, recording, poll, graph>>
    BY <1>1 DEF ReadsKey
  <2>2. Key \in Keys /\ Named(Key)
    BY <1>0, <2>1, KeyRead
  <2>3. CASE Exits
    <3>1. /\ running' \in [Processes -> BOOLEAN] /\ running'.recording = FALSE
          /\ running'.generation = running.generation
      BY <2>3, RunsType DEF Exits, ConsoleTypes, TypeInv, Processes
    <3>2. /\ keyboard' \in Keyboards /\ keyboard'.mode = "off"
          /\ \A i \in 1..Len(keyboard'.keys) : Named(keyboard'.keys[i])
      BY <2>3, NothingTypes DEF Exits
    <3> QED  BY <2>1, <3>1, <3>2 DEF ConsoleTypes, TypeInv, FilesKnown
  <2>4. CASE Begins /\ UNCHANGED running
    <3>1. /\ keyboard.keys \in Seq(Keys) /\ Len(keyboard.keys) \in Nat \ {0}
          /\ Tail(keyboard.keys) \in Seq(Keys)
          /\ Len(Tail(keyboard.keys)) = Len(keyboard.keys) - 1
          /\ \A i \in 1..Len(Tail(keyboard.keys)) :
               Tail(keyboard.keys)[i] = keyboard.keys[i + 1]
      BY <1>0, <2>1, HeadTailProperties, EmptySeq, LenProperties DEF Keyboards
    <3> DEFINE t == Tail(keyboard.keys)
    <3>2. t \in Seq(Keys) /\ \A i \in 1..Len(t) : Named(t[i])
      BY <1>0, <3>1
    <3>3. keyboard' = [keyboard EXCEPT !.mode = "recording", !.file = NoFile, !.keys = t,
                                       !.began = TRUE]
      BY <2>4 DEF Begins
    <3> HIDE DEF t
    <3>4. /\ keyboard' \in Keyboards /\ keyboard'.mode = "recording"
          /\ keyboard'.keys = t
      BY <1>0, <3>2, <3>3 DEF Keyboards
    <3> QED  BY <2>1, <2>4, <3>2, <3>4 DEF ConsoleTypes, TypeInv, FilesKnown
  <2>5. CASE \/ PressOne /\ ~Begins
             \/ PressTwo
             \/ PressQ /\ keyboard.mode = "recording"
    <3>1. UNCHANGED running
      BY <2>5 DEF PressOne, PressTwo, PressQ
    <3>2. PICK m \in {"menu", "recording", "saving", "kept"}, f \in MaybeFiles :
            Became(m, f) /\ (m = "saving" => f \in Files)
      <4>1. CASE PressOne /\ ~Begins
        BY <1>0, <2>1, <4>1 DEF PressOne
      <4>2. CASE PressTwo
        <5>1. Key.name \in Files
          BY <2>2, <4>2 DEF PressTwo, Named
        <5> QED  BY <2>1, <4>2, <5>1 DEF PressTwo, MaybeFiles
      <4>3. CASE PressQ /\ keyboard.mode = "recording"
        BY <1>0, <4>3 DEF PressQ
      <4> QED  BY <2>5, <4>1, <4>2, <4>3
    <3>3. /\ keyboard' \in Keyboards /\ keyboard'.mode = m /\ keyboard'.file = f
          /\ \A i \in 1..Len(keyboard'.keys) : Named(keyboard'.keys[i])
      BY <1>0, <2>1, <3>2, KeyRead
    <3>4. m # "off" /\ keyboard.mode # "off"
      BY <2>1
    <3> QED  BY <2>1, <3>1, <3>2, <3>3, <3>4 DEF ConsoleTypes, TypeInv, FilesKnown
  <2> QED  BY <1>1, <2>3, <2>4, <2>5 DEF ReadsKey, PressOne, PressThree, PressQ
<1>2. CASE SessionSaved
  <2>1. keyboard.file \in Files
    BY <1>2 DEF SessionSaved, ConsoleTypes, FilesKnown
  <2>2. disk' \in [Files -> Revisions] /\ writes' \in 1..MaxWrites
    BY <1>2, <2>1, WriteType DEF SessionSaved, ConsoleTypes, TypeInv
  <2>3. /\ keyboard' \in Keyboards /\ keyboard'.mode = "menu"
        /\ keyboard'.keys = keyboard.keys
    BY <1>0, <1>2 DEF SessionSaved, Keyboards
  <2> QED  BY <1>2, <2>2, <2>3 DEF SessionSaved, ConsoleTypes, TypeInv, FilesKnown
<1>3. CASE SavingFails
  <2>1. /\ keyboard' \in Keyboards /\ keyboard'.mode = "kept"
        /\ keyboard'.keys = keyboard.keys
    BY <1>0, <1>3 DEF SavingFails, Keyboards
  <2> QED  BY <1>3, <2>1 DEF SavingFails, ConsoleTypes, TypeInv, FilesKnown
<1>4. CASE LogCallback
  <2>1. /\ keyboard' \in Keyboards /\ keyboard'.mode = keyboard.mode
        /\ keyboard'.file = keyboard.file /\ keyboard'.keys = keyboard.keys
    BY <1>0, <1>4 DEF LogCallback, Keyboards
  <2>2. recording' \in Recordings /\ recording'.state = "error"
    BY <1>4 DEF LogCallback, ConsoleTypes, TypeInv, Recordings
  <2> QED  BY <1>4, <2>1, <2>2 DEF LogCallback, ConsoleTypes, TypeInv, FilesKnown
<1> QED  BY <1>1, <1>2, <1>3, <1>4

\* The poll of the recording.
LEMMA PollTypes ==
  ASSUME ConsoleTypes, PollReads \/ PollActs
  PROVE  ConsoleTypes'
<1>1. CASE PollReads
  <2>1. poll' \in Polled /\ poll'.state = "processing" /\ poll'.name \in Files
    BY <1>1 DEF PollReads, ConsoleTypes, FilesKnown, Polled, MaybeFiles
  <2> QED  BY <1>1, <2>1 DEF PollReads, ConsoleTypes, TypeInv, FilesKnown
<1>2. CASE PollActs
  <2>0. poll' = NoPoll /\ poll.name \in Files /\ NoFile \in MaybeFiles
    BY <1>2 DEF PollActs, ConsoleTypes, FilesKnown, MaybeFiles
  <2>1. UNCHANGED <<disk, writes, running, job, generation, graph>>
    BY <1>2 DEF PollActs
  <2>2. CASE PollSaves
    <3>1. console' \in [path : MaybeFiles, revision : Revisions]
      BY <2>0, <2>2 DEF PollSaves, ConsoleTypes, TypeInv, MaybeFiles
    <3>2. recording' \in Recordings /\ recording'.state = "saved"
      <4>1. recording' = [state |-> "saved", name |-> NoFile]
        BY <2>2 DEF PollSaves
      <4> QED  BY <2>0, <4>1 DEF Recordings
    <3>3. /\ keyboard' \in Keyboards
          /\ keyboard'.mode = keyboard.mode /\ keyboard'.file = keyboard.file
          /\ \A i \in 1..Len(keyboard'.keys) : Named(keyboard'.keys[i])
      BY <2>0, <2>2, TypedType DEF PollSaves, ConsoleTypes, TypeInv, FilesKnown
    <3> QED  BY <2>0, <2>1, <3>1, <3>2, <3>3, NothingTypes
             DEF ConsoleTypes, TypeInv, FilesKnown
  <2>3. CASE ~PollSaves
    <3>1. /\ UNCHANGED <<console, keyboard>>
          /\ recording' \in {recording, [recording EXCEPT !.state = "error"]}
      BY <1>2, <2>3 DEF PollActs
    <3>2. recording' \in Recordings /\ recording'.name = recording.name
          /\ recording'.state \in {recording.state, "error"}
      BY <3>1 DEF ConsoleTypes, TypeInv, Recordings
    <3> QED  BY <2>0, <2>1, <3>1, <3>2, NothingTypes
             DEF ConsoleTypes, TypeInv, FilesKnown
  <2> QED  BY <2>2, <2>3
<1> QED  BY <1>1, <1>2

\* The chain reads its graph; a process dies.
LEMMA ProcessTypes ==
  ASSUME ConsoleTypes,
         \/ PlannerLoads
         \/ \E p \in {"planner", "loop_patrol", "recording"} : Dies(p)
  PROVE  ConsoleTypes'
<1>1. CASE PlannerLoads
  <2>1. graph.file \in Files /\ disk[graph.file] \in Revisions
    BY <1>1 DEF PlannerLoads, Stored, ConsoleTypes, TypeInv, Graphs, MaybeFiles
  <2>2. graph' \in Graphs
    BY <1>1, <2>1 DEF PlannerLoads, ConsoleTypes, TypeInv, Graphs
  <2> QED  BY <1>1, <2>2 DEF PlannerLoads, ConsoleTypes, TypeInv, FilesKnown
<1>2. ASSUME NEW p \in {"planner", "loop_patrol", "recording"}, Dies(p)
      PROVE  ConsoleTypes'
  <2>1. /\ running' \in [Processes -> BOOLEAN] /\ running'[p] = FALSE
        /\ running'.generation = running.generation
        /\ p # "recording" => running'.recording = running.recording
    BY <1>2, RunsType DEF Dies, Exits, ConsoleTypes, TypeInv, Processes
  <2>2. graph' \in Graphs /\ keyboard' \in Keyboards
    BY <1>2, NothingTypes DEF Dies, Exits, ConsoleTypes, TypeInv
  <2>3. /\ UNCHANGED <<disk, writes, console, job, generation, recording, poll>>
        /\ keyboard' = IF p = "recording" THEN NoKeyboard ELSE keyboard
    BY <1>2 DEF Dies, Exits
  <2>4. CASE p = "recording"
    <3>1. keyboard'.mode = "off" /\ running'.recording = FALSE
      BY <2>1, <2>3, <2>4, NothingTypes
    <3>2. \A i \in 1..Len(keyboard'.keys) : Named(keyboard'.keys[i])
      BY <2>3, <2>4, NothingTypes
    <3> QED  BY <2>1, <2>2, <2>3, <3>1, <3>2 DEF ConsoleTypes, TypeInv, FilesKnown
  <2>5. CASE p # "recording"
    BY <2>1, <2>2, <2>3, <2>5 DEF ConsoleTypes, TypeInv, FilesKnown
  <2> QED  BY <2>4, <2>5
<1> QED  BY <1>1, <1>2

\* The types of every variable, for every number of browsers: no handler acts on
\* a file that was not named, and the keyboard has a mode just while it runs.
THEOREM ConsoleTypesCorrect == Spec => []ConsoleTypes
<1>1. Init => ConsoleTypes
  <2> SUFFICES ASSUME Init PROVE ConsoleTypes
    OBVIOUS
  <2>1. disk \in [Files -> Revisions] /\ writes \in 1..MaxWrites
    BY ConsoleAssumption, NothingTypes DEF Init, Revisions, Absent
  <2>2. NoFile \in MaybeFiles
    BY DEF MaybeFiles
  <2>3. generation \in Generations /\ recording \in Recordings
    BY <2>2 DEF Init, Generations, Recordings
  <2>4. console \in [path : MaybeFiles, revision : Revisions]
    BY <2>2, NothingTypes DEF Init
  <2>5. job \in [Browsers -> Jobs] /\ keyboard \in Keyboards /\ poll \in Polled
        /\ graph \in Graphs
    BY NothingTypes DEF Init
  <2>6. /\ running \in [Processes -> BOOLEAN]
        /\ running.recording = FALSE /\ running.generation = FALSE
    BY DEF Init, Processes
  <2>7. /\ recording.state # "processing" /\ poll = NoPoll
        /\ keyboard.mode = "off" /\ keyboard.keys = <<>>
        /\ \A b \in Browsers : job[b].command \notin NeedsFile
    BY NothingTypes DEF Init
  <2>8. \A i \in 1..Len(keyboard.keys) : Named(keyboard.keys[i])
    BY <2>7
  <2>9. TypeInv
    BY <2>1, <2>3, <2>4, <2>5, <2>6 DEF TypeInv
  <2> QED  BY <2>6, <2>7, <2>8, <2>9 DEF ConsoleTypes, FilesKnown
<1>2. ConsoleTypes /\ [Next]_vars => ConsoleTypes'
  <2>1. ConsoleTypes /\ UNCHANGED vars => ConsoleTypes'
    BY DEF vars, ConsoleTypes, TypeInv, FilesKnown
  <2> QED  BY <2>1, AcceptTypes, FileTypes, ChainTypes, RecordingTypes,
              GenerationTypes, KeyboardTypes, PollTypes, ProcessTypes
           DEF Next, Acts, Works, Polls
<1> QED  BY <1>1, <1>2, PTL DEF Spec

-----------------------------------------------------------------------------
(* The safety of the console, for any number of browsers *)

\* A browser about to start the chain, with nothing that the chain excludes asked
\* for since its checks: none of it is under way.
StartsAlone ==
  \A b \in Browsers :
    job[b].command \in {"planner", "starting planner"} /\ job[b].alone =>
      ~running.recording /\ NobodyElse(b)

\* A chain started so: nothing will switch the selection or rewrite a file.
RunsAlone ==
  running.planner /\ graph.alone =>
    /\ ~Unsettled /\ ~running.recording
    /\ \A b \in Browsers : job[b].command \notin Offline

ConsoleInv == RuntimeGraphConsistent /\ StartsAlone /\ RunsAlone

\* The step a handler goes on to is refused while the planner runs just when the
\* step it comes from is: none becomes offline by going on.
LEMMA ActsMoves ==
  ASSUME ConsoleTypes, NEW b \in Browsers, Acts(b)
  PROVE  /\ \A d \in Browsers \ {b} : job'[d] = job[d]
         /\ job[b].command \notin Offline => job'[b].command \notin Offline
         /\ job'[b].command \in {"planner", "starting planner"} /\ job'[b].alone =>
              PlannerReads(b) /\ job[b].alone
<1>1. job[b] \in Jobs /\ Idle.command = "idle" /\ Idle.alone = FALSE
  BY DEF ConsoleTypes, TypeInv, Idle, Job
<1>2. CASE PlannerReads(b)
  <2>1. /\ \A d \in Browsers \ {b} : job'[d] = job[d]
        /\ job'[b] = [job[b] EXCEPT !.command = "starting planner", !.file = console.path]
    BY <1>2 DEF PlannerReads, ConsoleTypes, TypeInv
  <2>2. job'[b].command = "starting planner" /\ job'[b].alone = job[b].alone
    BY <1>1, <2>1 DEF Jobs
  <2> QED  BY <1>2, <2>1, <2>2 DEF Offline, OfFile
<1>3. CASE ~PlannerReads(b)
  <2> DEFINE Next1 == {"stopping", "menu", "confirm", "aborting"}
             Next2 == {"write", "generating", "type name"}
  <2>1. \/ Done(b)
        \/ \E c \in Next1 : GoesOn(b, c)
        \/ job[b].command \in {"save", "generate", "record stop"}
             /\ \E c \in Next2 : GoesOn(b, c)
    BY <1>3
       DEF Acts, selectTopologyFile, SaveCompares, SaveWrites, GenerationStarts,
           GenerationNoted, PlannerStarts, StopEndsPatrol, StopEndsPlanner,
           startLoopPatrol, stopLoopPatrol, RecordingStarts, RecordingMenu,
           RecordingConfirmed, RecordingFails, RecordingStops, NameIsTyped,
           RecordingAborts, AbortNoted
  <2>2. \A c \in Next1 \cup Next2 : GoesOn(b, c) =>
          job'[b].command = c /\ \A d \in Browsers \ {b} : job'[d] = job[d]
    <3>1. \A c \in Next1 \cup Next2 : [job[b] EXCEPT !.command = c].command = c
      BY <1>1 DEF Jobs
    <3> QED  BY <3>1 DEF GoesOn, ConsoleTypes, TypeInv
  <2>3. Done(b) => job'[b] = Idle /\ \A d \in Browsers \ {b} : job'[d] = job[d]
    BY DEF Done, ConsoleTypes, TypeInv
  <2> QED  BY <1>1, <2>1, <2>2, <2>3 DEF Offline, OfFile
<1> QED  BY <1>2, <1>3

\* What accepting a command does to the jobs.
LEMMA AcceptMoves ==
  ASSUME ConsoleTypes, NEW b \in Browsers, Accept(b)
  PROVE  \E c \in Commands, f \in MaybeFiles :
           /\ Allowed(c, f)
           /\ job'[b].command = c
           /\ job'[b].alone => c = "planner" /\ NobodyElse(b)
           /\ \A d \in Browsers \ {b} :
                /\ job'[d].command = job[d].command
                /\ job'[d].alone => job[d].alone /\ c \notin Offline
<1> PICK c \in Commands, f \in MaybeFiles :
      /\ Allowed(c, f)
      /\ job' = [d \in Browsers |->
           IF d # b THEN [job[d] EXCEPT !.alone = @ /\ c \notin Offline]
           ELSE Job(c, f, IF c = "save" THEN console.revision ELSE Absent,
                    c = "planner" /\ NobodyElse(b))]
  BY DEF Accept, MaybeFiles
<1>1. job'[b].command = c
  BY DEF Job
<1>2. job'[b].alone => c = "planner" /\ NobodyElse(b)
  BY Zenon DEF Job
<1>3. ASSUME NEW d \in Browsers \ {b}
      PROVE  /\ job'[d].command = job[d].command
             /\ job'[d].alone => job[d].alone /\ c \notin Offline
  <2> DEFINE v == job[d].alone /\ c \notin Offline
  <2>1. job[d] \in Jobs
    BY DEF ConsoleTypes, TypeInv
  <2>2. job'[d] = [job[d] EXCEPT !.alone = v]
    BY Zenon
  <2>3. v => job[d].alone /\ c \notin Offline
    BY Zenon
  <2> HIDE DEF v
  <2>4. job'[d].command = job[d].command /\ job'[d].alone = v
    BY <2>1, <2>2 DEF Jobs
  <2> QED  BY <2>3, <2>4, Zenon
<1> QED  BY <1>1, <1>2, <1>3, Zenon

\* A start that is alone stays so: what it excludes makes it a start like any other.
LEMMA StartsAloneKept ==
  ASSUME ConsoleTypes, ConsoleInv, [Next]_vars
  PROVE  StartsAlone'
<1>1. \A p \in Processes, v \in BOOLEAN : Runs(p, v) =>
        running'.recording = IF p = "recording" THEN v ELSE running.recording
  BY RunsType DEF ConsoleTypes, TypeInv, Processes
<1>2. ASSUME UNCHANGED job, running'.recording \in {running.recording, FALSE}
      PROVE  StartsAlone'
  BY <1>2 DEF ConsoleInv, StartsAlone, NobodyElse
<1>3. ASSUME NEW b \in Browsers, Accept(b)
      PROVE  StartsAlone'
  <2> SUFFICES ASSUME NEW d \in Browsers,
                      job'[d].command \in {"planner", "starting planner"}, job'[d].alone
               PROVE  ~running'.recording /\ \A e \in Browsers \ {d} : job'[e].command \notin Offline
    BY DEF StartsAlone, NobodyElse
  <2>1. PICK c \in Commands, f \in MaybeFiles :
          /\ Allowed(c, f)
          /\ job'[b].command = c
          /\ job'[b].alone => c = "planner" /\ NobodyElse(b)
          /\ \A e \in Browsers \ {b} :
               /\ job'[e].command = job[e].command
               /\ job'[e].alone => job[e].alone /\ c \notin Offline
    BY <1>3, AcceptMoves
  <2>2. UNCHANGED running
    BY <1>3 DEF Accept
  <2>3. CASE d = b
    <3>1. ~running.recording
      BY <2>1, <2>3 DEF Allowed, CanStartPlanner
    <3> QED  BY <2>1, <2>2, <2>3, <3>1 DEF NobodyElse
  <2>4. CASE d # b
    <3>1. job[d].alone /\ c \notin Offline /\ job'[d].command = job[d].command
      BY <2>1, <2>4
    <3>2. ~running.recording /\ NobodyElse(d)
      BY <3>1 DEF ConsoleInv, StartsAlone
    <3> QED  BY <2>1, <2>2, <3>1, <3>2 DEF NobodyElse
  <2> QED  BY <2>3, <2>4
<1>4. ASSUME NEW b \in Browsers, Acts(b)
      PROVE  StartsAlone'
  <2> SUFFICES ASSUME NEW d \in Browsers,
                      job'[d].command \in {"planner", "starting planner"}, job'[d].alone
               PROVE  ~running'.recording /\ \A e \in Browsers \ {d} : job'[e].command \notin Offline
    BY DEF StartsAlone, NobodyElse
  <2>1. job[d].command \in {"planner", "starting planner"} /\ job[d].alone
    <3>1. CASE d = b
      BY <1>4, <3>1, ActsMoves DEF PlannerReads
    <3>2. CASE d # b
      BY <1>4, <3>2, ActsMoves
    <3> QED  BY <3>1, <3>2
  <2>2. ~running.recording /\ NobodyElse(d)
    BY <2>1 DEF ConsoleInv, StartsAlone
  <2>3. \A e \in Browsers \ {d} : job'[e].command \notin Offline
    BY <1>4, <2>2, ActsMoves DEF NobodyElse
  <2>4. ~RecordingStarts(b)
    <3>1. job[b].command # "record"
      BY <2>1, <2>2 DEF NobodyElse, Offline
    <3> QED  BY <3>1 DEF RecordingStarts
  <2>5. running'.recording \in {running.recording, FALSE}
    BY <1>1, <1>4, <2>4
       DEF Acts, selectTopologyFile, SaveCompares, SaveWrites, GenerationStarts,
           GenerationNoted, PlannerReads, PlannerStarts, StopEndsPatrol, StopEndsPlanner,
           startLoopPatrol, stopLoopPatrol, RecordingMenu, RecordingConfirmed,
           RecordingFails, RecordingStops, NameIsTyped, RecordingAborts, AbortNoted,
           Exits, Processes
  <2> QED  BY <2>2, <2>3, <2>5
<1>5. Works => UNCHANGED job /\ running'.recording \in {running.recording, FALSE}
  BY <1>1 DEF Works, PlannerLoads, GenerationWrites, GenerationExits, ReadsKey, PressOne,
              PressTwo, PressThree, PressQ, Exits, SessionSaved, SavingFails, LogCallback,
              Processes
<1>6. Polls => UNCHANGED <<job, running>>
  BY DEF Polls, pollTopologyGeneration, PollReads, PollActs
<1>7. \A p \in {"planner", "loop_patrol", "recording"} : Dies(p) =>
        UNCHANGED job /\ running'.recording \in {running.recording, FALSE}
  BY <1>1 DEF Dies, Exits, Processes
<1> QED  BY <1>2, <1>3, <1>4, <1>5, <1>6, <1>7 DEF Next, vars

\* While no chain runs after the step, that is all there is to say.
LEMMA StoppedInv ==
  ASSUME ConsoleTypes, ConsoleInv, [Next]_vars, ~running'.planner
  PROVE  ConsoleInv'
BY StartsAloneKept DEF ConsoleInv, RuntimeGraphConsistent, RunsAlone

\* The chain is started: alone, if the start is and if all is settled.
LEMMA StartedInv ==
  ASSUME ConsoleTypes, ConsoleInv, [Next]_vars, ~running.planner, running'.planner
  PROVE  ConsoleInv'
<1>1. \A p \in Processes, v \in BOOLEAN : Runs(p, v) /\ p # "planner" =>
        running'.planner = running.planner
  BY RunsType DEF ConsoleTypes, TypeInv, Processes
<1>2. Runs("planner", FALSE) => ~running'.planner
  BY RunsType DEF ConsoleTypes, TypeInv, Processes
<1>3. PICK b \in Browsers : PlannerStarts(b)
  <2>1. \A b \in Browsers : ~Accept(b)
    BY DEF Accept
  <2>2. \A b \in Browsers : Acts(b) => PlannerStarts(b)
    BY <1>1, <1>2
       DEF Acts, selectTopologyFile, SaveCompares, SaveWrites, GenerationStarts,
           GenerationNoted, PlannerReads, StopEndsPatrol, StopEndsPlanner,
           startLoopPatrol, stopLoopPatrol, RecordingStarts, RecordingMenu,
           RecordingConfirmed, RecordingFails, RecordingStops, NameIsTyped,
           RecordingAborts, AbortNoted, Exits, Processes
  <2>3. ~Works
    BY <1>1 DEF Works, PlannerLoads, GenerationWrites, GenerationExits, ReadsKey,
           PressOne, PressTwo, PressThree, PressQ, Exits, SessionSaved, SavingFails,
           LogCallback, Processes
  <2>4. ~Polls
    BY DEF Polls, pollTopologyGeneration, PollReads, PollActs
  <2>5. \A p \in {"planner", "loop_patrol", "recording"} : ~Dies(p)
    BY <1>1, <1>2 DEF Dies, Exits, Processes
  <2>6. ~UNCHANGED vars
    BY DEF vars
  <2> QED  BY <2>1, <2>2, <2>3, <2>4, <2>5, <2>6 DEF Next
<1>4. /\ job[b].command = "starting planner" /\ Done(b) /\ Runs("planner", TRUE)
      /\ UNCHANGED <<disk, writes, console, generation, recording, keyboard, poll>>
      /\ graph' = [file |-> job[b].file, revision |-> Absent,
                   alone |-> job[b].alone /\ ~Unsettled /\ job[b].file = console.path]
  BY <1>3 DEF PlannerStarts
<1>5. graph'.file = job[b].file /\ graph'.revision = Absent
  BY <1>4
<1>6. graph'.alone => job[b].alone /\ ~Unsettled /\ job[b].file = console.path
  BY <1>4, Zenon
<1>7. /\ running'.recording = running.recording
      /\ running'.generation = running.generation
  BY <1>4, RunsType DEF ConsoleTypes, TypeInv, Processes
<1>8. Unsettled' = Unsettled
  BY <1>4, <1>7 DEF Unsettled
<1>9. ASSUME job[b].alone
      PROVE  ~running.recording /\ \A d \in Browsers : job'[d].command \notin Offline
  <2>1. ~running.recording /\ NobodyElse(b)
    BY <1>4, <1>9 DEF ConsoleInv, StartsAlone
  <2>2. job'[b].command = "idle" /\ \A d \in Browsers \ {b} : job'[d] = job[d]
    BY <1>4 DEF Done, Idle, Job, ConsoleTypes, TypeInv
  <2> QED  BY <2>1, <2>2 DEF NobodyElse, Offline, OfFile
<1>10. RuntimeGraphConsistent'
  <2>1. console' = console
    BY <1>4
  <2> QED  BY <1>5, <1>6, <1>7, <1>9, <2>1 DEF RuntimeGraphConsistent
<1>11. RunsAlone'
  BY <1>6, <1>7, <1>8, <1>9 DEF RunsAlone
<1> QED  BY <1>10, <1>11, StartsAloneKept DEF ConsoleInv

\* While a chain that was started alone runs, nothing a browser, a poll or a process
\* may still do touches its file.
LEMMA RunningInv ==
  ASSUME ConsoleTypes, ConsoleInv, [Next]_vars, running.planner, running'.planner
  PROVE  ConsoleInv'
<1>1. \A p \in Processes, v \in BOOLEAN : Runs(p, v) =>
        \A q \in Processes \ {p} : running'[q] = running[q]
  BY RunsType DEF ConsoleTypes, TypeInv
<1>2. graph'.alone => graph.alone /\ graph'.file = graph.file
  <2>1. \/ UNCHANGED graph
        \/ graph' = [graph EXCEPT !.revision = disk[graph.file]]
        \/ ~running'.planner
    <3>1. Runs("planner", FALSE) => ~running'.planner
      BY RunsType DEF ConsoleTypes, TypeInv, Processes
    <3>2. ASSUME NEW b \in Browsers, Acts(b) PROVE UNCHANGED graph \/ ~running'.planner
      BY <3>1, <3>2
         DEF Acts, selectTopologyFile, SaveCompares, SaveWrites, GenerationStarts,
             GenerationNoted, PlannerReads, PlannerStarts, StopEndsPatrol,
             StopEndsPlanner, startLoopPatrol, stopLoopPatrol, RecordingStarts,
             RecordingMenu, RecordingConfirmed, RecordingFails, RecordingStops,
             NameIsTyped, RecordingAborts, AbortNoted
    <3>3. Works => UNCHANGED graph \/ graph' = [graph EXCEPT !.revision = disk[graph.file]]
      BY DEF Works, PlannerLoads, GenerationWrites, GenerationExits, ReadsKey,
             SessionSaved, SavingFails, LogCallback
    <3>4. Polls => UNCHANGED graph
      BY DEF Polls, pollTopologyGeneration, PollReads, PollActs
    <3>5. \A p \in {"planner", "loop_patrol", "recording"} :
            Dies(p) => UNCHANGED graph \/ ~running'.planner
      BY <3>1 DEF Dies
    <3> QED  BY <3>2, <3>3, <3>4, <3>5 DEF Next, vars, Accept
  <2> QED  BY <2>1 DEF ConsoleTypes, TypeInv, Graphs
<1>3. CASE ~graph.alone
  BY <1>2, <1>3, StartsAloneKept DEF ConsoleInv, RuntimeGraphConsistent, RunsAlone
<1>4. ASSUME graph.alone
      PROVE  /\ ~running'.recording /\ ~Unsettled'
             /\ \A b \in Browsers : job'[b].command \notin Offline
             /\ UNCHANGED <<disk, console>>
             /\ UNCHANGED graph \/ PlannerLoads
  <2>1. /\ ~running.recording /\ keyboard.mode = "off" /\ ~Unsettled
        /\ \A b \in Browsers : job[b].command \notin Offline
    BY <1>4 DEF ConsoleInv, RunsAlone, ConsoleTypes, FilesKnown
  <2>2. ~Runs("planner", FALSE)
    BY RunsType DEF ConsoleTypes, TypeInv, Processes
  <2>3. running.recording = FALSE
    BY <2>1 DEF ConsoleTypes, TypeInv, Processes
  <2>4. ASSUME NEW b \in Browsers, Accept(b)
        PROVE  /\ \A d \in Browsers : job'[d].command \notin Offline
               /\ UNCHANGED <<disk, running, console, generation, recording, poll, graph>>
    <3>1. PICK c \in Commands, f \in MaybeFiles :
            /\ Allowed(c, f)
            /\ job'[b].command = c
            /\ \A d \in Browsers \ {b} : job'[d].command = job[d].command
      BY <2>4, AcceptMoves
    <3>2. c \notin Offline
      BY <2>1, <3>1 DEF Allowed, CanSelect, CanSave, CanGenerate, CanStartPlanner,
                        CanRecord, CanStopRecording, Offline, Commands, OfFile
    <3> QED  BY <2>1, <2>4, <3>1, <3>2 DEF Accept
  <2>5. ASSUME NEW b \in Browsers, Acts(b)
        PROVE  /\ \A d \in Browsers : job'[d].command \notin Offline
               /\ UNCHANGED <<disk, console, generation, poll, graph>>
               /\ running'.recording = FALSE /\ running'.generation = running.generation
               /\ recording'.state = "processing" => recording.state = "processing"
    <3>1. \/ PlannerReads(b) \/ PlannerStarts(b) \/ StopEndsPatrol(b)
          \/ startLoopPatrol(b) \/ stopLoopPatrol(b) \/ RecordingConfirmed(b)
          \/ RecordingFails(b) \/ NameIsTyped(b) \/ RecordingAborts(b)
          \/ AbortNoted(b)
      <4>1. job[b].command \notin Offline
        BY <2>1
      <4>2. /\ ~selectTopologyFile(b) /\ ~SaveCompares(b) /\ ~SaveWrites(b)
            /\ ~GenerationStarts(b) /\ ~GenerationNoted(b) /\ ~RecordingStarts(b)
            /\ ~RecordingStops(b)
        BY <4>1 DEF Offline, OfFile, selectTopologyFile, SaveCompares, SaveWrites,
                    GenerationStarts, GenerationNoted, RecordingStarts, RecordingStops
      <4>3. ~RecordingMenu(b) /\ ~StopEndsPlanner(b)
        BY <2>1, <2>2 DEF RecordingMenu, StopEndsPlanner
      <4> QED  BY <2>5, <4>2, <4>3 DEF Acts
    <3>2. \A d \in Browsers : job'[d].command \notin Offline
      BY <2>1, <2>5, ActsMoves
    <3>3. UNCHANGED <<disk, console, graph, generation, poll>>
      BY <3>1 DEF PlannerReads, PlannerStarts, StopEndsPatrol, startLoopPatrol,
             stopLoopPatrol, RecordingConfirmed, RecordingFails, NameIsTyped,
             RecordingAborts, AbortNoted
    <3>4. running'.recording = FALSE /\ running'.generation = running.generation
      BY <1>1, <2>3, <3>1, RunsType
         DEF PlannerReads, PlannerStarts, StopEndsPatrol, startLoopPatrol, stopLoopPatrol,
             RecordingConfirmed, RecordingFails, NameIsTyped, RecordingAborts, AbortNoted,
             Exits, ConsoleTypes, TypeInv, Processes
    <3>5. recording'.state = "processing" => recording.state = "processing"
      <4>1. recording' \in {recording, [recording EXCEPT !.state = "error"],
                             [recording EXCEPT !.state = "recording"],
                             [state |-> "aborted", name |-> NoFile]}
        BY <3>1 DEF PlannerReads, PlannerStarts, StopEndsPatrol, startLoopPatrol,
               stopLoopPatrol, RecordingConfirmed, RecordingFails, NameIsTyped,
               RecordingAborts, AbortNoted
      <4>2. recording \in Recordings
        BY DEF ConsoleTypes, TypeInv
      <4> QED  BY <4>1, <4>2 DEF Recordings
    <3> QED  BY <3>2, <3>3, <3>4, <3>5
  <2>6. ASSUME Works
        PROVE  /\ UNCHANGED <<disk, console, job, generation, poll, running>>
               /\ UNCHANGED graph \/ PlannerLoads
               /\ recording'.state = "processing" => recording.state = "processing"
    <3>1. ~ReadsKey /\ ~SessionSaved /\ ~SavingFails
      BY <2>1 DEF ReadsKey, SessionSaved, SavingFails
    <3>2. ~GenerationWrites /\ ~GenerationExits
      BY <2>1 DEF GenerationWrites, GenerationExits, Unsettled
    <3>3. LogCallback => recording'.state = "error"
      BY DEF LogCallback, ConsoleTypes, TypeInv, Recordings
    <3> QED  BY <2>6, <3>1, <3>2, <3>3 DEF Works, PlannerLoads, LogCallback
  <2>7. ~Polls
    BY <2>1 DEF Polls, pollTopologyGeneration, PollReads, PollActs, Unsettled,
                ConsoleTypes, FilesKnown
  <2>8. ASSUME NEW p \in {"planner", "loop_patrol", "recording"}, Dies(p)
        PROVE  /\ UNCHANGED <<disk, console, job, generation, recording, poll, graph>>
               /\ running'.recording = FALSE /\ running'.generation = running.generation
    <3>1. p # "planner"
      BY <2>2, <2>8 DEF Dies
    <3> QED  BY <1>1, <2>3, <2>8, <3>1, RunsType DEF Dies, Exits, ConsoleTypes, TypeInv, Processes
  <2>9. CASE UNCHANGED vars
    BY <2>1, <2>9 DEF vars, Unsettled
  <2>10. CASE \E b \in Browsers : Accept(b)
    BY <2>1, <2>3, <2>4, <2>10 DEF Unsettled
  <2>11. CASE \E b \in Browsers : Acts(b)
    BY <2>1, <2>5, <2>11 DEF Unsettled
  <2>12. CASE Works
    BY <2>1, <2>6, <2>12 DEF Unsettled
  <2>13. CASE \E p \in {"planner", "loop_patrol", "recording"} : Dies(p)
    BY <2>1, <2>8, <2>13 DEF Unsettled
  <2> QED  BY <2>7, <2>9, <2>10, <2>11, <2>12, <2>13 DEF Next
<1>5. CASE graph.alone
  <2>1. RunsAlone'
    BY <1>4, <1>5 DEF RunsAlone
  <2>2. RuntimeGraphConsistent'
    <3>1. graph.file = console.path /\ (graph.revision # Absent => graph.revision = disk[graph.file])
      BY <1>5 DEF ConsoleInv, RuntimeGraphConsistent
    <3>2. CASE UNCHANGED graph
      BY <1>4, <1>5, <3>1, <3>2 DEF RuntimeGraphConsistent
    <3>3. CASE PlannerLoads
      <4>1. graph'.revision = disk[graph.file] /\ graph'.file = graph.file
        BY <3>3 DEF PlannerLoads, ConsoleTypes, TypeInv, Graphs
      <4> QED  BY <1>4, <1>5, <3>1, <4>1 DEF RuntimeGraphConsistent
    <3> QED  BY <1>4, <1>5, <3>2, <3>3
  <2> QED  BY <2>1, <2>2, StartsAloneKept DEF ConsoleInv
<1> QED  BY <1>3, <1>5

\* For any number of browsers: a planner chain that was started while nothing it
\* excludes was under way runs without a recording, and on the file that is selected
\* as it is on disk, whatever the browsers, the polls and the processes do meanwhile.
THEOREM ConsoleCorrect == Spec => []ConsoleSafe
<1>1. Init => ConsoleInv
  <2> SUFFICES ASSUME Init PROVE ConsoleInv
    OBVIOUS
  <2>1. running.planner = FALSE
    BY DEF Init, Processes
  <2>2. \A b \in Browsers : job[b].command = "idle"
    BY DEF Init, Idle, Job
  <2> QED  BY <2>1, <2>2 DEF ConsoleInv, RuntimeGraphConsistent, StartsAlone, RunsAlone
<1>2. ConsoleTypes /\ ConsoleInv /\ [Next]_vars => ConsoleInv'
  <2> SUFFICES ASSUME ConsoleTypes, ConsoleInv, [Next]_vars
               PROVE  ConsoleInv'
    OBVIOUS
  <2>1. CASE ~running'.planner
    BY <2>1, StoppedInv
  <2>2. CASE running'.planner /\ ~running.planner
    BY <2>2, StartedInv
  <2>3. CASE running'.planner /\ running.planner
    BY <2>3, RunningInv
  <2> QED  BY <2>1, <2>2, <2>3
<1>3. ConsoleTypes /\ ConsoleInv => ConsoleSafe
  BY DEF ConsoleTypes, TypeInv, FilesKnown, ConsoleInv, ConsoleSafe, ConsoleTypeOK,
         Generations, Recordings, Keyboards, Graphs, MaybeFiles, Revisions
<1> QED  BY <1>1, <1>2, <1>3, ConsoleTypesCorrect, PTL DEF Spec

-----------------------------------------------------------------------------
(* The sessions *)

Fits(q) ==
  /\ Len(q.texts) <= MaxTexts
  /\ q.bytes = q.binaries /\ q.binaries <= MaxBytes

Served == {"accepting", "flushing", "polling", "handling", "closed"}
Streamed == {"flushing", "polling", "handling", "closed", "erased"}

\* Each operation on the queues keeps within their bounds and leaves the thread
\* where it is.
LEMMA EnqueueText ==
  ASSUME NEW q \in Queues, NEW p \in None..MaxPoses, Fits(q)
  PROVE  /\ enqueueText(q, p) \in Queues /\ Fits(enqueueText(q, p))
         /\ enqueueText(q, p).at = q.at /\ enqueueText(q, p).greets = q.greets
<1> DEFINE kept == IF Len(q.texts) >= MaxTexts THEN Tail(q.texts) ELSE q.texts
<1>1. q.texts \in Seq(None..MaxPoses) /\ Len(q.texts) \in Nat /\ MaxTexts \in Nat \ {0}
  BY SessionsAssumption DEF Queues
<1>2. kept \in Seq(None..MaxPoses) /\ Len(kept) < MaxTexts
  <2>1. CASE Len(q.texts) >= MaxTexts
    <3>1. q.texts # <<>>  BY <1>1, <2>1
    <3>2. Tail(q.texts) \in Seq(None..MaxPoses) /\ Len(Tail(q.texts)) = Len(q.texts) - 1
      BY <1>1, <3>1, HeadTailProperties
    <3> QED  BY <1>1, <2>1, <3>2 DEF Fits
  <2>2. CASE ~(Len(q.texts) >= MaxTexts)
    BY <1>1, <2>2
  <2> QED  BY <2>1, <2>2
<1>3. Append(kept, p) \in Seq(None..MaxPoses) /\ Len(Append(kept, p)) <= MaxTexts
  BY <1>1, <1>2
<1>4. enqueueText(q, p) = [q EXCEPT !.texts = Append(kept, p)]
  BY DEF enqueueText
<1> HIDE DEF kept
<1> QED  BY <1>3, <1>4 DEF Queues, Fits

LEMMA NewSessionFits == NewSession \in Queues /\ Fits(NewSession)
<1>1. <<>> \in Seq(None..MaxPoses) /\ Len(<<>>) = 0
  OBVIOUS
<1> QED  BY <1>1, SessionsAssumption DEF NewSession, Queues, Fits, None, Greeted

\* The other members: the count of bytes is that of the chunks.
LEMMA QueueChanges ==
  ASSUME NEW q \in Queues, Fits(q)
  PROVE  /\ \A n \in Nat : n <= MaxBytes =>
              LET r == [q EXCEPT !.binaries = n, !.bytes = n]
              IN  r \in Queues /\ Fits(r) /\ r.at = q.at
         /\ \A t \in Seq(None..MaxPoses) : Len(t) <= MaxTexts =>
              LET r == [q EXCEPT !.texts = t]
              IN  r \in Queues /\ Fits(r) /\ r.at = q.at
         /\ \A g \in Greeted..MaxPoses :
              LET r == [q EXCEPT !.at = "accepting", !.greets = g]
              IN  r \in Queues /\ Fits(r) /\ r.at = "accepting"
<1>1. ASSUME NEW n \in Nat, n <= MaxBytes
      PROVE  LET r == [q EXCEPT !.binaries = n, !.bytes = n]
             IN  r \in Queues /\ Fits(r) /\ r.at = q.at
  BY <1>1 DEF Queues, Fits
<1>2. ASSUME NEW t \in Seq(None..MaxPoses), Len(t) <= MaxTexts
      PROVE  LET r == [q EXCEPT !.texts = t]
             IN  r \in Queues /\ Fits(r) /\ r.at = q.at
  BY <1>2 DEF Queues, Fits
<1>3. ASSUME NEW g \in Greeted..MaxPoses
      PROVE  LET r == [q EXCEPT !.at = "accepting", !.greets = g]
             IN  r \in Queues /\ Fits(r) /\ r.at = "accepting"
  BY DEF Queues, Fits
<1> QED  BY <1>1, <1>2, <1>3

LEMMA EnqueueOthers ==
  ASSUME NEW q \in Queues, Fits(q)
  PROVE  /\ \A p \in None..MaxPoses :
              /\ enqueueLatestText(q, p) \in Queues /\ Fits(enqueueLatestText(q, p))
              /\ enqueueLatestText(q, p).at = q.at
         /\ enqueueChunk(q) \in Queues /\ Fits(enqueueChunk(q))
         /\ enqueueChunk(q).at = q.at
         /\ enqueueLive(q) \in Queues /\ Fits(enqueueLive(q)) /\ enqueueLive(q).at = q.at
<1>1. ASSUME NEW p \in None..MaxPoses
      PROVE  /\ enqueueLatestText(q, p) \in Queues /\ Fits(enqueueLatestText(q, p))
             /\ enqueueLatestText(q, p).at = q.at
  BY DEF enqueueLatestText, Queues, Fits
<1>2. /\ enqueueChunk(q) \in Queues /\ Fits(enqueueChunk(q)) /\ enqueueChunk(q).at = q.at
  <2>1. q.bytes \in Nat /\ q.binaries = q.bytes /\ MaxBytes \in Nat \ {0}
    BY SessionsAssumption DEF Queues, Fits
  <2>2. CASE q.bytes + 1 > MaxBytes /\ q.binaries > 0
    BY <2>2 DEF enqueueChunk
  <2>3. CASE ~(q.bytes + 1 > MaxBytes /\ q.binaries > 0)
    <3> DEFINE n == q.bytes + 1
    <3>1. enqueueChunk(q) = [q EXCEPT !.binaries = n, !.bytes = n]
      BY <2>1, <2>3 DEF enqueueChunk
    <3>2. n \in Nat /\ n <= MaxBytes
      BY <2>1, <2>3
    <3> HIDE DEF n
    <3> DEFINE r == [q EXCEPT !.binaries = n, !.bytes = n]
    <3>3. r \in Queues /\ Fits(r) /\ r.at = q.at
      BY <3>2, QueueChanges
    <3>4. enqueueChunk(q) = r
      BY <3>1
    <3> HIDE DEF r
    <3> QED  BY <3>3, <3>4
  <2> QED  BY <2>2, <2>3
<1>3. enqueueLive(q) \in Queues /\ Fits(enqueueLive(q)) /\ enqueueLive(q).at = q.at
  BY DEF enqueueLive, Queues, Fits
<1> QED  BY <1>1, <1>2, <1>3

\* A step that changes one session, and takes at most that one onto a list.
LEMMA OneSession ==
  ASSUME SessionsSafe, NEW s \in Sessions, NEW q \in Queues, Fits(q),
         session' = [session EXCEPT ![s] = q],
         sessions_' \subseteq sessions_ \cup {s},
         live_cloud_clients_' \subseteq live_cloud_clients_ \cup {s},
         s \in sessions_' => q.at \in Served,
         s \in live_cloud_clients_' => q.at \in Streamed
  PROVE  /\ session' \in [Sessions -> Queues]
         /\ sessions_' \subseteq Sessions /\ live_cloud_clients_' \subseteq Sessions
         /\ QueuesBounded' /\ LiveClientsRun'
<1> USE DEF SessionsSafe, SessionTypeOK
<1>1. session' \in [Sessions -> Queues]
      /\ sessions_' \subseteq Sessions /\ live_cloud_clients_' \subseteq Sessions
  OBVIOUS
<1>2. \A t \in Sessions : session'[t] = IF t = s THEN q ELSE session[t]
  OBVIOUS
<1>3. \A t \in Sessions : Fits(session[t])
  BY DEF QueuesBounded, Fits
<1>4. \A t \in Sessions : Fits(session'[t])
  BY <1>2, <1>3
<1>5. QueuesBounded'
  BY <1>4 DEF QueuesBounded, Fits
<1>6. \A t \in live_cloud_clients_' : session'[t].at \in Streamed
  <2> TAKE t \in live_cloud_clients_'
  <2>1. CASE t = s  BY <1>2, <2>1
  <2>2. CASE t # s
    <3>1. t \in live_cloud_clients_ /\ t \in Sessions  BY <2>2
    <3> QED  BY <1>2, <2>2, <3>1 DEF LiveClientsRun, Streamed
  <2> QED  BY <2>1, <2>2
<1>7. \A t \in sessions_' : session'[t].at \in Served
  <2> TAKE t \in sessions_'
  <2>1. CASE t = s  BY <1>2, <2>1
  <2>2. CASE t # s
    <3>1. t \in sessions_ /\ t \in Sessions  BY <2>2
    <3> QED  BY <1>2, <2>2, <3>1 DEF LiveClientsRun, Served
  <2> QED  BY <2>1, <2>2
<1> QED  BY <1>1, <1>5, <1>6, <1>7 DEF LiveClientsRun, Served, Streamed

\* What OneSession establishes, and what is left of the invariant.
SessionsPart ==
  /\ session \in [Sessions -> Queues]
  /\ sessions_ \subseteq Sessions /\ live_cloud_clients_ \subseteq Sessions
  /\ QueuesBounded /\ LiveClientsRun
OtherTypes ==
  /\ pose \in 0..MaxPoses /\ shown \in [Sessions -> 0..MaxPoses]
  /\ ros \in Announcements
  /\ load \in [1..MaxMaps -> [part : 0..(Chunks + 2), to : SUBSET Sessions]]
  /\ shutdown \in [at : {"up", "stopping", "destroyed"}, left : SUBSET Sessions]

LEMMA SessionsSafeSplits ==
  /\ SessionsSafe <=> SessionsPart /\ OtherTypes
  /\ SessionsSafe' <=> SessionsPart' /\ OtherTypes'
BY DEF SessionsSafe, SessionTypeOK, SessionsPart, OtherTypes

LEMMA SessionKnown ==
  ASSUME SessionsSafe, NEW s \in Sessions
  PROVE  session[s] \in Queues /\ Fits(session[s])
BY DEF SessionsSafe, SessionTypeOK, QueuesBounded, Fits

\* The thread of a session goes on, or the session leaves a list.
LEMMA ThreadMoves ==
  ASSUME SessionsSafe, NEW s \in Sessions,
         NEW a \in {"absent", "socket", "accepting", "flushing", "polling", "handling",
                    "closed", "erased", "gone"},
         Thread(s, a),
         sessions_' \subseteq sessions_, live_cloud_clients_' \subseteq live_cloud_clients_,
         s \in sessions_' => a \in Served,
         s \in live_cloud_clients_' => a \in Streamed
  PROVE  SessionsPart'
<1> DEFINE q == [session[s] EXCEPT !.at = a]
<1>1. q \in Queues /\ Fits(q) /\ q.at = a
  BY SessionKnown DEF Queues, Fits
<1>2. session' = [session EXCEPT ![s] = q]
  BY DEF Thread
<1> HIDE DEF q
<1> QED  BY <1>1, <1>2, OneSession DEF SessionsPart

\* Only queues change, the thread and the lists do not.
LEMMA QueueFills ==
  ASSUME SessionsSafe, NEW s \in Sessions, NEW q \in Queues, Fits(q),
         session' = [session EXCEPT ![s] = q], q.at = session[s].at,
         UNCHANGED <<sessions_, live_cloud_clients_>>
  PROVE  SessionsPart'
<1>1. s \in sessions_' => q.at \in Served
  BY DEF SessionsSafe, LiveClientsRun, Served
<1>2. s \in live_cloud_clients_' => q.at \in Streamed
  BY DEF SessionsSafe, LiveClientsRun, Streamed
<1> QED  BY <1>1, <1>2, OneSession DEF SessionsPart

LEMMA NothingMoves ==
  ASSUME SessionsSafe, UNCHANGED <<session, sessions_, live_cloud_clients_>>
  PROVE  SessionsPart'
BY DEF SessionsSafe, SessionTypeOK, SessionsPart, QueuesBounded, LiveClientsRun

\* The ROS thread, the loaders and the destructor.
LEMMA OthersStep ==
  ASSUME SessionsSafe,
         \/ RosStep \/ StopBegins \/ StopEnds
         \/ \E m \in 1..MaxMaps : Loads(m)
         \/ \E s \in Sessions : Broadcast(s) \/ requestStop(s)
  PROVE  SessionsSafe'
<1> USE SessionsAssumption
<1>a. OtherTypes  BY SessionsSafeSplits
<1>b. sessions_ \subseteq Sessions /\ live_cloud_clients_ \subseteq Sessions
  BY DEF SessionsSafe, SessionTypeOK
<1>1. ASSUME NEW k \in {"pose", "snapshot", "cloud"}, NEW p \in None..MaxPoses,
             NEW to \in SUBSET Sessions, Says(k, p, to)
      PROVE  ros' \in Announcements
  BY <1>1 DEF Says, Announcements
<1>2. Snapshot \in None..MaxPoses /\ None \in None..MaxPoses
  BY <1>a DEF Snapshot, None, OtherTypes
<1>3. CASE odometryCallback
  <2>1. pose' \in 0..MaxPoses /\ pose + 1 \in None..MaxPoses
    BY <1>3, <1>a DEF odometryCallback, OtherTypes, None
  <2>2. CASE Says("pose", pose + 1, sessions_)
    BY <1>1, <1>3, <1>a, <1>b, <2>1, <2>2, NothingMoves, SessionsSafeSplits
       DEF odometryCallback, OtherTypes
  <2>3. CASE UNCHANGED ros
    BY <1>3, <1>a, <2>1, <2>3, NothingMoves, SessionsSafeSplits
       DEF odometryCallback, OtherTypes
  <2> QED  BY <1>3, <2>2, <2>3 DEF odometryCallback
<1>4. CASE publishSnapshot
  BY <1>1, <1>2, <1>4, <1>a, <1>b, NothingMoves, SessionsSafeSplits
     DEF publishSnapshot, OtherTypes
<1>5. CASE cloudCallback
  BY <1>1, <1>2, <1>5, <1>a, <1>b, NothingMoves, SessionsSafeSplits
     DEF cloudCallback, OtherTypes
<1>6. CASE StopBegins
  BY <1>6, <1>a, <1>b, NothingMoves, SessionsSafeSplits DEF StopBegins, OtherTypes
<1>7. CASE StopEnds
  BY <1>7, <1>a, NothingMoves, SessionsSafeSplits DEF StopEnds, OtherTypes
<1>8. ASSUME NEW m \in 1..MaxMaps, Loads(m)
      PROVE  SessionsSafe'
  <2>1. load[m].part \in 0..(Chunks + 2) /\ load[m].to \subseteq Sessions
    BY <1>a DEF OtherTypes
  <2>2. CASE LoaderCopies(m)
    <3>1. load[m].part + 1 \in 0..(Chunks + 2)
      BY <2>1, <2>2 DEF LoaderCopies
    <3>2. load' = [load EXCEPT ![m] = [part |-> load[m].part + 1, to |-> sessions_]]
      BY <2>2 DEF LoaderCopies
    <3>3. load' \in [1..MaxMaps -> [part : 0..(Chunks + 2), to : SUBSET Sessions]]
      BY <3>1, <3>2, <1>a, <1>b DEF OtherTypes
    <3> QED  BY <2>2, <3>3, <1>a, NothingMoves, SessionsSafeSplits DEF LoaderCopies, OtherTypes
  <2>3. ASSUME NEW s \in Sessions, LoaderQueues(m, s)
        PROVE  SessionsSafe'
    <3> DEFINE q == IF load[m].part <= Chunks + 1 THEN enqueueChunk(session[s])
                                                  ELSE enqueueText(session[s], None)
    <3>1. q \in Queues /\ Fits(q) /\ q.at = session[s].at
      BY <1>2, SessionKnown, EnqueueText, EnqueueOthers
    <3>2. session' = [session EXCEPT ![s] = q]
      BY <2>3 DEF LoaderQueues, Queue
    <3> HIDE DEF q
    <3>3. SessionsPart'
      BY <2>3, <3>1, <3>2, QueueFills DEF LoaderQueues
    <3>4. load' \in [1..MaxMaps -> [part : 0..(Chunks + 2), to : SUBSET Sessions]]
      BY <2>3, <1>a DEF LoaderQueues, OtherTypes
    <3> QED  BY <2>3, <3>3, <3>4, <1>a, SessionsSafeSplits DEF LoaderQueues, OtherTypes
  <2> QED  BY <1>8, <2>2, <2>3 DEF Loads
<1>9. ASSUME NEW s \in Sessions, Broadcast(s)
      PROVE  SessionsSafe'
  <2>0. ros.kind \in {"pose", "snapshot", "cloud"}
    BY <1>9, <1>a DEF Broadcast, OtherTypes, Announcements, Silent
  <2>1. ros.pose \in None..MaxPoses /\ ros.to \ {s} \in SUBSET Sessions
    BY <1>a DEF OtherTypes, Announcements, Silent, None
  <2>2. PICK q \in Queues : /\ Fits(q) /\ q.at = session[s].at
                            /\ session' = [session EXCEPT ![s] = q]
    <3>1. CASE ros.kind = "pose"
      <4>1. session' = [session EXCEPT ![s] = enqueueLatestText(session[s], ros.pose)]
        BY <1>9, <3>1 DEF Broadcast, Queue
      <4> QED  BY <4>1, <2>1, SessionKnown, EnqueueOthers
    <3>2. CASE ros.kind = "snapshot"
      <4>1. session' = [session EXCEPT ![s] = enqueueText(session[s], ros.pose)]
        BY <1>9, <3>2 DEF Broadcast, Queue
      <4> QED  BY <4>1, <2>1, SessionKnown, EnqueueText
    <3>3. CASE ros.kind = "cloud" /\ s \in sessions_
      <4>1. session' = [session EXCEPT ![s] = enqueueLive(session[s])]
        BY <1>9, <3>3 DEF Broadcast, Queue
      <4> QED  BY <4>1, SessionKnown, EnqueueOthers
    <3>4. CASE ros.kind = "cloud" /\ s \notin sessions_
      <4>1. session' = session
        BY <1>9, <3>4 DEF Broadcast
      <4>2. session = [session EXCEPT ![s] = session[s]]
        BY DEF SessionsSafe, SessionTypeOK
      <4> QED  BY <4>1, <4>2, SessionKnown
    <3> QED  BY <2>0, <3>1, <3>2, <3>3, <3>4
  <2>3. SessionsPart'
    BY <1>9, <2>2, QueueFills DEF Broadcast
  <2>4. ros' \in Announcements
    BY <1>1, <1>9, <2>0, <2>1 DEF Broadcast
  <2> QED  BY <1>9, <2>3, <2>4, <1>a, SessionsSafeSplits DEF Broadcast, OtherTypes
<1>10. ASSUME NEW s \in Sessions, requestStop(s)
       PROVE  SessionsSafe'
  <2> DEFINE q == [session[s] EXCEPT !.stopping = TRUE]
  <2>1. q \in Queues /\ Fits(q) /\ q.at = session[s].at
    BY SessionKnown, ZenonT(30) DEF Queues, Fits
  <2>2. session' = [session EXCEPT ![s] = q]
    BY <1>10 DEF requestStop
  <2> HIDE DEF q
  <2>3. SessionsPart'
    BY <1>10, <2>1, <2>2, QueueFills DEF requestStop
  <2> QED  BY <1>10, <2>3, <1>a, SessionsSafeSplits DEF requestStop, OtherTypes
<1> QED  BY <1>3, <1>4, <1>5, <1>6, <1>7, <1>8, <1>9, <1>10 DEF RosStep

\* The session's own thread, and the one that accepted its connection.
LEMMA ThreadStep ==
  ASSUME SessionsSafe, NEW s \in Sessions,
         Connects(s) \/ Registers(s) \/ Greets(s) \/ Runs_(s) \/ Breaks(s)
  PROVE  SessionsSafe'
<1> USE SessionsAssumption
<1>a. OtherTypes  BY SessionsSafeSplits
<1>b. session[s] \in Queues /\ Fits(session[s])  BY SessionKnown
<1>c. /\ s \in sessions_ => session[s].at \in Served
      /\ s \in live_cloud_clients_ => session[s].at \in Streamed
  BY DEF SessionsSafe, LiveClientsRun, Served, Streamed
<1>d. Snapshot \in None..MaxPoses /\ None \in None..MaxPoses
  BY <1>a DEF Snapshot, None, OtherTypes
<1>e. ASSUME NEW p \in None..MaxPoses, Draws(s, p)
      PROVE  shown' \in [Sessions -> 0..MaxPoses]
  BY <1>e, <1>a DEF Draws, OtherTypes, None
<1>f. ASSUME SessionsPart', UNCHANGED <<pose, shown, ros, load, shutdown>>
      PROVE  SessionsSafe'
  BY <1>a, <1>f, SessionsSafeSplits DEF OtherTypes
<1>1. CASE Connects(s)
  <2> DEFINE q == [NewSession EXCEPT !.at = "socket"]
  <2>1. q \in Queues /\ Fits(q) /\ q.at = "socket"
    BY NewSessionFits DEF Queues, Fits
  <2>2. session' = [session EXCEPT ![s] = q]  BY <1>1 DEF Connects
  <2>3. s \notin sessions_ /\ s \notin live_cloud_clients_
    BY <1>1, <1>c DEF Connects, Served, Streamed
  <2> HIDE DEF q
  <2>4. SessionsPart'
    BY <1>1, <2>1, <2>2, <2>3, OneSession DEF Connects, SessionsPart
  <2> QED  BY <1>1, <1>f, <2>4 DEF Connects
<1>2. CASE Registers(s)
  <2>1. s \notin live_cloud_clients_ /\ s \notin sessions_
    BY <1>2, <1>c DEF Registers, Served, Streamed
  <2>2. CASE Thread(s, "gone") /\ UNCHANGED sessions_
    <3>1. SessionsPart'
      BY <1>2, <2>1, <2>2, ThreadMoves DEF Registers
    <3> QED  BY <1>2, <1>f, <3>1 DEF Registers
  <2>3. CASE /\ session' = [session EXCEPT ![s].at = "accepting", ![s].greets = Unread]
             /\ sessions_' = sessions_ \cup {s}
    <3> DEFINE q == [session[s] EXCEPT !.at = "accepting", !.greets = Unread]
    <3>1. q \in Queues /\ Fits(q) /\ q.at = "accepting"
      <4>1. Unread \in Greeted..MaxPoses
        BY <1>a DEF Unread, Greeted, OtherTypes
      <4> QED  BY <1>b, <4>1, QueueChanges
    <3>2. session' = [session EXCEPT ![s] = q]
      BY <2>3 DEF SessionsSafe, SessionTypeOK
    <3> HIDE DEF q
    <3>3. SessionsPart'
      BY <1>2, <2>1, <2>3, <3>1, <3>2, OneSession DEF Registers, SessionsPart, Served
    <3> QED  BY <1>2, <1>f, <3>3 DEF Registers
  <2> QED  BY <1>2, <2>2, <2>3 DEF Registers
<1>3. CASE Greets(s)
  <2>1. CASE ComposesSnapshot(s)
    <3> DEFINE t == enqueueText(session[s], None)
               q == [t EXCEPT !.greets = Snapshot]
    <3>1. t \in Queues /\ Fits(t) /\ t.at = session[s].at
      BY <1>b, <1>d, EnqueueText
    <3>2. Snapshot \in Greeted..MaxPoses
      BY <1>a, <1>d DEF Greeted, None, OtherTypes
    <3>3. session' = [session EXCEPT ![s] = q]
      BY <2>1 DEF ComposesSnapshot, Queue
    <3> HIDE DEF t
    <3>4. q \in Queues /\ Fits(q) /\ q.at = session[s].at
      BY <3>1, <3>2 DEF Queues, Fits
    <3> HIDE DEF q
    <3>5. SessionsPart'
      BY <2>1, <3>3, <3>4, QueueFills DEF ComposesSnapshot
    <3> QED  BY <2>1, <1>f, <3>5 DEF ComposesSnapshot
  <2>2. CASE SendsSnapshot(s)
    <3> DEFINE t == enqueueText(session[s], session[s].greets)
               q == [t EXCEPT !.greets = Greeted]
    <3>1. session[s].greets \in None..MaxPoses
      BY <2>2, <1>a, <1>b DEF SendsSnapshot, Queues, None, Greeted, OtherTypes
    <3>2. t \in Queues /\ Fits(t) /\ t.at = session[s].at
      BY <1>b, <3>1, EnqueueText
    <3>3. Greeted \in Greeted..MaxPoses
      BY <1>a DEF Greeted, OtherTypes
    <3>4. session' = [session EXCEPT ![s] = q]
      BY <2>2 DEF SendsSnapshot, Queue
    <3> HIDE DEF t
    <3>5. q \in Queues /\ Fits(q) /\ q.at = session[s].at
      BY <3>2, <3>3 DEF Queues, Fits
    <3> HIDE DEF q
    <3>6. SessionsPart'
      BY <2>2, <3>4, <3>5, QueueFills DEF SendsSnapshot
    <3> QED  BY <2>2, <1>f, <3>6 DEF SendsSnapshot
  <2> QED  BY <1>3, <2>1, <2>2 DEF Greets
<1>4. CASE Upgrades(s)
  <2>1. s \notin live_cloud_clients_
    BY <1>4, <1>c DEF Upgrades, Streamed
  <2>2. SessionsPart'
    BY <1>4, <2>1, ThreadMoves DEF Upgrades, Served
  <2> QED  BY <1>4, <1>f, <2>2 DEF Upgrades
<1>5. CASE Flushes(s)
  <2> SUFFICES SessionsPart' /\ shown' \in [Sessions -> 0..MaxPoses]
    BY <1>5, <1>a, SessionsSafeSplits DEF Flushes, OtherTypes
  <2>1. CASE FlushesLatest(s)
    <3> DEFINE q == [session[s] EXCEPT !.latest = None]
    <3>1. q \in Queues /\ Fits(q) /\ q.at = session[s].at
      BY <1>b, <1>d DEF Queues, Fits
    <3>2. session' = [session EXCEPT ![s] = q]  BY <2>1 DEF FlushesLatest, Queue
    <3>3. session[s].latest \in None..MaxPoses  BY <1>b DEF Queues
    <3> HIDE DEF q
    <3> QED  BY <1>5, <1>e, <2>1, <3>1, <3>2, <3>3, QueueFills DEF Flushes, FlushesLatest
  <2>2. CASE FlushesText(s)
    <3> DEFINE q == [session[s] EXCEPT !.texts = Tail(@)]
    <3>1. /\ session[s].texts \in Seq(None..MaxPoses) /\ session[s].texts # <<>>
      BY <2>2, <1>b DEF FlushesText, Queues
    <3>2. /\ Head(session[s].texts) \in None..MaxPoses
          /\ Tail(session[s].texts) \in Seq(None..MaxPoses)
          /\ Len(Tail(session[s].texts)) = Len(session[s].texts) - 1
          /\ Len(session[s].texts) \in Nat
      <4>1. Len(session[s].texts) \in Nat
        BY <3>1
      <4> QED  BY <3>1, <4>1, HeadTailProperties
    <3>3. q \in Queues /\ Fits(q) /\ q.at = session[s].at
      <4>1. Len(Tail(session[s].texts)) <= MaxTexts
        BY <1>b, <3>2 DEF Fits
      <4> QED  BY <1>b, <3>2, <4>1, QueueChanges
    <3>4. session' = [session EXCEPT ![s] = q]  BY <2>2 DEF FlushesText, Queue
    <3> HIDE DEF q
    <3> QED  BY <1>5, <1>e, <2>2, <3>2, <3>3, <3>4, QueueFills DEF Flushes, FlushesText
  <2>3. CASE FlushesChunk(s)
    <3> DEFINE q == [session[s] EXCEPT !.binaries = @ - 1, !.bytes = @ - 1]
    <3>1. q \in Queues /\ Fits(q) /\ q.at = session[s].at
      <4> DEFINE n == session[s].bytes - 1
      <4>1. n \in Nat /\ n <= MaxBytes /\ n = session[s].binaries - 1
        BY <2>3, <1>b DEF FlushesChunk, Queues, Fits
      <4>2. q = [session[s] EXCEPT !.binaries = n, !.bytes = n]
        BY <4>1
      <4> HIDE DEF n, q
      <4> QED  BY <1>b, <4>1, <4>2, QueueChanges
    <3>2. session' = [session EXCEPT ![s] = q]  BY <2>3 DEF FlushesChunk, Queue
    <3> HIDE DEF q
    <3>3. SessionsPart'
      BY <1>5, <2>3, <3>1, <3>2, QueueFills DEF Flushes, FlushesChunk
    <3> QED  BY <2>3, <3>3, <1>a DEF FlushesChunk, OtherTypes
  <2>4. CASE FlushesLive(s)
    <3> DEFINE q == [session[s] EXCEPT !.live = FALSE]
    <3>1. q \in Queues /\ Fits(q) /\ q.at = session[s].at
      BY <1>b DEF Queues, Fits
    <3>2. session' = [session EXCEPT ![s] = q]  BY <2>4 DEF FlushesLive, Queue
    <3> HIDE DEF q
    <3>3. SessionsPart'
      BY <1>5, <2>4, <3>1, <3>2, QueueFills DEF Flushes, FlushesLive
    <3> QED  BY <2>4, <3>3, <1>a DEF FlushesLive, OtherTypes
  <2>5. CASE Flushed(s) /\ Thread(s, "polling") /\ UNCHANGED shown
    <3>1. SessionsPart'
      BY <1>5, <2>5, ThreadMoves DEF Flushes, Served, Streamed
    <3> QED  BY <2>5, <3>1, <1>a DEF OtherTypes
  <2> QED  BY <1>5, <2>1, <2>2, <2>3, <2>4, <2>5 DEF Flushes
<1>6. CASE Breaks(s)
  <2> DEFINE q == [session[s] EXCEPT !.at = "polling", !.stopping = TRUE]
  <2>1. q \in Queues /\ Fits(q) /\ q.at = "polling"
    BY <1>b DEF Queues, Fits
  <2>2. session' = [session EXCEPT ![s] = q]
    BY <1>6 DEF Breaks, WriteFails, SessionsSafe, SessionTypeOK
  <2> HIDE DEF q
  <2>3. SessionsPart'
    BY <1>6, <2>1, <2>2, OneSession DEF Breaks, SessionsPart, Served, Streamed
  <2> QED  BY <1>6, <1>f, <2>3 DEF Breaks
<1>7. CASE Reads(s)
  <2>1. PICK a \in {"flushing", "handling", "closed"} : Thread(s, a)
    BY <1>7 DEF Reads
  <2>2. SessionsPart'
    BY <1>7, <2>1, ThreadMoves DEF Reads, Served, Streamed
  <2> QED  BY <1>7, <1>f, <2>2 DEF Reads
<1>8. CASE Stops(s)
  <2>1. SessionsPart'
    BY <1>8, ThreadMoves DEF Stops, Served, Streamed
  <2> QED  BY <1>8, <1>f, <2>1 DEF Stops
<1>9. CASE Command(s)
  <2> DEFINE t == enqueueText(session[s], None)
             q == [t EXCEPT !.at = "flushing"]
  <2>1. t \in Queues /\ Fits(t)
    BY <1>b, <1>d, EnqueueText
  <2>2. session' = [session EXCEPT ![s] = q]
    BY <1>9 DEF Command, SetsLive, SelectsMap, Handles, Replies, Queue
  <2> HIDE DEF t
  <2>3. q \in Queues /\ Fits(q) /\ q.at = "flushing"
    BY <2>1 DEF Queues, Fits
  <2> HIDE DEF q
  <2>4. /\ sessions_' \subseteq sessions_
        /\ live_cloud_clients_' \subseteq live_cloud_clients_ \cup {s}
    BY <1>9 DEF Command, SetsLive, SelectsMap, Handles
  <2>5. SessionsPart'
    BY <2>2, <2>3, <2>4, OneSession DEF SessionsPart, Served, Streamed
  <2>6. load' \in [1..MaxMaps -> [part : 0..(Chunks + 2), to : SUBSET Sessions]]
    <3>1. CASE SelectsMap(s)
      <4>1. PICK m \in 1..MaxMaps : load' = [load EXCEPT ![m].part = 1]
        BY <3>1 DEF SelectsMap
      <4>2. 1 \in 0..(Chunks + 2)
        OBVIOUS
      <4> QED  BY <4>1, <4>2, <1>a DEF OtherTypes
    <3>2. CASE SetsLive(s) \/ Handles(s)
      BY <3>2, <1>a DEF SetsLive, Handles, OtherTypes
    <3> QED  BY <1>9, <3>1, <3>2 DEF Command
  <2>7. UNCHANGED <<pose, shown, ros, shutdown>>
    BY <1>9 DEF Command, SetsLive, SelectsMap, Handles
  <2> QED  BY <2>5, <2>6, <2>7, <1>a, SessionsSafeSplits DEF OtherTypes
<1>10. CASE Erases(s)
  <2>1. SessionsPart'
    BY <1>10, ThreadMoves DEF Erases, Served, Streamed
  <2> QED  BY <1>10, <1>f, <2>1 DEF Erases
<1>11. CASE Disconnects(s)
  <2>1. s \notin sessions_
    BY <1>11, <1>c DEF Disconnects, Served
  <2>2. SessionsPart'
    BY <1>11, <2>1, ThreadMoves DEF Disconnects, Without, Served, Streamed
  <2> QED  BY <1>11, <1>f, <2>2 DEF Disconnects
<1> QED
  BY <1>1, <1>2, <1>3, <1>4, <1>5, <1>6, <1>7, <1>8, <1>9, <1>10, <1>11 DEF Runs_

LEMMA SessionInitHolds == SessionInit => SessionsSafe
<1> SUFFICES ASSUME SessionInit PROVE SessionsSafe
  OBVIOUS
<1> USE SessionsAssumption DEF SessionInit, NobodyConnected
<1>2. NewSession \in Queues /\ Fits(NewSession)
  BY NewSessionFits
<1>3. SessionTypeOK
  BY <1>2 DEF SessionTypeOK, Announcements, NotLoading
<1>4. LiveClientsRun
  BY DEF LiveClientsRun
<1>5. QueuesBounded
  BY <1>2 DEF QueuesBounded, Fits
<1> QED  BY <1>3, <1>4, <1>5 DEF SessionsSafe

\* The live cloud is asked for only by clients whose thread still runs or has yet
\* to take them off the list, and the server's map holds only sessions whose
\* thread has not ended (HttpWsServer::remove, onDisconnect), however connections,
\* broken streams, broadcasts, map loaders and the destructor interleave. A browser that
\* does not read never makes the console hold more than the texts and the bytes of
\* chunks it may, and the byte count of the queue stays that of the chunks in it
\* (WebSession::enqueueText, enqueueBinary, flush).
THEOREM SessionsCorrect == SessionSpec => []SessionsSafe
<1>1. SessionsSafe /\ [SessionNext]_sessionVars => SessionsSafe'
  <2> SUFFICES ASSUME SessionsSafe, [SessionNext]_sessionVars PROVE SessionsSafe'
    OBVIOUS
  <2>1. CASE UNCHANGED sessionVars
    BY <2>1, NothingMoves, SessionsSafeSplits DEF sessionVars, OtherTypes
  <2>2. CASE SessionNext
    BY <2>2, OthersStep, ThreadStep DEF SessionNext
  <2> QED  BY <2>1, <2>2
<1> QED  BY <1>1, SessionInitHolds, PTL DEF SessionSpec
=============================================================================
