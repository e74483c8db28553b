------------------------------ MODULE WebTools ------------------------------
(***************************************************************************)
(* The parts of the web console's back end: WebConsole, what the commands  *)
(* do to processes and files, and BrowserSessions, how messages reach the  *)
(* browsers.  They share no state that either models (for a session, a     *)
(* command takes as long as it takes), so a behaviour is one of either.    *)
(***************************************************************************)
EXTENDS WebConsole, BrowserSessions

CONSTANT MaxCommands        \* bound: commands that the browsers give in all

VARIABLES
  part,                     \* the part that is looked at
  asked                     \* commands accepted so far

\* In a behaviour of the commands the server of the sessions is not there.
WebInit ==
  /\ part \in {"commands", "sessions"} /\ asked = 0 /\ Init /\ NobodyConnected
  /\ shutdown = [at |-> IF part = "sessions" THEN "up" ELSE "destroyed", left |-> {}]

Asks ==
  /\ asked' = IF \E b \in Browsers : Accept(b) THEN asked + 1 ELSE asked
  /\ asked' <= MaxCommands

WebNext ==
  \/ part = "commands" /\ UNCHANGED <<part, sessionVars>> /\ Next /\ Asks
  \/ part = "sessions" /\ UNCHANGED <<part, asked, vars>> /\ SessionNext

WebSpec ==
  WebInit /\ [][WebNext]_<<part, asked, vars, sessionVars>> /\ CommandsGetOn /\ SessionsGetOn

\* What a user at the page waits for comes: the end of a recording that is being
\* processed, the pose at which the robot came to rest, and the end of a session
\* that was stopped.
BrowsersAreServed == ProcessingIsReported /\ PoseArrives /\ StoppedSessionsLeave

=============================================================================
