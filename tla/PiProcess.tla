------------------------------ MODULE PiProcess ------------------------------
(***************************************************************************)
(* A delegation to a pi subprocess (PiAdapter.delegate in                  *)
(* engine/adapters/pi.ts).  Four callbacks share the flag `resolved`, here *)
(* answer # "none", and do not know of each other: the reader of stdout,   *)
(* the race with the exit of the process, the timeout in its three stages, *)
(* and cancelAgent, which the abort of the session and a "!stop" message   *)
(* both run.                                                               *)
(***************************************************************************)
EXTENDS Naturals, Sequences, Delegate

CONSTANT MaxLines   \* bound: lines on stdout that are not read yet

VARIABLES
  written,   \* the text of the agent's last message
  pc,        \* how far delegate is: "new", "context", "spawned"
  stopped,   \* the session's abort signal
  proc,      \* the process: "none", "up", "down"
  told,      \* the process has been sent SIGTERM
  stubborn,  \* it does not end on SIGTERM
  pipe,      \* lines on its stdout
  reader,    \* the reader of them: "idle", "reading", "waiting" for the exit
  timer      \* "off", "armed", "closing" for 5 s, "terminating" for 3 s

piVars == <<written, pc, stopped, proc, told, stubborn, pipe, reader, timer>>

\* A line of stdout: an event on the way, or agent_end with the agent's text.
Line == {"work"} \cup Text

PiTypeOK ==
  /\ written \in Text /\ pc \in {"new", "context", "spawned"}
  /\ proc \in {"none", "up", "down"}
  /\ {stopped, told, stubborn} \subseteq BOOLEAN
  /\ pipe \in Seq(Line)
  /\ reader \in {"idle", "reading", "waiting"}
  /\ timer \in {"off", "armed", "closing", "terminating"}

PiInit ==
  /\ written = "" /\ pc = "new" /\ stopped \in BOOLEAN
  /\ proc = "none" /\ told = FALSE /\ stubborn \in BOOLEAN
  /\ pipe = <<>> /\ reader = "idle" /\ timer = "off"

Alive == proc = "up"
Resolved == answer # "none"

\* A mutant: the callbacks do not look at the flag.
SafeResolveAgain(g) ==
  /\ answer' = g /\ reports' = reports + 1
  /\ timer' = IF timer = "armed" THEN "off" ELSE timer

\* safeResolve: the first caller's result counts, the others do nothing.  It
\* clears the timer, but a callback of the timer that is asleep goes on.
SafeResolve(g) ==
  IF Resolved THEN UNCHANGED <<answer, reports, timer>>
  ELSE /\ answer' = g /\ reports' = reports + 1
       /\ timer' = IF timer = "armed" THEN "off" ELSE timer

\* resultFromFinalText; without a text every exit code gives FAILED as well.
FinalText == GradeOf(written)

-----------------------------------------------------------------------------
\* A signal that is up is noticed here, and withPiRepoContext awaits git.
PiBegin ==
  /\ pc = "new" /\ pc' = "context"
  /\ IF stopped THEN answer' = "failed" /\ UNCHANGED reports   \* without a report
                ELSE UNCHANGED <<answer, reports>>
  /\ UNCHANGED <<written, stopped, proc, told, stubborn, pipe, reader, timer>>

\* Bun.spawn, the listener of the signal, the timer and the sender of messages.
PiSpawn ==
  /\ pc = "context" /\ ~Resolved
  /\ pc' = "spawned" /\ proc' = "up" /\ reader' = "reading" /\ timer' = "armed"
  /\ UNCHANGED <<answer, reports, written, stopped, told, stubborn, pipe>>

\* cancelAgent.  The second kill, two seconds later, looks at resolved, which
\* the last line of the function has set: it is never sent.
CancelAgent ==
  IF Resolved THEN UNCHANGED <<answer, reports, told, reader, timer>>
  ELSE /\ told' = TRUE
       /\ reader' = "waiting"
       /\ SafeResolve(FinalText)

\* The session is stopped; an "abort" event of a signal comes once, and only
\* to those who listen by then.
PiStop ==
  /\ ~stopped /\ stopped' = TRUE
  /\ IF pc = "spawned" THEN CancelAgent ELSE UNCHANGED <<answer, reports, told, reader, timer>>
  /\ UNCHANGED <<written, pc, proc, stubborn, pipe>>

\* broadcastControlMessage or a steer message, once the sender is registered.
PiSteerStop ==
  /\ pc = "spawned" /\ ~Resolved /\ CancelAgent
  /\ UNCHANGED <<written, pc, stopped, proc, stubborn, pipe>>

-----------------------------------------------------------------------------
\* The process: it works, ends its last message, and ends by itself or by a
\* signal.  None of it is certain.
PiWrites ==
  /\ Alive /\ Len(pipe) < MaxLines
  /\ \E l \in Line : pipe' = Append(pipe, l)
  /\ UNCHANGED <<answer, reports, written, pc, stopped, proc, told, stubborn, reader, timer>>

PiExits ==
  /\ Alive /\ proc' = "down"
  /\ UNCHANGED <<answer, reports, written, pc, stopped, told, stubborn, pipe, reader, timer>>

PiObeys ==
  /\ Alive /\ told /\ ~stubborn /\ proc' = "down"
  /\ UNCHANGED <<answer, reports, written, pc, stopped, told, stubborn, pipe, reader, timer>>

-----------------------------------------------------------------------------
\* A mutant: agent_end answers and leaves the process to itself.
ReadLineLeavesProcess ==
  /\ reader = "reading" /\ pipe # <<>> /\ pipe' = Tail(pipe)
  /\ IF Head(pipe) = "work"
     THEN UNCHANGED <<answer, reports, written, told, reader, timer>>
     ELSE LET text == IF Head(pipe) = "" THEN written ELSE Head(pipe) IN
          /\ written' = text /\ reader' = "idle"
          /\ SafeResolve(GradeOf(text)) /\ UNCHANGED told
  /\ UNCHANGED <<pc, stopped, proc, stubborn>>

\* processStream: agent_end settles the delegation and ends the process; its
\* text stays as it was if the last message has none.
ReadLine ==
  /\ reader = "reading" /\ pipe # <<>> /\ pipe' = Tail(pipe)
  /\ IF Head(pipe) = "work"
     THEN UNCHANGED <<answer, reports, written, told, reader, timer>>
     ELSE LET text == IF Head(pipe) = "" THEN written ELSE Head(pipe) IN
          /\ written' = text /\ told' = TRUE /\ reader' = "idle"
          /\ SafeResolve(GradeOf(text))
  /\ UNCHANGED <<pc, stopped, proc, stubborn>>

\* The stream ends some time after the process has, or not, if a child of it
\* holds the pipe.
StreamEnds ==
  /\ reader = "reading" /\ ~Alive /\ pipe = <<>> /\ reader' = "waiting"
  /\ UNCHANGED <<answer, reports, written, pc, stopped, proc, told, stubborn, pipe, timer>>

\* What both the reader and the race make of the exit of the process.
ExitSettles ==
  /\ SafeResolve(FinalText) /\ reader' = "idle"
  /\ UNCHANGED <<written, pc, stopped, proc, told, stubborn, pipe>>

ReaderSeesExit == reader = "waiting" /\ ~Alive /\ ExitSettles

\* One second after the exit, whatever the stream does.
ExitRace == pc = "spawned" /\ ~Alive /\ ~Resolved /\ ExitSettles

-----------------------------------------------------------------------------
\* The timeout: abort, end of stdin, and no more of the stream.
TimedOut ==
  /\ timer = "armed" /\ timer' = "closing"
  /\ reader' = IF reader = "reading" THEN "waiting" ELSE reader
  /\ UNCHANGED <<answer, reports, written, pc, stopped, proc, told, stubborn, pipe>>

TimerTerminates ==
  /\ timer = "closing"
  /\ IF Resolved THEN timer' = "off" /\ UNCHANGED told
                 ELSE timer' = "terminating" /\ told' = TRUE
  /\ UNCHANGED <<answer, reports, written, pc, stopped, proc, stubborn, pipe, reader>>

TimerKills ==
  /\ timer = "terminating" /\ timer' = "off"
  /\ IF Resolved THEN UNCHANGED <<answer, reports, proc>>
     ELSE /\ proc' = IF Alive THEN "down" ELSE proc
          /\ answer' = FinalText /\ reports' = reports + 1
  /\ UNCHANGED <<written, pc, stopped, told, stubborn, pipe, reader>>

PiStep ==
  \/ PiBegin \/ PiSpawn \/ PiStop \/ PiSteerStop
  \/ PiWrites \/ PiExits \/ PiObeys
  \/ ReadLine \/ StreamEnds \/ ReaderSeesExit \/ ExitRace
  \/ TimedOut \/ TimerTerminates \/ TimerKills
=============================================================================
