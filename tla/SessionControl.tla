--------------------------- MODULE SessionControl ---------------------------
(***************************************************************************)
(* One session of the engine: Orchestrator.run and runChain on one side,   *)
(* and everything that reaches into a running chain on the other: the      *)
(* operator's !pause, !resume and !stop, the budget monitor and the        *)
(* severity scanner that pause by themselves, the actions the reasoning    *)
(* loop queues, SIGINT, a killed process, and a resume from the checkpoint.*)
(*                                                                         *)
(* The engine is one JavaScript thread.  An action is the code that runs   *)
(* from one await on a timer, a process or the network to the next.  An    *)
(* await of emitter.message only appends to the emitter's buffer and is    *)
(* resumed before anything else, so it is no interleaving point; that is   *)
(* what the program counters "drain" and "staged" are for, during which    *)
(* no other part of the engine moves (only a kill can hit there).          *)
(***************************************************************************)
EXTENDS Naturals, Sequences, FiniteSets, SessionState, PipelineState

CONSTANTS
  Chain,        \* the chain's steps: a sequence of step kinds
  Teams,        \* the teams a REASSIGN can name
  HomeTeam,     \* the team the chain's steps and spawned steps start with
  SpawnLimit,   \* how many steps SPAWN_TEAM may add (3 in the source)
  MaxAttempts,  \* on_feedback.max_attempts (2 by default)
  MaxRetries,   \* a command's max_retries, the healing of an agent (3 each)
  Items,        \* the till_done items of a step
  CertMode,     \* MAE_CERTIFICATION_MODE = 1
  MaxActions,   \* bound: actions that wait in the queue at a time
  MaxCommands   \* bound: operator commands that arrive

\* "team" stands for parallel teams in one directory as well: both end in one
\* worst grade.  "isolated" are parallel teams in worktrees of their own, each
\* of them on a copy of the session.
StepKind == {"team", "agent", "deterministic", "isolated"}

ASSUME ChainAssumption == Chain \in Seq(StepKind) /\ Chain # <<>>
ASSUME TeamsAssumption == HomeTeam \in Teams
ASSUME LimitAssumption ==
  SpawnLimit \in Nat /\ MaxAttempts \in Nat /\ MaxRetries \in Nat
ASSUME ItemsAssumption == Items # {}
ASSUME ModeAssumption  == CertMode \in BOOLEAN
ASSUME BoundAssumption == MaxActions \in Nat /\ MaxCommands \in Nat

VARIABLES
  status,       \* session.status
  paused,       \* the session is in pausedSessions
  aborted,      \* its AbortController has fired
  pc,           \* where run() / runChain stands
  step,         \* the loop variable i of runChain, one-based
  steps,        \* the array of steps, which actions change in place
  base,         \* originalStepCount
  attempts,     \* how often the work of the step was begun again (for an
                \* agent's, behind the await of its spawn event: begun)
  skipped,      \* skippedSteps
  stages,       \* the pipeline checkpoint's stages
  pipe,         \* the pipeline checkpoint's status
  tillDone,     \* the completed till_done items, each with its step
  trace,        \* how each past step ended (its chain.step.end record)
  queue,        \* actionQueue
  thinking,     \* a reasoning cycle is in flight
  cmds,         \* commands received so far
  stopPending,  \* a !stop is waiting for its database update
  staleStop,    \* so is a !stop of the run before this one
  listening,    \* the SSE listener delivers commands
  monitorOn,    \* the ActiveMonitor's interval runs
  autoPaused,   \* autoPauseFired
  exiting,      \* SIGINT was received
  copies,       \* the statuses of the isolated teams' copies of the session
  rerun         \* this run was started after another one

runVars   == <<pc, step, steps, base, attempts, skipped, trace, tillDone>>
pipeVars  == <<stages, pipe>>
ctlVars   == <<status, paused, aborted>>
loopVars  == <<queue, thinking>>
steerVars == <<cmds, stopPending, listening, monitorOn, autoPaused>>
procVars  == <<exiting, rerun, staleStop, copies>>
vars == <<runVars, pipeVars, ctlVars, loopVars, steerVars, procVars>>

Step == [kind : StepKind, team : Teams]
Final == {"ended", "exited", "crashed"}
ProgramCounter ==
  {"gate", "drain", "staged", "working", "failing", "draining", "closing"}
    \cup Final

Grade == {"VERIFIED", "FEEDBACK", "FAILED"}   \* VERIFIED: any passing grade
CopyStatus == {"none", "active", "inactive"}  \* active: of one copy at least
Good(grade) == grade = "VERIFIED"
StepOutcome == {"completed", "degraded", "skipped", "failed"}
Verdict == SUBSET Items   \* of verifyTillDone: the items that are met

StepIndex == 1..(Len(Chain) + 2 * SpawnLimit)
Action ==
  [type : {"CONTINUE", "PAUSE", "ESCALATE_TO_USER"}]
    \cup [type : {"SKIP_STEP"}, stepIndex : StepIndex]
    \cup [type : {"REASSIGN"}, stepIndex : StepIndex, team : Teams]
    \cup [type : {"SPAWN_TEAM"}, team : Teams]

\* runTeamStep's isSessionStopped.
Stopped == status = "error" \/ aborted

\* No part of the engine runs between two microtasks of the runner.
Yielded == pc \notin {"drain", "staged"} \cup Final

\* The steps as the chains file has them.
Configured ==
  [k \in 1..Len(Chain) |-> [kind |-> Chain[k], team |-> HomeTeam]]

Init ==
  /\ status = "active" /\ paused = FALSE /\ aborted = FALSE
  /\ pc = "gate" /\ step = 1 /\ attempts = 0 /\ skipped = {}
  /\ steps = Configured /\ base = Len(Chain)
  /\ stages = <<>> /\ pipe = "running" /\ tillDone = {} /\ trace = <<>>
  /\ queue = <<>> /\ thinking = FALSE
  /\ cmds = 0 /\ stopPending = FALSE
  /\ listening = TRUE /\ monitorOn = TRUE /\ autoPaused = FALSE
  /\ exiting = FALSE /\ rerun = FALSE /\ staleStop = FALSE /\ copies = "none"

-----------------------------------------------------------------------------
(* runChain: the top of the loop.                                          *)

\* A skipped step is passed before the pause and the stop are looked at.
SkipStep ==
  /\ pc = "gate" /\ step <= Len(steps) /\ step \in skipped
  /\ trace' = Append(trace, "skipped")
  /\ step' = step + 1
  /\ UNCHANGED <<pc, steps, base, attempts, skipped, tillDone>>
  /\ UNCHANGED <<pipeVars, ctlVars, loopVars, steerVars, procVars>>

\* Mutant: the gate no longer looks at the status.
PassGateIgnoresStop ==
  /\ pc = "gate" /\ step <= Len(steps) /\ step \notin skipped
  /\ ~paused
  /\ pc' = "drain"
  /\ UNCHANGED <<step, steps, base, attempts, skipped, trace, tillDone>>
  /\ UNCHANGED <<pipeVars, ctlVars, loopVars, steerVars, procVars>>

\* The one-second poll finds the session unpaused and not stopped.
PassGate ==
  /\ pc = "gate" /\ step <= Len(steps) /\ step \notin skipped
  /\ ~paused
  /\ status # "error"
  /\ pc' = "drain"
  /\ UNCHANGED <<step, steps, base, attempts, skipped, trace, tillDone>>
  /\ UNCHANGED <<pipeVars, ctlVars, loopVars, steerVars, procVars>>

(* processLoopAction, one disjunct per case.  stepIndex names a later step *)
(* than the one about to start, or the action is dropped.                  *)

FutureStep(a) == step < a.stepIndex /\ a.stepIndex <= Len(steps)

ApplyPause(a) ==
  /\ a.type \in {"PAUSE", "ESCALATE_TO_USER"}
  /\ paused' = TRUE
  /\ status' = Transition(status, "paused")
  /\ UNCHANGED <<aborted, steps, skipped, stages>>

ApplySkip(a) ==
  /\ a.type = "SKIP_STEP"
  /\ IF FutureStep(a)
       THEN /\ skipped' = skipped \cup {a.stepIndex}
            /\ stages' = FailStage(stages, a.stepIndex)
       ELSE UNCHANGED <<skipped, stages>>
  /\ UNCHANGED <<ctlVars, steps>>

\* A step that names a team is a team's, even if it names an agent as well.
Reassigned(s, team) ==
  [kind |-> IF s.kind = "agent" THEN "team" ELSE s.kind, team |-> team]

ApplyReassign(a) ==
  /\ a.type = "REASSIGN"
  /\ steps' = IF FutureStep(a)
                THEN [steps EXCEPT ![a.stepIndex] = Reassigned(@, a.team)]
                ELSE steps
  /\ UNCHANGED <<ctlVars, skipped, stages>>

ApplySpawn(a) ==
  /\ a.type = "SPAWN_TEAM"
  /\ steps' = IF Len(steps) - base >= SpawnLimit
                THEN steps
                ELSE Append(steps, [kind |-> "team", team |-> a.team])
  /\ UNCHANGED <<ctlVars, skipped, stages>>

ApplyContinue(a) ==
  /\ a.type = "CONTINUE"
  /\ UNCHANGED <<ctlVars, steps, skipped, stages>>

\* One turn of the loop that empties the action queue; it breaks off as soon
\* as an action has paused the session.
ProcessLoopAction ==
  /\ pc = "drain" /\ queue # <<>> /\ status # "paused"
  /\ LET a == Head(queue)
     IN  \/ ApplyPause(a)    \/ ApplySkip(a)  \/ ApplyReassign(a)
         \/ ApplySpawn(a)    \/ ApplyContinue(a)
  /\ queue' = Tail(queue)
  /\ UNCHANGED <<pc, step, base, attempts, trace, tillDone, pipe>>
  /\ UNCHANGED <<thinking, steerVars, procVars>>

\* The step goes ahead, whatever the actions did to the session.
EnterStage ==
  /\ pc = "drain" /\ (queue = <<>> \/ status = "paused")
  /\ stages' = AddStage(stages)
  /\ pc' = "staged"
  /\ UNCHANGED <<step, steps, base, attempts, skipped, trace, tillDone, pipe>>
  /\ UNCHANGED <<ctlVars, loopVars, steerVars, procVars>>

StartStep ==
  /\ pc = "staged"
  /\ stages' = StartStage(stages, Len(stages))
  /\ attempts' = 0 /\ copies' = "none"
  /\ pc' = "working"
  /\ UNCHANGED <<step, steps, base, skipped, trace, tillDone, pipe>>
  /\ UNCHANGED <<ctlVars, loopVars, steerVars, exiting, rerun, staleStop>>

-----------------------------------------------------------------------------
(* runChain: the work of a step and what becomes of it.                    *)

Kind == steps[step].kind

\* runChain throws and run() catches: the session fails, unless it already
\* has a terminal status.
Throw ==
  /\ trace' = Append(trace, "failed")
  /\ status' = Transition(status, "error")
  /\ pipe' = "failed"
  /\ pc' = "failing"

\* The team, agent or command throws: a rejected spawn decision, a budget
\* limit, a failing command, a session found stopped between two phases.
WorkThrows ==
  /\ pc = "working"
  /\ Throw
  /\ UNCHANGED <<step, steps, base, attempts, skipped, tillDone, stages>>
  /\ UNCHANGED <<paused, aborted, loopVars, steerVars, procVars>>

\* runParallelStep copies the session for each of its teams, once it knows
\* that they can have worktrees.  A copy's status is the copy's own.
IsolateTeams ==
  /\ pc = "working" /\ Kind = "isolated" /\ copies = "none"
  /\ copies' = IF status = "active" THEN "active" ELSE "inactive"
  /\ UNCHANGED <<runVars, pipeVars, ctlVars, loopVars, steerVars>>
  /\ UNCHANGED <<exiting, rerun, staleStop>>

\* runDeterministicStep: a command that failed is run again ("loop"), and
\* neither the status nor the abort signal is looked at.
CommandRunsAgain ==
  /\ pc = "working" /\ Kind = "deterministic" /\ attempts < MaxRetries
  /\ attempts' = attempts + 1
  /\ UNCHANGED <<pc, step, steps, base, skipped, trace, tillDone>>
  /\ UNCHANGED <<pipeVars, ctlVars, loopVars, steerVars, procVars>>

\* runAgent delegates behind the await of agentSpawn, and its healing behind
\* that of the fixers, without another look.
AgentDelegated ==
  /\ pc = "working" /\ Kind = "agent" /\ attempts <= MaxRetries
  /\ attempts' = attempts + 1
  /\ UNCHANGED <<pc, step, steps, base, skipped, trace, tillDone>>
  /\ UNCHANGED <<pipeVars, ctlVars, loopVars, steerVars, procVars>>

\* A deterministic step has no grade: it returns or it throws.
WorkReturns(grade) ==
  /\ pc = "working"
  /\ Kind = "deterministic" => Good(grade)
  /\ Kind = "isolated" => copies # "none"
  /\ Kind = "agent" => attempts > 0

RetryWanted(grade) ==
  /\ Kind \in {"team", "isolated"} /\ ~Good(grade) /\ ~CertMode
  /\ attempts < MaxAttempts

\* The feedback loop runs the team again; runTeamStep refuses to start on a
\* session that has been stopped.
RetryStep(grade) ==
  /\ WorkReturns(grade) /\ RetryWanted(grade)
  /\ ~Stopped
  /\ attempts' = attempts + 1
  /\ UNCHANGED <<pc, step, steps, base, skipped, trace, tillDone>>
  /\ UNCHANGED <<pipeVars, ctlVars, loopVars, steerVars, procVars>>

RetryRefused(grade) ==
  /\ WorkReturns(grade) /\ RetryWanted(grade)
  /\ Stopped
  /\ attempts' = attempts + 1
  /\ Throw
  /\ UNCHANGED <<step, steps, base, skipped, tillDone, stages>>
  /\ UNCHANGED <<paused, aborted, loopVars, steerVars, procVars>>

\* verifyTillDone is run on passing grades only; met is its verdict.
Outcome(grade, met) ==
  IF grade = "FAILED" THEN "failed"
  ELSE IF Good(grade) /\ met = Items THEN "completed"
  ELSE IF CertMode THEN "degraded" ELSE "failed"

\* Items exist for the steps the chain began with.
ItemsOf(ks) == (ks \cap 1..base) \X Items

\* markTillDone checks off every item up to the step.
MarkTillDone(upTo) == ItemsOf(1..upTo)

\* verifyTillDone has checked off the step's own items by then, one by one,
\* whatever becomes of the step.
CheckedOff(grade, met) ==
  tillDone
    \cup (IF Good(grade) THEN ItemsOf({step}) \cap ({step} \X met) ELSE {})
    \cup (IF Outcome(grade, met) = "completed" THEN MarkTillDone(step) ELSE {})

\* Mutant: a deterministic step's stage is completed as well.
FinishStageOfAny == CompleteStage(stages, Len(stages))

\* The checkpoint's stage is completed whatever the grade, but never for a
\* deterministic step, which has no result to record.
FinishStage ==
  IF Kind = "deterministic" THEN stages
  ELSE CompleteStage(stages, Len(stages))

FinishStep(grade, met) ==
  /\ WorkReturns(grade) /\ ~RetryWanted(grade)
  /\ Outcome(grade, met) # "failed"
  /\ stages' = FinishStage
  /\ tillDone' = CheckedOff(grade, met)
  /\ trace' = Append(trace, Outcome(grade, met))
  /\ step' = step + 1
  /\ pc' = "gate"
  /\ UNCHANGED <<steps, base, attempts, skipped, pipe>>
  /\ UNCHANGED <<ctlVars, loopVars, steerVars, procVars>>

FailStep(grade, met) ==
  /\ WorkReturns(grade) /\ ~RetryWanted(grade)
  /\ Outcome(grade, met) = "failed"
  /\ stages' = FinishStage
  /\ tillDone' = CheckedOff(grade, met)
  /\ Throw
  /\ UNCHANGED <<step, steps, base, attempts, skipped>>
  /\ UNCHANGED <<paused, aborted, loopVars, steerVars, procVars>>

-----------------------------------------------------------------------------
(* Orchestrator.run: after runChain.                                       *)

\* Mutants: the loop ends one step early; it is not broken off by a stop.
ChainReturnsEarly ==
  /\ pc = "gate"
  /\ \/ step >= Len(steps)
     \/ step \notin skipped /\ ~paused /\ status = "error"
  /\ IF Stopped
       THEN pipe' = "failed" /\ UNCHANGED status
       ELSE pipe' = "completed" /\ status' = Transition(status, "completed")
  /\ pc' = "draining"
  /\ monitorOn' = FALSE
  /\ UNCHANGED <<step, steps, base, attempts, skipped, trace, tillDone, stages>>
  /\ UNCHANGED <<paused, aborted, loopVars, procVars>>
  /\ UNCHANGED <<cmds, stopPending, listening, autoPaused>>
ChainReturnsAtEndOnly ==
  /\ pc = "gate" /\ step > Len(steps)
  /\ IF Stopped
       THEN pipe' = "failed" /\ UNCHANGED status
       ELSE pipe' = "completed" /\ status' = Transition(status, "completed")
  /\ pc' = "draining"
  /\ monitorOn' = FALSE
  /\ UNCHANGED <<step, steps, base, attempts, skipped, trace, tillDone, stages>>
  /\ UNCHANGED <<paused, aborted, loopVars, procVars>>
  /\ UNCHANGED <<cmds, stopPending, listening, autoPaused>>

\* The loop is over, or was broken off by a stop.
ChainReturns ==
  /\ pc = "gate"
  /\ \/ step > Len(steps)
     \/ step \notin skipped /\ ~paused /\ status = "error"
  /\ IF Stopped
       THEN pipe' = "failed" /\ UNCHANGED status
       ELSE pipe' = "completed" /\ status' = Transition(status, "completed")
  /\ pc' = "draining"
  /\ monitorOn' = FALSE
  /\ UNCHANGED <<step, steps, base, attempts, skipped, trace, tillDone, stages>>
  /\ UNCHANGED <<paused, aborted, loopVars, procVars>>
  /\ UNCHANGED <<cmds, stopPending, listening, autoPaused>>

\* The catch block has recorded the failure in the database.
FailureRecorded ==
  /\ pc = "failing"
  /\ pc' = "draining"
  /\ monitorOn' = FALSE
  /\ UNCHANGED <<step, steps, base, attempts, skipped, trace, tillDone>>
  /\ UNCHANGED <<pipeVars, ctlVars, loopVars, procVars>>
  /\ UNCHANGED <<cmds, stopPending, listening, autoPaused>>

\* stopAndDrain came back: the cycle in flight ended, or five seconds passed.
LoopDrained ==
  /\ pc = "draining"
  /\ pc' = "closing"
  /\ UNCHANGED <<step, steps, base, attempts, skipped, trace, tillDone>>
  /\ UNCHANGED <<pipeVars, ctlVars, loopVars, steerVars, procVars>>

\* sessionEnd has updated the database; the listener is closed.
RunEnds ==
  /\ pc = "closing"
  /\ pc' = "ended"
  /\ listening' = FALSE
  /\ UNCHANGED <<step, steps, base, attempts, skipped, trace, tillDone>>
  /\ UNCHANGED <<pipeVars, ctlVars, loopVars, procVars>>
  /\ UNCHANGED <<cmds, stopPending, monitorOn, autoPaused>>

-----------------------------------------------------------------------------
(* handleSteerCommand.                                                     *)

CommandArrives ==
  /\ Yielded /\ listening /\ cmds < MaxCommands
  /\ cmds' = cmds + 1
  /\ UNCHANGED <<runVars, pipeVars, loopVars, procVars>>
  /\ UNCHANGED autoPaused

PauseCommand ==
  /\ CommandArrives
  /\ paused' = TRUE
  /\ status' = Transition(status, "paused")
  /\ UNCHANGED <<aborted, stopPending, listening, monitorOn>>

\* Mutant: the status is written without asking the table.
ResumeRevives ==
  /\ CommandArrives
  /\ paused' = FALSE
  /\ status' = "active"
  /\ UNCHANGED <<aborted, stopPending, listening, monitorOn>>

ResumeCommand ==
  /\ CommandArrives
  /\ paused' = FALSE
  /\ status' = Transition(status, "active")
  /\ UNCHANGED <<aborted, stopPending, listening, monitorOn>>

\* Mutant: the stop does not release a run blocked on a pause.
StopTailKeepsPause ==
  /\ UNCHANGED paused
  /\ monitorOn' = FALSE
  /\ aborted' = (aborted \/ (pc \notin {"closing", "ended"} /\ ~exiting))
  /\ listening' = FALSE

\* The part of "stop" behind its await.  The AbortController is gone once the
\* loop has been drained, or shutdown() has cleared sessionAborts.
StopTail ==
  /\ paused' = FALSE
  /\ monitorOn' = FALSE
  /\ aborted' = (aborted \/ (pc \notin {"closing", "ended"} /\ ~exiting))
  /\ listening' = FALSE

\* A stop that changes the status waits for the database before its tail.
StopCommand ==
  /\ CommandArrives
  /\ CanTransition(status, "error")
  /\ status' = "error"
  /\ stopPending' = TRUE
  /\ UNCHANGED <<paused, aborted, listening, monitorOn>>

\* A stop that changes nothing runs its tail at once.
LateStopCommand ==
  /\ CommandArrives
  /\ ~CanTransition(status, "error")
  /\ StopTail
  /\ UNCHANGED <<status, stopPending>>

StopRecorded ==
  /\ Yielded \/ pc = "ended"
  /\ stopPending
  /\ stopPending' = FALSE
  /\ StopTail
  /\ UNCHANGED <<status, cmds, autoPaused>>
  /\ UNCHANGED <<runVars, pipeVars, loopVars, procVars>>

\* The tail of the previous run's stop closes what is open by now: this
\* run's monitor and listener.
StaleStopRecorded ==
  /\ Yielded \/ pc = "ended"
  /\ staleStop
  /\ staleStop' = FALSE
  /\ monitorOn' = FALSE /\ listening' = FALSE
  /\ UNCHANGED <<cmds, stopPending, autoPaused, exiting, rerun, copies>>
  /\ UNCHANGED <<runVars, pipeVars, ctlVars, loopVars>>

-----------------------------------------------------------------------------
(* Pauses the engine imposes on itself.                                    *)

\* Mutant: the status is set and the flag the gate polls is not.
AutoPauseStatusOnly ==
  /\ Yielded /\ monitorOn /\ ~autoPaused
  /\ autoPaused' = TRUE
  /\ status' = Transition(status, "paused")
  /\ UNCHANGED <<paused, aborted, cmds, stopPending, listening, monitorOn>>
  /\ UNCHANGED <<runVars, pipeVars, loopVars, procVars>>

\* The monitor finds the budget's pause threshold crossed; once per run.
AutoPause ==
  /\ Yielded /\ monitorOn /\ ~autoPaused
  /\ autoPaused' = TRUE
  /\ paused' = TRUE
  /\ status' = Transition(status, "paused")
  /\ UNCHANGED <<aborted, cmds, stopPending, listening, monitorOn>>
  /\ UNCHANGED <<runVars, pipeVars, loopVars, procVars>>

\* A critical finding in an agent's stream.  Only the retries of an isolated
\* step are run on the session itself.
SeverityPause ==
  /\ pc = "working" /\ Kind # "deterministic"
  /\ Kind \in {"isolated", "agent"} => attempts > 0
  /\ status = "active"
  /\ paused' = TRUE
  /\ status' = Transition(status, "paused")
  /\ UNCHANGED <<aborted, runVars, pipeVars, loopVars, steerVars, procVars>>

\* An isolated team's agent reports one: the flag goes by the session's id,
\* the status is that of the team's copy.
SeverityPauseOfCopy ==
  /\ pc = "working" /\ Kind = "isolated" /\ attempts = 0
  /\ copies = "active"
  /\ copies' \in {"active", "inactive"}
  /\ paused' = TRUE
  /\ UNCHANGED <<status, aborted, runVars, pipeVars, loopVars, steerVars>>
  /\ UNCHANGED <<exiting, rerun, staleStop>>

-----------------------------------------------------------------------------
(* The reasoning loop, seen from here: a cycle starts on a session that is *)
(* not over (paused, only for a user's message) and delivers its actions   *)
(* whatever has become of the session meanwhile.                           *)

CycleStarts ==
  /\ Yielded /\ ~thinking /\ Len(queue) < MaxActions
  /\ status \notin Terminal
  /\ status = "paused" => listening
  /\ thinking' = TRUE
  /\ UNCHANGED queue
  /\ UNCHANGED <<runVars, pipeVars, ctlVars, steerVars, procVars>>

CycleDelivers(a) ==
  /\ Yielded /\ thinking
  /\ thinking' = FALSE
  /\ queue' = Append(queue, a)
  /\ UNCHANGED <<runVars, pipeVars, ctlVars, steerVars, procVars>>

\* The adapter threw or the reasoning timeout fired.
CycleFails ==
  /\ Yielded /\ thinking
  /\ thinking' = FALSE
  /\ UNCHANGED queue
  /\ UNCHANGED <<runVars, pipeVars, ctlVars, steerVars, procVars>>

-----------------------------------------------------------------------------
(* The process.                                                            *)

\* SIGINT or SIGTERM: shutdown() ends a live session; the process leaves
\* when its database update is done or after ten seconds.
Shutdown ==
  /\ Yielded /\ ~exiting
  /\ exiting' = TRUE
  /\ IF status \in {"active", "paused"}
       THEN /\ status' = Transition(status, "error")
            /\ aborted' = TRUE
            /\ monitorOn' = FALSE
            /\ listening' = FALSE
       ELSE UNCHANGED <<status, aborted, monitorOn, listening>>
  /\ UNCHANGED <<paused, cmds, stopPending, autoPaused, rerun, staleStop, copies>>
  /\ UNCHANGED <<runVars, pipeVars, loopVars>>

\* The memory goes with the process; the checkpoint stays, and so do the
\* variables the properties speak of.
Vanish(how) ==
  /\ pc' = how
  /\ attempts' = 0 /\ skipped' = {} /\ queue' = <<>>
  /\ thinking' = FALSE /\ autoPaused' = FALSE
  /\ stopPending' = FALSE /\ staleStop' = FALSE
  /\ listening' = FALSE /\ monitorOn' = FALSE /\ copies' = "none"
  /\ UNCHANGED <<step, steps, base, trace, tillDone, cmds>>
  /\ UNCHANGED <<pipeVars, ctlVars, exiting, rerun>>

ProcessExits == Yielded /\ exiting /\ Vanish("exited")

\* A kill can fall between any two writes, the two of "staged" included.
Crash == pc \notin Final /\ Vanish("crashed")

\* run() on a chain that is "from" by now (bound: one run after another; the
\* bound on commands is that of both together).
RunBegins(from) ==
  /\ ~rerun /\ rerun' = TRUE
  /\ status' = "active" /\ paused' = FALSE /\ aborted' = FALSE
  /\ pc' = "gate" /\ step' = 1 /\ attempts' = 0 /\ skipped' = {}
  /\ steps' = from /\ base' = Len(from)
  /\ stages' = <<>> /\ pipe' = "running" /\ tillDone' = {} /\ trace' = <<>>
  /\ queue' = <<>> /\ thinking' = FALSE /\ stopPending' = FALSE
  /\ listening' = TRUE /\ monitorOn' = TRUE /\ autoPaused' = FALSE
  /\ exiting' = FALSE /\ staleStop' = stopPending /\ copies' = "none"
  /\ UNCHANGED cmds

\* The interactive CLI runs the chain again in the same process.  The array
\* of steps is the one of the cached chains file, which the actions of the
\* first run have changed.
RunAgain == pc = "ended" /\ ~exiting /\ RunBegins(steps)

\* resume() of a checkpoint in a new process, which reads the chains file: a
\* new session runs the whole chain.
Resume ==
  /\ pc \in {"exited", "crashed"}
  /\ ResumableStages(stages) # {}
  /\ RunBegins(Configured)

-----------------------------------------------------------------------------
\* What happens within a step that is neither retried nor over.
StepGoesOn == IsolateTeams \/ CommandRunsAgain \/ AgentDelegated

\* What the agents or the command of a step can come to.
Work ==
  \/ StepGoesOn \/ WorkThrows
  \/ \E grade \in Grade :
       \/ RetryStep(grade) \/ RetryRefused(grade)
       \/ \E met \in Verdict : FinishStep(grade, met) \/ FailStep(grade, met)

Runner ==
  \/ SkipStep \/ PassGate \/ ProcessLoopAction \/ EnterStage \/ StartStep
  \/ Work
  \/ ChainReturns \/ FailureRecorded \/ LoopDrained \/ RunEnds

Steering ==
  \/ PauseCommand \/ ResumeCommand \/ StopCommand \/ LateStopCommand
  \/ StopRecorded \/ StaleStopRecorded \/ AutoPause \/ SeverityPause
  \/ SeverityPauseOfCopy

Reasoning ==
  CycleStarts \/ CycleFails \/ \E a \in Action : CycleDelivers(a)

Process == Shutdown \/ ProcessExits \/ Crash \/ RunAgain \/ Resume

Next == Runner \/ Steering \/ Reasoning \/ Process

Spec == Init /\ [][Next]_vars

\* The runner's timers fire, the work of a step ends (agents have timeouts;
\* a command is assumed to end), a database update is answered or given up,
\* and an exiting process exits.  Operators and models need do nothing.
FairSpec ==
  Spec /\ WF_vars(Runner) /\ WF_vars(StopRecorded) /\ WF_vars(ProcessExits)

-----------------------------------------------------------------------------
(* Properties.                                                             *)

\* Every variable has its type.
TypeOK ==
  /\ status \in SessionStatus /\ paused \in BOOLEAN /\ aborted \in BOOLEAN
  /\ pc \in ProgramCounter
  /\ steps \in Seq(Step) /\ step \in 1..(Len(steps) + 1)
  /\ attempts \in Nat /\ skipped \in SUBSET Nat
  /\ stages \in Seq(StageStatus) /\ pipe \in PipelineStatus
  /\ base \in Nat /\ tillDone \subseteq (1..base) \X Items /\ trace \in Seq(StepOutcome)
  /\ queue \in Seq(Action) /\ thinking \in BOOLEAN
  /\ cmds \in Nat /\ stopPending \in BOOLEAN
  /\ listening \in BOOLEAN /\ monitorOn \in BOOLEAN /\ autoPaused \in BOOLEAN
  /\ exiting \in BOOLEAN /\ rerun \in BOOLEAN /\ staleStop \in BOOLEAN
  /\ copies \in CopyStatus

\* The two records of a pause agree for as long as the session is live: the
\* flag the gate polls, and the status the operator sees.  Seven pieces of
\* code write one or both of them.  Isolated teams break one direction.
NoneIsolated == \A k \in DOMAIN steps : steps[k].kind # "isolated"
PauseFlagAgrees ==
  status \notin Terminal =>
    /\ status = "paused" => paused
    /\ NoneIsolated => (paused => status = "paused")

\* A session is reported completed only when each of its steps, the spawned
\* ones included, has ended and none has failed, and the checkpoint agrees.
CompletedIsEarned ==
  status = "completed" =>
    /\ Len(trace) = Len(steps)
    /\ \A k \in DOMAIN trace : trace[k] # "failed"
    /\ pipe = "completed"

\* Outside certification mode, a step with an item checked off has passed or
\* was skipped; or else the run ended with it, and not all its items were met.
TillDoneBacked ==
  ~CertMode =>
    \A item \in tillDone :
      LET k == item[1]
      IN  /\ k \in DOMAIN trace
          /\ \/ trace[k] \in {"completed", "skipped"}
             \/ /\ k = Len(trace) /\ trace[k] = "failed"
                /\ \E i \in Items : <<k, i>> \notin tillDone

\* Between two steps, the checkpoint holds one stage for each step that was
\* run, and the completed ones are those of the graded steps.
Ran(k) == k \in DOMAIN trace /\ trace[k] # "skipped"
CheckpointMatchesTrace ==
  pc = "gate" =>
    /\ Len(stages) = Cardinality({k \in DOMAIN trace : Ran(k)})
    /\ Cardinality({s \in DOMAIN stages : stages[s] = "completed"})
         = Cardinality({k \in DOMAIN trace :
                          Ran(k) /\ steps[k].kind # "deterministic"})

\* The reasoning loop cannot make the chain longer than its limit allows.
SpawnBounded == Len(steps) <= base + SpawnLimit

StepStarts == pc = "staged" /\ pc' = "working"
RetryStarts == pc = "working" /\ pc' = "working" /\ attempts' # attempts
Launches == StepStarts \/ RetryStarts
SameRun == rerun' = rerun

\* Once a stop has been accepted, no step begins and no team is run again.
\* What the code does launch is the command or the agent of the step under
\* way, and no more often than its retries allow.
OwnWork == /\ pc = "working" /\ Kind \in {"deterministic", "agent"}
           /\ attempts <= MaxRetries
NoWorkAfterStop == [][Launches /\ status = "error" => OwnWork]_vars

\* An action of the reasoning loop never reaches a step that has started or
\* ended: neither its team, nor its being skipped, nor its checkpoint stage.
Begun(k) == k \in DOMAIN steps /\
            (k < step \/ (k = step /\ pc \in {"staged", "working"}))
BegunStepsAreFrozen ==
  [][SameRun => /\ \A k \in DOMAIN steps : Begun(k) =>
                     /\ steps'[k] = steps[k]
                     /\ k \in skipped' => k \in skipped
                /\ \A s \in DOMAIN stages :
                     stages[s] = "completed" => stages'[s] = "completed"]_vars

\* A stop, an error or a shutdown brings the run to its end, a run blocked
\* on a pause included.
StopEndsRun == (status = "error") ~> (pc \in Final)

\* A run that does not stay paused ends, the second run of the process and
\* the one resumed included, however often the reasoning loop asks for teams.
RunTerminates == <>[](~paused) => []<>(pc \in Final)

\* The engine implements the session lifecycle that the documents promise.
Lifecycle == INSTANCE SessionLifecycle
               WITH atWork <- pc = "working", over <- pc \in Final
LifecycleSpec == Lifecycle!Spec

(* What comments and documents say, or one would expect, and the code does *)
(* not do.                                                                 *)

\* Nothing is launched on a session that was stopped.  A command that fails is
\* run again, and an agent is delegated to after an await, without another look.
WorkHeldByStop == [][Launches => status # "error"]_vars

\* A pause requested by the reasoning loop holds back the step it was
\* requested before.
PauseHoldsNextStep == [][StepStarts => status = "active"]_vars

\* A run that is held back by a pause shows as paused.
PauseIsShown == status \notin Terminal /\ paused => status = "paused"

\* While a session is paused, running agents finish and no new ones start.
PauseHoldsRetry == [][RetryStarts => status # "paused"]_vars

\* A chain defines which teams run in what order: every run starts from it.
RunsAsConfigured == pc = "gate" /\ step = 1 => steps = Configured

\* The checkpoint of a run that was killed in the middle can be resumed.
InterruptedRunIsResumable ==
  pc = "crashed" /\ pipe = "running" /\ stages # <<>>
    => ResumableStages(stages) # {}
=============================================================================
