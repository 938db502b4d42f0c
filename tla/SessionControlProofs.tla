------------------------- MODULE SessionControlProofs -------------------------
(***************************************************************************)
(* Theorems about SessionControl that hold for every chain, every set of   *)
(* teams, every limit, and any number of commands and of actions.          *)
(***************************************************************************)
EXTENDS SessionControl, SequenceTheorems, FiniteSetTheorems, TLAPS

-----------------------------------------------------------------------------
(* What the operators return.                                              *)

LEMMA TransitionTyped ==
  ASSUME NEW from \in SessionStatus, NEW to \in SessionStatus
  PROVE  Transition(from, to) \in SessionStatus
  BY DEF Transition

LEMMA StatusIsStatus ==
  /\ "active" \in SessionStatus /\ "paused" \in SessionStatus
  /\ "completed" \in SessionStatus /\ "error" \in SessionStatus
  BY DEF SessionStatus

\* Where each request leads, spelled out from the table.
LEMMA TransitionTable ==
  ASSUME NEW from \in SessionStatus, NEW to \in SessionStatus
  PROVE  /\ from \in Terminal => Transition(from, to) = from
         /\ from \notin Terminal /\ to # from => Transition(from, to) = to
         /\ from \notin Terminal /\ to = from => Transition(from, to) = from
         /\ CanTransition(from, "error") <=> from \notin Terminal
  BY DEF Transition, CanTransition, ValidTransitions, SessionStatus, Terminal

LEMMA SetStageTyped ==
  ASSUME NEW s \in Seq(StageStatus), NEW idx, NEW to \in StageStatus
  PROVE  SetStage(s, idx, to) \in Seq(StageStatus) /\ Len(SetStage(s, idx, to)) = Len(s)
<1>1. CASE idx \in DOMAIN s
  <2>1. idx \in 1..Len(s)
    BY <1>1, LenProperties
  <2> QED
    BY <1>1, <2>1, ExceptSeq DEF SetStage
<1>2. CASE idx \notin DOMAIN s
  BY <1>2 DEF SetStage
<1> QED
  BY <1>1, <1>2

LEMMA StagesTyped ==
  ASSUME NEW s \in Seq(StageStatus), NEW idx
  PROVE  /\ AddStage(s) \in Seq(StageStatus)
         /\ StartStage(s, idx) \in Seq(StageStatus)
         /\ CompleteStage(s, idx) \in Seq(StageStatus)
         /\ FailStage(s, idx) \in Seq(StageStatus)
<1>1. {"pending", "running", "completed", "failed"} \subseteq StageStatus
  BY DEF StageStatus
<1>2. Append(s, "pending") \in Seq(StageStatus)
  BY <1>1
<1> QED
  BY <1>1, <1>2, SetStageTyped DEF AddStage, StartStage, CompleteStage, FailStage

LEMMA ReassignTyped ==
  ASSUME NEW s \in Seq(Step), NEW i \in 1..Len(s), NEW t \in Teams
  PROVE  /\ [s EXCEPT ![i] = Reassigned(s[i], t)] \in Seq(Step)
         /\ Len([s EXCEPT ![i] = Reassigned(s[i], t)]) = Len(s)
         /\ \A k \in 1..Len(s) : k # i =>
               [s EXCEPT ![i] = Reassigned(s[i], t)][k] = s[k]
         /\ \A k \in 1..Len(s) :
               s[k].kind = "isolated" =>
                 [s EXCEPT ![i] = Reassigned(s[i], t)][k].kind = "isolated"
<1> DEFINE e == Reassigned(s[i], t)
<1>1. s[i] \in Step /\ \A k \in 1..Len(s) : s[k] \in Step
  BY ElementOfSeq
<1>2. e \in Step /\ (s[i].kind = "isolated" => e.kind = "isolated")
  BY <1>1 DEF Reassigned, Step, StepKind
<1> HIDE DEF e
<1>3. \A k \in 1..Len(s) : [s EXCEPT ![i] = e][k] = IF k = i THEN e ELSE s[k]
  BY <1>2, ExceptSeq
<1>4. [s EXCEPT ![i] = e] \in Seq(Step) /\ Len([s EXCEPT ![i] = e]) = Len(s)
  BY <1>2, ExceptSeq
<1>5. \A k \in 1..Len(s) :
         s[k].kind = "isolated" => [s EXCEPT ![i] = e][k].kind = "isolated"
  BY <1>2, <1>3
<1> QED
  BY <1>3, <1>4, <1>5 DEF e

LEMMA ActionTyped ==
  ASSUME NEW a \in Action
  PROVE  /\ a.type \in {"SKIP_STEP", "REASSIGN"} => a.stepIndex \in Nat
         /\ a.type \in {"REASSIGN", "SPAWN_TEAM"} => a.team \in Teams
<1>1. SpawnLimit \in Nat /\ Len(Chain) \in Nat
  BY LimitAssumption, ChainAssumption
<1>2. StepIndex \subseteq Nat
  BY <1>1 DEF StepIndex
<1> QED
  BY <1>2 DEF Action

LEMMA AppendSeq ==
  ASSUME NEW S, NEW s \in Seq(S), NEW e \in S
  PROVE  /\ Append(s, e) \in Seq(S) /\ Len(Append(s, e)) = Len(s) + 1
         /\ DOMAIN Append(s, e) = 1..(Len(s) + 1) /\ DOMAIN s = 1..Len(s)
         /\ Len(s) \in Nat
         /\ \A k \in 1..Len(s) : Append(s, e)[k] = s[k]
         /\ Append(s, e)[Len(s) + 1] = e
  OBVIOUS

LEMMA ConfiguredTyped ==
  Configured \in Seq(Step) /\ Len(Configured) = Len(Chain) /\ Len(Chain) \in Nat \ {0}
<1>1. Len(Chain) \in Nat \ {0}
  BY ChainAssumption, EmptySeq
<1>2. \A k \in 1..Len(Chain) : Chain[k] \in StepKind
  BY ChainAssumption, ElementOfSeq
<1>3. Configured \in [1..Len(Chain) -> Step]
  BY <1>2, TeamsAssumption DEF Configured, Step
<1>4. Configured \in Seq(Step)
  BY <1>1, <1>3, SeqDef
<1>5. DOMAIN Configured = 1..Len(Chain)
  BY DEF Configured
<1>6. Len(Configured) = Len(Chain)
  BY <1>1, <1>4, <1>5, LenProperties
<1> QED
  BY <1>1, <1>4, <1>6
-----------------------------------------------------------------------------
(* Type correctness.  A step that is about to start or under way exists,   *)
(* which makes step + 1 a legal value again.                               *)

InStep == pc \in {"drain", "staged", "working"} => step <= Len(steps)

TypeInv == TypeOK /\ InStep

LEMMA InitTypeInv == Init => TypeInv
<1> SUFFICES ASSUME Init PROVE TypeInv
  OBVIOUS
<1>1. steps = Configured
  BY DEF Init
<1>2. /\ stages \in Seq(StageStatus) /\ trace \in Seq(StepOutcome)
      /\ queue \in Seq(Action)
  BY EmptySeq DEF Init
<1>3. steps \in Seq(Step) /\ step = 1 /\ step \in 1..(Len(steps) + 1)
  BY <1>1, ConfiguredTyped DEF Init
<1>4. base \in Nat /\ tillDone \subseteq (1..base) \X Items /\ skipped \in SUBSET Nat
  BY ConfiguredTyped DEF Init
<1> QED
  BY <1>2, <1>3, <1>4
  DEF Init, TypeInv, InStep, TypeOK, SessionStatus, ProgramCounter, PipelineStatus,
      CopyStatus

\* The steps of the runner, one by one.
LEMMA RunnerTypeInv ==
  ASSUME TypeInv, Runner
  PROVE  TypeInv'
<1> USE DEF TypeInv, TypeOK, InStep
<1> USE DEF runVars, pipeVars, ctlVars, loopVars, steerVars, procVars
<1>0. /\ Len(steps) \in Nat /\ Len(Chain) \in Nat
      /\ {"failed", "skipped", "completed", "degraded"} \subseteq StepOutcome
      /\ {"gate", "drain", "staged", "working", "failing", "draining",
          "closing", "ended", "exited", "crashed"} \subseteq ProgramCounter
      /\ {"completed", "failed"} \subseteq PipelineStatus
      /\ {"none", "active", "inactive"} \subseteq CopyStatus
  BY ConfiguredTyped
  DEF StepOutcome, ProgramCounter, Final, PipelineStatus, CopyStatus
<1>1. CASE SkipStep
  BY <1>0, <1>1 DEF SkipStep
<1>2. CASE PassGate
  BY <1>0, <1>2 DEF PassGate
<1>3. CASE ProcessLoopAction
  <2> DEFINE a == Head(queue)
  <2>0. queue' \in Seq(Action) /\ a \in Action
    BY <1>3, HeadTailProperties DEF ProcessLoopAction
  <2>1. UNCHANGED <<pc, base, step, attempts, trace, tillDone, pipe, thinking,
                    staleStop,
                    cmds, stopPending, listening, monitorOn, autoPaused,
                    exiting, rerun, copies>>
    BY <1>3 DEF ProcessLoopAction
  <2>2. SUFFICES /\ status' \in SessionStatus /\ paused' \in BOOLEAN
                 /\ aborted' \in BOOLEAN
                 /\ steps' \in Seq(Step) /\ Len(steps') >= Len(steps)
                 /\ skipped' \in SUBSET Nat /\ stages' \in Seq(StageStatus)
    <3>1. Len(steps') \in Nat
      BY <2>2, LenProperties
    <3> QED
      BY <1>0, <2>0, <2>1, <2>2, <3>1
  <2>3. CASE ApplyPause(a)
    BY <1>0, <2>3, TransitionTyped, StatusIsStatus DEF ApplyPause
  <2>4. CASE ApplySkip(a)
    <3>1. a.stepIndex \in Nat
      BY <2>0, <2>4, ActionTyped DEF ApplySkip
    <3> QED
      <4>1. skipped' \in SUBSET Nat
        BY <2>4, <3>1 DEF ApplySkip
      <4>2. stages' \in Seq(StageStatus)
        BY <2>4, StagesTyped DEF ApplySkip
      <4> QED
        BY <1>0, <2>4, <4>1, <4>2 DEF ApplySkip
  <2>5. CASE ApplyReassign(a)
    <3>1. a.stepIndex \in Nat /\ a.team \in Teams
      BY <2>0, <2>5, ActionTyped DEF ApplyReassign
    <3>2. FutureStep(a) => a.stepIndex \in 1..Len(steps)
      BY <1>0, <3>1 DEF FutureStep
    <3> QED
      BY <1>0, <2>5, <3>1, <3>2, ReassignTyped DEF ApplyReassign
  <2>6. CASE ApplySpawn(a)
    <3>1. [kind |-> "team", team |-> a.team] \in Step
      BY <2>0, <2>6, ActionTyped DEF ApplySpawn, Step, StepKind
    <3>2. Append(steps, [kind |-> "team", team |-> a.team]) \in Seq(Step)
          /\ Len(Append(steps, [kind |-> "team", team |-> a.team])) = Len(steps) + 1
      BY <3>1
    <3> QED
      BY <1>0, <2>6, <3>2 DEF ApplySpawn
  <2>7. CASE ApplyContinue(a)
    BY <1>0, <2>7 DEF ApplyContinue
  <2> QED
    BY <1>3, <2>3, <2>4, <2>5, <2>6, <2>7 DEF ProcessLoopAction
<1>4. CASE EnterStage
  BY <1>0, <1>4, StagesTyped DEF EnterStage
<1>5. CASE StartStep
  BY <1>0, <1>5, StagesTyped DEF StartStep
<1>6. CASE Work
  <2>0. CASE StepGoesOn
    <3>1. CASE IsolateTeams
      BY <1>0, <3>1 DEF IsolateTeams
    <3>2. attempts \in Nat /\ attempts + 1 \in Nat
      OBVIOUS
    <3>3. CASE CommandRunsAgain
      BY <1>0, <3>2, <3>3 DEF CommandRunsAgain
    <3>4. CASE AgentDelegated
      BY <1>0, <3>2, <3>4 DEF AgentDelegated
    <3> QED
      BY <2>0, <3>1, <3>3, <3>4 DEF StepGoesOn
  <2>1. CASE WorkThrows
    BY <1>0, <2>1, TransitionTyped, StatusIsStatus DEF WorkThrows, Throw
  <2>2. ASSUME NEW g \in Grade, RetryStep(g) PROVE TypeInv'
    BY <1>0, <2>2 DEF RetryStep, WorkReturns
  <2>3. ASSUME NEW g \in Grade, RetryRefused(g) PROVE TypeInv'
    BY <1>0, <2>3, TransitionTyped, StatusIsStatus DEF RetryRefused, WorkReturns, Throw
  <2>4. FinishStage \in Seq(StageStatus)
    BY StagesTyped DEF FinishStage
  <2>5. ASSUME NEW g \in Grade, NEW v \in Verdict, FinishStep(g, v)
        PROVE  TypeInv'
    <3>1. Outcome(g, v) \in StepOutcome
      BY DEF Outcome, StepOutcome
    <3>2. tillDone' \subseteq (1..base) \X Items
      BY <2>5 DEF FinishStep, CheckedOff, MarkTillDone, ItemsOf
    <3> QED
      BY <1>0, <2>4, <2>5, <3>1, <3>2 DEF FinishStep, WorkReturns
  <2>6. ASSUME NEW g \in Grade, NEW v \in Verdict, FailStep(g, v)
        PROVE  TypeInv'
    <3>1. tillDone' \subseteq (1..base) \X Items
      BY <2>6 DEF FailStep, CheckedOff, MarkTillDone, ItemsOf
    <3> QED
      BY <1>0, <2>4, <2>6, <3>1, TransitionTyped, StatusIsStatus
      DEF FailStep, WorkReturns, Throw
  <2> QED
    BY <1>6, <2>0, <2>1, <2>2, <2>3, <2>5, <2>6 DEF Work
<1>7. CASE ChainReturns
  BY <1>0, <1>7, TransitionTyped, StatusIsStatus DEF ChainReturns
<1>8. CASE FailureRecorded
  BY <1>0, <1>8 DEF FailureRecorded
<1>9. CASE LoopDrained
  BY <1>0, <1>9 DEF LoopDrained
<1>10. CASE RunEnds
  BY <1>0, <1>10 DEF RunEnds
<1> QED
  BY <1>1, <1>2, <1>3, <1>4, <1>5, <1>6, <1>7, <1>8, <1>9, <1>10 DEF Runner

\* Everything that reaches into the runner from outside.
LEMMA SteeringTypeInv ==
  ASSUME TypeInv, Steering
  PROVE  TypeInv'
<1> USE DEF TypeInv, TypeOK, InStep
<1> USE DEF runVars, pipeVars, ctlVars, loopVars, steerVars, procVars
<1> USE StatusIsStatus
<1>0. /\ Transition(status, "paused") \in SessionStatus
      /\ Transition(status, "active") \in SessionStatus
  BY TransitionTyped
<1>1. CASE PauseCommand
  BY <1>0, <1>1 DEF PauseCommand, CommandArrives
<1>2. CASE ResumeCommand
  <2>1. paused' \in BOOLEAN
    BY <1>2 DEF ResumeCommand
  <2> QED
    BY <1>0, <1>2, <2>1 DEF ResumeCommand, CommandArrives
<1>3. CASE StopCommand
  BY <1>3 DEF StopCommand, CommandArrives
<1>4. CASE LateStopCommand
  <2>1. aborted' \in BOOLEAN /\ paused' \in BOOLEAN /\ monitorOn' \in BOOLEAN
        /\ listening' \in BOOLEAN
    BY <1>4 DEF LateStopCommand, StopTail
  <2> QED
    BY <1>4, <2>1 DEF LateStopCommand, CommandArrives, StopTail
<1>5. CASE StopRecorded
  BY <1>5 DEF StopRecorded, StopTail
<1>6. CASE AutoPause
  BY <1>0, <1>6 DEF AutoPause
<1>7. CASE SeverityPause
  BY <1>0, <1>7 DEF SeverityPause
<1>8. CASE StaleStopRecorded
  BY <1>8 DEF StaleStopRecorded
<1>9. CASE SeverityPauseOfCopy
  BY <1>9 DEF SeverityPauseOfCopy, CopyStatus
<1> QED
  BY <1>1, <1>2, <1>3, <1>4, <1>5, <1>6, <1>7, <1>8, <1>9 DEF Steering

LEMMA ReasoningTypeInv ==
  ASSUME TypeInv, Reasoning
  PROVE  TypeInv'
<1> USE DEF TypeInv, TypeOK, InStep
<1> USE DEF runVars, pipeVars, ctlVars, loopVars, steerVars, procVars
<1>1. CASE CycleStarts
  BY <1>1 DEF CycleStarts
<1>2. CASE CycleFails
  BY <1>2 DEF CycleFails
<1>3. ASSUME NEW a \in Action, CycleDelivers(a) PROVE TypeInv'
  <2>1. queue' \in Seq(Action)
    BY <1>3 DEF CycleDelivers
  <2>2. thinking' \in BOOLEAN
    BY <1>3 DEF CycleDelivers
  <2> QED
    BY <1>3, <2>1, <2>2 DEF CycleDelivers
<1> QED
  BY <1>1, <1>2, <1>3 DEF Reasoning

LEMMA VanishTypeInv ==
  ASSUME TypeInv, NEW how \in {"exited", "crashed"}, Vanish(how)
  PROVE  TypeInv'
<1> USE DEF runVars, pipeVars, ctlVars, loopVars, steerVars, procVars
<1>1. how \in ProgramCounter /\ how \notin {"drain", "staged", "working"}
  BY DEF ProgramCounter, Final
<1>2. queue' \in Seq(Action)
  BY EmptySeq DEF Vanish
<1> QED
  BY <1>1, <1>2 DEF Vanish, TypeInv, TypeOK, InStep, CopyStatus

\* A run puts back everything Init sets, but for the bounds.
LEMMA RunBeginsTypeInv ==
  ASSUME TypeInv, NEW from \in Seq(Step), RunBegins(from)
  PROVE  TypeInv'
<1>1. /\ stages' \in Seq(StageStatus) /\ trace' \in Seq(StepOutcome)
      /\ queue' \in Seq(Action)
  BY EmptySeq DEF RunBegins
<1>2. Len(from) \in Nat
  BY LenProperties
<1>3. steps' \in Seq(Step) /\ step' = 1 /\ step' \in 1..(Len(steps') + 1)
  BY <1>2 DEF RunBegins
<1>4. base' \in Nat /\ tillDone' \subseteq (1..base') \X Items /\ skipped' \in SUBSET Nat
  BY <1>2 DEF RunBegins
<1>5. /\ paused' \in BOOLEAN /\ aborted' \in BOOLEAN /\ thinking' \in BOOLEAN
      /\ stopPending' \in BOOLEAN /\ listening' \in BOOLEAN /\ monitorOn' \in BOOLEAN
      /\ autoPaused' \in BOOLEAN /\ exiting' \in BOOLEAN /\ rerun' \in BOOLEAN
  BY DEF RunBegins
<1>6. staleStop' \in BOOLEAN /\ cmds' \in Nat
  BY DEF RunBegins, TypeInv, TypeOK
<1> QED
  BY <1>1, <1>3, <1>4, <1>5, <1>6
  DEF RunBegins, TypeInv, InStep, TypeOK, SessionStatus, ProgramCounter,
      PipelineStatus, CopyStatus

\* The two ways to begin one.
LEMMA RunsBegin ==
  ASSUME TypeInv, RunAgain \/ Resume
  PROVE  \E from \in Seq(Step) : RunBegins(from)
  BY ConfiguredTyped DEF TypeInv, TypeOK, RunAgain, Resume

LEMMA ProcessTypeInv ==
  ASSUME TypeInv, Process
  PROVE  TypeInv'
<1> USE DEF runVars, pipeVars, ctlVars, loopVars, steerVars, procVars
<1>1. CASE Shutdown
  BY <1>1, TransitionTyped, StatusIsStatus DEF Shutdown, TypeInv, TypeOK, InStep
<1>2. CASE ProcessExits
  BY <1>2, VanishTypeInv DEF ProcessExits
<1>3. CASE Crash
  BY <1>3, VanishTypeInv DEF Crash
<1>4. CASE RunAgain \/ Resume
  BY <1>4, RunsBegin, RunBeginsTypeInv
<1> QED
  BY <1>1, <1>2, <1>3, <1>4 DEF Process

LEMMA NextTypeInv == TypeInv /\ [Next]_vars => TypeInv'
<1> SUFFICES ASSUME TypeInv, [Next]_vars PROVE TypeInv'
  OBVIOUS
<1>1. CASE UNCHANGED vars
  BY <1>1 DEF TypeInv, TypeOK, InStep, vars, runVars, pipeVars, ctlVars,
              loopVars, steerVars, procVars
<1> QED
  BY <1>1, RunnerTypeInv, SteeringTypeInv, ReasoningTypeInv, ProcessTypeInv DEF Next

LEMMA TypeInvariant == Spec => []TypeInv
  BY InitTypeInv, NextTypeInv, PTL DEF Spec

\* Every variable of the engine's control state keeps its type.
THEOREM TypeCorrect == Spec => []TypeOK
  BY TypeInvariant, PTL DEF TypeInv
-----------------------------------------------------------------------------
(* The status, the pause flag and the program counter.                     *)

\* A pending stop has set the status before its await, and the abort comes
\* after it: this is why StopTail may clear the flag without a second look.
StopIsTerminal == stopPending \/ aborted => status \in Terminal

\* Which statuses go with which place of the runner.
StatusAtPc ==
  /\ pc \in {"drain", "staged"} => status \notin Terminal
  /\ pc \in {"gate", "working"} => status # "completed"
  /\ pc \in {"failing", "draining", "closing", "ended"} => status \in Terminal

ControlInv == PauseFlagAgrees /\ StopIsTerminal /\ StatusAtPc

\* The transitions the engine asks for, on a typed status.
LEMMA Transitions ==
  ASSUME TypeInv
  PROVE  /\ status \in SessionStatus
         /\ status \in Terminal <=> status \in {"completed", "error"}
         /\ Transition(status, "paused") = IF status \in Terminal THEN status ELSE "paused"
         /\ Transition(status, "active") = IF status \in Terminal THEN status ELSE "active"
         /\ Transition(status, "error") = IF status \in Terminal THEN status ELSE "error"
         /\ Transition(status, "completed") =
              IF status \in Terminal THEN status ELSE "completed"
         /\ CanTransition(status, "error") <=> status \notin Terminal
<1>1. status \in SessionStatus
  BY DEF TypeInv, TypeOK
<1>2. status \in Terminal <=> status \in {"completed", "error"}
  BY DEF Terminal
<1>3. "paused" \notin Terminal /\ "active" \notin Terminal
  BY DEF Terminal
<1> QED
  BY <1>1, <1>2, <1>3, TransitionTable, StatusIsStatus

\* The reasoning loop does not unmake an isolated step.
LEMMA KindsKept ==
  ASSUME TypeInv, ProcessLoopAction
  PROVE  NoneIsolated' => NoneIsolated
<1> DEFINE a == Head(queue)
<1> SUFFICES \A k \in DOMAIN steps :
               steps[k].kind = "isolated" =>
                 k \in DOMAIN steps' /\ steps'[k].kind = "isolated"
  BY DEF NoneIsolated
<1>1. a \in Action /\ steps \in Seq(Step) /\ step \in Nat /\ Len(steps) \in Nat
      /\ DOMAIN steps = 1..Len(steps)
  BY HeadTailProperties, LenProperties DEF ProcessLoopAction, TypeInv, TypeOK
<1>2. CASE ApplyReassign(a)
  <2>1. a.stepIndex \in Nat /\ a.team \in Teams
    BY <1>1, <1>2, ActionTyped DEF ApplyReassign
  <2>2. CASE FutureStep(a)
    <3>1. a.stepIndex \in 1..Len(steps)
      BY <1>1, <2>1, <2>2 DEF FutureStep
    <3>2. steps' = [steps EXCEPT ![a.stepIndex] = Reassigned(steps[a.stepIndex], a.team)]
      BY <1>2, <2>2 DEF ApplyReassign
    <3>3. steps' \in Seq(Step) /\ Len(steps') = Len(steps)
          /\ \A k \in 1..Len(steps) :
               steps[k].kind = "isolated" => steps'[k].kind = "isolated"
      BY <1>1, <2>1, <3>1, <3>2, ReassignTyped
    <3>4. DOMAIN steps' = 1..Len(steps)
      BY <3>3, LenProperties
    <3> QED
      BY <1>1, <3>3, <3>4
  <2>3. CASE ~FutureStep(a)
    BY <1>2, <2>3 DEF ApplyReassign
  <2> QED
    BY <2>2, <2>3
<1>3. CASE ApplySpawn(a)
  <2>1. [kind |-> "team", team |-> a.team] \in Step
    BY <1>1, <1>3, ActionTyped DEF ApplySpawn, Step, StepKind
  <2> QED
    BY <1>1, <1>3, <2>1, AppendSeq DEF ApplySpawn
<1>4. CASE UNCHANGED steps
  BY <1>4
<1> QED
  BY <1>2, <1>3, <1>4 DEF ProcessLoopAction, ApplyPause, ApplySkip, ApplyContinue

LEMMA InitControlInv == Init => ControlInv
  BY DEF Init, ControlInv, PauseFlagAgrees, StopIsTerminal, StatusAtPc, Terminal

LEMMA RunnerControlInv ==
  ASSUME TypeInv, ControlInv, Runner
  PROVE  ControlInv'
<1> USE DEF ControlInv, PauseFlagAgrees, StopIsTerminal, StatusAtPc
<1> USE DEF runVars, pipeVars, ctlVars, loopVars, steerVars, procVars
<1>0. /\ status \in SessionStatus
      /\ \A st : st \in Terminal <=> st \in {"completed", "error"}
  BY DEF Terminal, TypeInv, TypeOK
<1>11. UNCHANGED steps => NoneIsolated' = NoneIsolated
  BY DEF NoneIsolated
<1>1. CASE SkipStep
  BY <1>1, <1>11 DEF SkipStep
<1>2. CASE PassGate
  BY <1>0, <1>2, <1>11 DEF PassGate
<1>3. CASE ProcessLoopAction
  <2> DEFINE a == Head(queue)
  <2>1. UNCHANGED <<pc, stopPending>> /\ pc = "drain"
    BY <1>3 DEF ProcessLoopAction
  <2>2. CASE ApplyPause(a)
    BY <1>0, <2>1, <2>2, Transitions DEF ApplyPause
  <2>3. CASE UNCHANGED ctlVars
    BY <1>3, <2>1, <2>3, KindsKept
  <2> QED
    BY <1>3, <2>2, <2>3
    DEF ProcessLoopAction, ApplySkip, ApplyReassign, ApplySpawn, ApplyContinue
<1>4. CASE EnterStage
  BY <1>4, <1>11 DEF EnterStage
<1>5. CASE StartStep
  BY <1>0, <1>5, <1>11 DEF StartStep
<1>6. CASE Work
  <2>0. CASE StepGoesOn
    BY <1>11, <2>0 DEF StepGoesOn, IsolateTeams, CommandRunsAgain, AgentDelegated
  <2>1. CASE Throw /\ UNCHANGED <<steps, paused, aborted, steerVars>>
    BY <1>0, <1>11, <2>1, Transitions DEF Throw
  <2>2. ASSUME NEW g \in Grade, RetryStep(g) PROVE ControlInv'
    BY <1>11, <2>2 DEF RetryStep
  <2>3. ASSUME NEW g \in Grade, NEW v \in Verdict, FinishStep(g, v)
        PROVE  ControlInv'
    BY <1>11, <2>3 DEF FinishStep, WorkReturns
  <2> QED
    BY <1>6, <2>0, <2>1, <2>2, <2>3 DEF Work, WorkThrows, RetryRefused, FailStep
<1>7. CASE ChainReturns
  <2>1. CASE Stopped
    BY <1>0, <1>7, <1>11, <2>1 DEF ChainReturns, Stopped
  <2>2. CASE ~Stopped
    BY <1>0, <1>7, <1>11, <2>2, Transitions DEF ChainReturns, Stopped
  <2> QED
    BY <2>1, <2>2
<1>8. CASE FailureRecorded
  BY <1>8, <1>11 DEF FailureRecorded
<1>9. CASE LoopDrained
  BY <1>9, <1>11 DEF LoopDrained
<1>10. CASE RunEnds
  BY <1>10, <1>11 DEF RunEnds
<1> QED
  BY <1>1, <1>2, <1>3, <1>4, <1>5, <1>6, <1>7, <1>8, <1>9, <1>10 DEF Runner

LEMMA SteeringControlInv ==
  ASSUME TypeInv, ControlInv, Steering
  PROVE  ControlInv'
<1> USE DEF ControlInv, PauseFlagAgrees, StopIsTerminal, StatusAtPc
<1> USE DEF runVars, pipeVars, ctlVars, loopVars, steerVars, procVars
<1>0. /\ status \in SessionStatus
      /\ \A st : st \in Terminal <=> st \in {"completed", "error"}
  BY DEF Terminal, TypeInv, TypeOK
\* No part of the engine but the runner moves while it drains the queue.
<1>11. Yielded => pc \notin {"drain", "staged"}
  BY DEF Yielded
<1>12. SUFFICES ASSUME UNCHANGED steps => NoneIsolated' = NoneIsolated
                PROVE  ControlInv'
  BY DEF NoneIsolated
<1>1. CASE PauseCommand
  BY <1>0, <1>11, <1>12, <1>1, Transitions DEF PauseCommand, CommandArrives
<1>2. CASE ResumeCommand
  BY <1>0, <1>11, <1>12, <1>2, Transitions DEF ResumeCommand, CommandArrives
<1>3. CASE StopCommand
  BY <1>0, <1>11, <1>12, <1>3, Transitions DEF StopCommand, CommandArrives
<1>4. CASE LateStopCommand
  BY <1>0, <1>11, <1>12, <1>4, Transitions DEF LateStopCommand, CommandArrives, StopTail
<1>5. CASE StopRecorded
  BY <1>0, <1>12, <1>5 DEF StopRecorded, StopTail
<1>6. CASE AutoPause
  BY <1>0, <1>11, <1>12, <1>6, Transitions DEF AutoPause
<1>7. CASE SeverityPause
  BY <1>0, <1>12, <1>7, Transitions DEF SeverityPause
<1>8. CASE StaleStopRecorded
  BY <1>8, <1>12 DEF StaleStopRecorded
\* The step under way is an isolated one, which excuses the flag.
<1>9. CASE SeverityPauseOfCopy
  <2>1. step \in DOMAIN steps /\ steps[step].kind = "isolated"
    <3>1. step \in 1..Len(steps)
      BY <1>9, LenProperties DEF SeverityPauseOfCopy, TypeInv, TypeOK, InStep
    <3> QED
      BY <1>9, <3>1, LenProperties DEF SeverityPauseOfCopy, Kind, TypeInv, TypeOK
  <2>2. ~NoneIsolated'
    BY <1>9, <2>1 DEF SeverityPauseOfCopy, NoneIsolated
  <2> QED
    BY <1>9, <2>2 DEF SeverityPauseOfCopy
<1> QED
  BY <1>1, <1>2, <1>3, <1>4, <1>5, <1>6, <1>7, <1>8, <1>9 DEF Steering

LEMMA ReasoningControlInv ==
  ASSUME TypeInv, ControlInv, Reasoning
  PROVE  ControlInv'
<1>1. UNCHANGED <<pc, steps, ctlVars, stopPending>>
  BY DEF Reasoning, CycleStarts, CycleFails, CycleDelivers, runVars, steerVars
<1> QED
  BY <1>1 DEF ControlInv, PauseFlagAgrees, NoneIsolated, StopIsTerminal, StatusAtPc,
              ctlVars

LEMMA ProcessControlInv ==
  ASSUME TypeInv, ControlInv, Process
  PROVE  ControlInv'
<1> USE DEF ControlInv, PauseFlagAgrees, StopIsTerminal, StatusAtPc
<1> USE DEF runVars, pipeVars, ctlVars, loopVars, steerVars, procVars
<1>0. /\ status \in SessionStatus
      /\ \A st : st \in Terminal <=> st \in {"completed", "error"}
  BY DEF Terminal, TypeInv, TypeOK
<1>11. UNCHANGED steps => NoneIsolated' = NoneIsolated
  BY DEF NoneIsolated
<1>1. CASE Shutdown
  <2>1. Yielded /\ UNCHANGED steps /\ pc' = pc /\ paused' = paused /\ stopPending' = stopPending
    BY <1>1 DEF Shutdown
  <2>2. CASE status \in {"active", "paused"}
    <3>1. status' = "error"
      BY <1>0, <1>1, <2>2, Transitions DEF Shutdown
    <3> QED
      BY <1>0, <2>1, <3>1 DEF Yielded
  <2>3. CASE status \notin {"active", "paused"}
    BY <1>1, <1>11, <2>1, <2>3 DEF Shutdown
  <2> QED
    BY <2>2, <2>3
<1>2. ASSUME NEW how \in {"exited", "crashed"}, Vanish(how) PROVE ControlInv'
  BY <1>2, <1>11 DEF Vanish
<1>3. CASE RunAgain \/ Resume
  <2>1. PICK from \in Seq(Step) : RunBegins(from)
    BY <1>3, RunsBegin
  <2> QED
    BY <1>0, <2>1 DEF RunBegins
<1> QED
  BY <1>1, <1>2, <1>3 DEF Process, ProcessExits, Crash

LEMMA NextControlInv == TypeInv /\ ControlInv /\ [Next]_vars => ControlInv'
<1> SUFFICES ASSUME TypeInv, ControlInv, [Next]_vars PROVE ControlInv'
  OBVIOUS
<1>1. CASE UNCHANGED vars
  BY <1>1 DEF ControlInv, PauseFlagAgrees, NoneIsolated, StopIsTerminal, StatusAtPc,
              vars, runVars, ctlVars, steerVars
<1> QED
  BY <1>1, RunnerControlInv, SteeringControlInv, ReasoningControlInv,
     ProcessControlInv DEF Next

LEMMA ControlInvariant == Spec => []ControlInv
  BY InitControlInv, NextControlInv, TypeInvariant, PTL DEF Spec

\* The flag the gate polls and the status the operator sees never disagree on
\* a live session, although commands, monitors, scanners and queued actions
\* all write them (orchestrator.ts, chain-runner.ts, stream-handler.ts).
THEOREM PauseIsConsistent == Spec => []PauseFlagAgrees
  BY ControlInvariant, PTL DEF ControlInv

-----------------------------------------------------------------------------
(* A stop holds.                                                           *)

LEMMA LaunchesLive ==
  TypeInv /\ ControlInv /\ [Next]_vars =>
    [Launches /\ status = "error" => OwnWork]_vars
<1> SUFFICES ASSUME TypeInv, ControlInv, Next, Launches, status = "error"
             PROVE  OwnWork
  OBVIOUS
<1> USE DEF runVars, pipeVars, ctlVars, loopVars, steerVars, procVars
<1>1. ~StepStarts
  BY DEF StepStarts, ControlInv, StatusAtPc, Terminal
<1>2. pc = "working" /\ pc' = "working" /\ attempts' # attempts
  BY <1>1 DEF Launches, RetryStarts
<1>3. Runner
  <2>1. ~Steering
    BY <1>2 DEF Steering, PauseCommand, ResumeCommand, StopCommand,
                LateStopCommand, CommandArrives, StopRecorded, StaleStopRecorded,
                AutoPause, SeverityPause, SeverityPauseOfCopy
  <2>2. ~Reasoning
    BY <1>2 DEF Reasoning, CycleStarts, CycleFails, CycleDelivers
  <2>3. ~Process
    BY <1>2 DEF Process, Shutdown, ProcessExits, Crash, Vanish, RunAgain, Resume,
                RunBegins
  <2> QED
    BY <2>1, <2>2, <2>3 DEF Next
<1>4. Work
  BY <1>2, <1>3 DEF Runner, SkipStep, PassGate, ProcessLoopAction, EnterStage,
                    StartStep, ChainReturns, FailureRecorded, LoopDrained, RunEnds
<1>5. ~\E g \in Grade : RetryStep(g)
  BY DEF RetryStep, Stopped
<1>6. CommandRunsAgain \/ AgentDelegated
  BY <1>2, <1>4, <1>5 DEF Work, StepGoesOn, IsolateTeams, WorkThrows, RetryRefused,
                          FinishStep, FailStep, Throw
<1>7. attempts \in Nat /\ MaxRetries \in Nat
  BY LimitAssumption DEF TypeInv, TypeOK
<1> QED
  BY <1>6, <1>7 DEF CommandRunsAgain, AgentDelegated, OwnWork

\* Once a stop, a failure or a shutdown has set the status, no step begins
\* and no team is run again: neither the queued actions nor the writes of the
\* checkpoint between the gate and the start of a step leave room for one.
\* Only the step under way goes on, within its own retries.
THEOREM NoWorkBeginsAfterStop == Spec => NoWorkAfterStop
  BY LaunchesLive, TypeInvariant, ControlInvariant, PTL DEF Spec, NoWorkAfterStop
-----------------------------------------------------------------------------
(* What the records of the run add up to.                                  *)

Passed == {"completed", "skipped"} \cup (IF CertMode THEN {"degraded"} ELSE {})

\* While the loop runs, the trace holds one passing outcome for each step
\* behind it.
TraceKept ==
  pc \in {"gate", "drain", "staged", "working"} =>
    /\ Len(trace) + 1 = step
    /\ \A k \in DOMAIN trace : trace[k] \in Passed

RecordInv == TraceKept /\ CompletedIsEarned /\ TillDoneBacked /\ SpawnBounded

\* One more passing record, and perhaps till_done items up to its step.
LEMMA RecordAppended ==
  ASSUME TypeInv, RecordInv, pc \in {"gate", "drain", "staged", "working"},
         NEW e \in StepOutcome, e \in Passed,
         trace' = Append(trace, e), step' = step + 1,
         tillDone' \subseteq tillDone \cup ((1..step) \X Items)
  PROVE  TraceKept' /\ TillDoneBacked'
<1>0. trace \in Seq(StepOutcome) /\ step \in Nat
      /\ Len(trace) + 1 = step /\ \A k \in DOMAIN trace : trace[k] \in Passed
      /\ base \in Nat
  BY LenProperties DEF TypeInv, TypeOK, RecordInv, TraceKept
<1>1. /\ Len(trace') = Len(trace) + 1
      /\ DOMAIN trace' = 1..step /\ DOMAIN trace = 1..(step - 1)
      /\ \A k \in 1..(step - 1) : trace'[k] = trace[k]
      /\ trace'[step] = e
  BY <1>0, AppendSeq
<1>2. \A k \in 1..step : trace'[k] \in Passed
  BY <1>0, <1>1
<1>3. TraceKept'
  BY <1>0, <1>1, <1>2 DEF TraceKept
<1>4. TillDoneBacked'
  <2>1. SUFFICES ASSUME ~CertMode, NEW item \in tillDone'
                 PROVE  /\ item[1] \in DOMAIN trace'
                        /\ trace'[item[1]] \in {"completed", "skipped"}
    BY DEF TillDoneBacked
  <2>2. item[1] \in 1..step
    <3>1. CASE item \in tillDone
      <4>1. item[1] \in DOMAIN trace
        BY <2>1, <3>1 DEF RecordInv, TillDoneBacked
      <4> QED
        BY <1>0, <1>1, <4>1
    <3>2. CASE item \in (1..step) \X Items
      BY <3>2
    <3> QED
      BY <2>1, <3>1, <3>2
  <2> QED
    BY <1>1, <1>2, <2>1, <2>2 DEF Passed
<1> QED
  BY <1>3, <1>4

\* What a failing step has checked off: some of its own items.
SomeOfStep(met) ==
  /\ tillDone' \subseteq tillDone \cup ({step} \X met)
  /\ met # Items

\* A run that fails keeps what was checked off before, and perhaps some of
\* the items of the step it fails with.
LEMMA RecordFailed ==
  ASSUME TypeInv, RecordInv, ControlInv, pc = "working", Throw,
         UNCHANGED <<steps, base>>,
         NEW met \in Verdict, tillDone' = tillDone \/ SomeOfStep(met)
  PROVE  RecordInv'
<1>0. trace \in Seq(StepOutcome) /\ "failed" \in StepOutcome
  BY DEF TypeInv, TypeOK, StepOutcome
<1>1. /\ DOMAIN trace' = 1..(Len(trace) + 1) /\ DOMAIN trace = 1..Len(trace)
      /\ Len(trace) \in Nat /\ Len(trace') = Len(trace) + 1
      /\ \A k \in 1..Len(trace) : trace'[k] = trace[k]
      /\ trace'[Len(trace) + 1] = "failed"
  BY <1>0, AppendSeq DEF Throw
<1>2. pc' = "failing"
  BY DEF Throw
<1>3. status' # "completed"
  <2>1. status # "completed"
    BY DEF ControlInv, StatusAtPc
  <2>2. status' = Transition(status, "error")
    BY DEF Throw
  <2> QED
    BY <2>1, <2>2, Transitions
<1>4. Len(trace) + 1 = step /\ \A k \in DOMAIN trace : trace[k] \in Passed
  BY DEF RecordInv, TraceKept
<1>5. TillDoneBacked'
  <2>1. SUFFICES ASSUME ~CertMode, NEW item \in tillDone'
                 PROVE  /\ item[1] \in DOMAIN trace'
                        /\ \/ trace'[item[1]] \in {"completed", "skipped"}
                           \/ /\ item[1] = Len(trace') /\ trace'[item[1]] = "failed"
                              /\ \E i \in Items : <<item[1], i>> \notin tillDone'
    BY DEF TillDoneBacked
  <2>2. \A old \in tillDone : old[1] \in 1..Len(trace)
    BY <1>1, <2>1 DEF RecordInv, TillDoneBacked
  <2>3. CASE item \in tillDone
    <3>1. item[1] \in DOMAIN trace /\ item[1] \in 1..Len(trace)
      BY <1>1, <2>2, <2>3
    <3> QED
      BY <1>1, <1>4, <2>1, <3>1 DEF Passed
  <2>4. CASE item \notin tillDone
    <3>1. SomeOfStep(met)
      BY <2>1, <2>4
    <3>2. item \in {step} \X met
      BY <2>1, <2>4, <3>1 DEF SomeOfStep
    <3>3. item[1] = step
      BY <3>2
    <3>4. PICK i \in Items : i \notin met
      BY <3>1 DEF SomeOfStep, Verdict
    <3>5. <<step, i>> \notin tillDone
      <4>1. SUFFICES ASSUME <<step, i>> \in tillDone PROVE FALSE
        OBVIOUS
      <4>2. <<step, i>>[1] \in 1..Len(trace)
        BY <2>2, <4>1
      <4> QED
        BY <1>1, <1>4, <4>2
    <3>6. <<step, i>> \notin tillDone'
      BY <3>1, <3>4, <3>5 DEF SomeOfStep
    <3> QED
      BY <1>1, <1>4, <3>3, <3>4, <3>6
  <2> QED
    BY <2>3, <2>4
<1> QED
  BY <1>2, <1>3, <1>5 DEF RecordInv, TraceKept, CompletedIsEarned, SpawnBounded

LEMMA InitRecordInv == Init => RecordInv
<1> SUFFICES ASSUME Init PROVE RecordInv
  OBVIOUS
<1>1. steps = Configured /\ base = Len(Chain) /\ trace = <<>> /\ step = 1
      /\ tillDone = {} /\ status = "active"
  BY DEF Init
<1>2. Len(trace) = 0 /\ DOMAIN trace = {}
  BY <1>1
<1>3. SpawnBounded
  BY <1>1, ConfiguredTyped, LimitAssumption DEF SpawnBounded
<1> QED
  BY <1>1, <1>2, <1>3 DEF RecordInv, TraceKept, CompletedIsEarned, TillDoneBacked

\* The steps of the runner that leave its records alone.
LEMMA RecordSame ==
  ASSUME RecordInv, UNCHANGED <<step, steps, base, trace, tillDone, pipe>>,
         status' = "completed" => status = "completed",
         pc' \in {"gate", "drain", "staged", "working"} =>
           pc \in {"gate", "drain", "staged", "working"}
  PROVE  RecordInv'
  BY DEF RecordInv, TraceKept, CompletedIsEarned, TillDoneBacked, SpawnBounded

LEMMA RunnerRecordInv ==
  ASSUME TypeInv, ControlInv, RecordInv, Runner
  PROVE  RecordInv'
<1> USE DEF runVars, pipeVars, ctlVars, loopVars, steerVars, procVars
<1>0. pc \in {"gate", "drain", "staged", "working"} => status # "completed"
  BY DEF ControlInv, StatusAtPc, Terminal
<1>1. CASE SkipStep
  <2>1. "skipped" \in StepOutcome /\ "skipped" \in Passed
    BY DEF StepOutcome, Passed
  <2>2. TraceKept' /\ TillDoneBacked'
    BY <1>1, <2>1, RecordAppended DEF SkipStep
  <2> QED
    BY <1>0, <1>1, <2>2 DEF SkipStep, RecordInv, CompletedIsEarned, SpawnBounded
<1>2. CASE PassGate
  BY <1>2, RecordSame DEF PassGate
<1>3. CASE ProcessLoopAction
  <2> DEFINE a == Head(queue)
  <2>1. UNCHANGED <<pc, step, base, trace, tillDone, pipe>> /\ pc = "drain"
    BY <1>3 DEF ProcessLoopAction
  <2>2. status' # "completed"
    <3>1. UNCHANGED status \/ status' = Transition(status, "paused")
      BY <1>3 DEF ProcessLoopAction, ApplyPause, ApplySkip, ApplyReassign,
                  ApplySpawn, ApplyContinue
    <3> QED
      BY <1>0, <2>1, <3>1, Transitions
  <2>3. SpawnBounded'
    <3>0. /\ Len(steps) \in Nat /\ base \in Nat /\ SpawnLimit \in Nat
          /\ Len(steps) <= base + SpawnLimit
          /\ steps \in Seq(Step) /\ a \in Action
      <4>1. queue \in Seq(Action) /\ queue # <<>>
        BY <1>3 DEF ProcessLoopAction, TypeInv, TypeOK
      <4>2. steps \in Seq(Step)
        BY DEF TypeInv, TypeOK
      <4> QED
        BY <4>1, <4>2, LenProperties, HeadTailProperties, LimitAssumption
        DEF RecordInv, SpawnBounded, TypeInv, TypeOK
    <3>1. CASE ApplySpawn(a)
      <4>1. [kind |-> "team", team |-> a.team] \in Step
        BY <3>0, <3>1, ActionTyped DEF ApplySpawn, Step, StepKind
      <4>2. Len(Append(steps, [kind |-> "team", team |-> a.team])) = Len(steps) + 1
        BY <3>0, <4>1, AppendSeq
      <4> QED
        BY <2>1, <3>0, <3>1, <4>2 DEF ApplySpawn, SpawnBounded
    <3>2. CASE ApplyReassign(a)
      <4>1. a.stepIndex \in Nat /\ a.team \in Teams /\ step \in Nat
        BY <3>0, <3>2, ActionTyped DEF ApplyReassign, TypeInv, TypeOK
      <4>2. FutureStep(a) => a.stepIndex \in 1..Len(steps)
        BY <3>0, <4>1 DEF FutureStep
      <4>3. Len(steps') = Len(steps)
        BY <3>0, <3>2, <4>1, <4>2, ReassignTyped DEF ApplyReassign
      <4> QED
        BY <2>1, <3>0, <4>3 DEF SpawnBounded
    <3>3. CASE UNCHANGED steps
      BY <2>1, <3>0, <3>3 DEF SpawnBounded
    <3> QED
      BY <1>3, <3>1, <3>2, <3>3
      DEF ProcessLoopAction, ApplyPause, ApplySkip, ApplyContinue
  <2> QED
    BY <2>1, <2>2, <2>3 DEF RecordInv, TraceKept, CompletedIsEarned, TillDoneBacked
<1>4. CASE EnterStage
  BY <1>4, RecordSame DEF EnterStage
<1>5. CASE StartStep
  BY <1>5, RecordSame DEF StartStep
<1>6. CASE Work
  <2>0. CASE StepGoesOn
    BY <2>0, RecordSame DEF StepGoesOn, IsolateTeams, CommandRunsAgain, AgentDelegated
  <2>1. CASE pc = "working" /\ Throw /\ UNCHANGED <<steps, base, tillDone>>
    <3>1. {} \in Verdict
      BY DEF Verdict
    <3> QED
      BY <2>1, <3>1, RecordFailed
  <2>2. ASSUME NEW g \in Grade, RetryStep(g) PROVE RecordInv'
    BY <2>2, RecordSame DEF RetryStep
  <2>3. ASSUME NEW g \in Grade, NEW v \in Verdict, FinishStep(g, v)
        PROVE  RecordInv'
    <3> DEFINE e == Outcome(g, v)
    <3>1. e \in StepOutcome /\ e \in Passed
      BY <2>3 DEF FinishStep, Outcome, StepOutcome, Passed
    <3>2. /\ pc = "working" /\ pc' = "gate" /\ UNCHANGED <<steps, base, status, pipe>>
          /\ trace' = Append(trace, e) /\ step' = step + 1
      BY <2>3 DEF FinishStep, WorkReturns
    <3>3. tillDone' \subseteq tillDone \cup ((1..step) \X Items)
      <4>1. step \in 1..step
        BY DEF TypeInv, TypeOK
      <4> QED
        BY <2>3, <4>1 DEF FinishStep, CheckedOff, MarkTillDone, ItemsOf
    <3> HIDE DEF e
    <3>4. TraceKept' /\ TillDoneBacked'
      BY <3>1, <3>2, <3>3, RecordAppended
    <3> QED
      BY <1>0, <3>2, <3>4 DEF RecordInv, CompletedIsEarned, SpawnBounded
  <2>4. ASSUME NEW g \in Grade, NEW v \in Verdict, FailStep(g, v)
        PROVE  RecordInv'
    <3>1. /\ pc = "working" /\ Throw /\ UNCHANGED <<steps, base>>
          /\ tillDone' = CheckedOff(g, v) /\ Outcome(g, v) = "failed"
      BY <2>4 DEF FailStep, WorkReturns
    <3>2. tillDone' = tillDone \/ SomeOfStep(v)
      <4>1. CASE Good(g)
        <5>1. v # Items
          BY <3>1, <4>1 DEF Outcome, Good
        <5> QED
          BY <3>1, <4>1, <5>1 DEF CheckedOff, SomeOfStep
      <4>2. CASE ~Good(g)
        BY <3>1, <4>2 DEF CheckedOff
      <4> QED
        BY <4>1, <4>2
    <3> QED
      BY <3>1, <3>2, RecordFailed
  <2> QED
    BY <1>6, <2>0, <2>1, <2>2, <2>3, <2>4
    DEF Work, WorkThrows, RetryRefused, WorkReturns
<1>7. CASE ChainReturns
  <2>1. UNCHANGED <<step, steps, base, trace, tillDone>> /\ pc = "gate" /\ pc' = "draining"
    BY <1>7 DEF ChainReturns
  <2>2. CASE Stopped
    BY <1>0, <1>7, <2>1, <2>2
    DEF ChainReturns, RecordInv, TraceKept, CompletedIsEarned, TillDoneBacked, SpawnBounded
  <2>3. CASE ~Stopped
    <3>1. step > Len(steps) /\ pipe' = "completed"
      BY <1>7, <2>3 DEF ChainReturns, Stopped
    <3>2. Len(trace) = Len(steps)
      <4>1. Len(steps) \in Nat /\ Len(trace) \in Nat /\ step \in 1..(Len(steps) + 1)
        BY LenProperties DEF TypeInv, TypeOK
      <4>2. Len(trace) + 1 = step
        BY <2>1 DEF RecordInv, TraceKept
      <4> QED
        BY <3>1, <4>1, <4>2
    <3>3. \A k \in DOMAIN trace : trace[k] # "failed"
      BY <2>1 DEF RecordInv, TraceKept, Passed
    <3> QED
      BY <2>1, <3>1, <3>2, <3>3
      DEF RecordInv, TraceKept, CompletedIsEarned, TillDoneBacked, SpawnBounded
  <2> QED
    BY <2>2, <2>3
<1>8. CASE FailureRecorded
  BY <1>8, RecordSame DEF FailureRecorded
<1>9. CASE LoopDrained
  BY <1>9, RecordSame DEF LoopDrained
<1>10. CASE RunEnds
  BY <1>10, RecordSame DEF RunEnds
<1> QED
  BY <1>1, <1>2, <1>3, <1>4, <1>5, <1>6, <1>7, <1>8, <1>9, <1>10 DEF Runner

\* Nothing but the runner writes the records or completes a session.
LEMMA OutsideRecordInv ==
  ASSUME TypeInv, RecordInv, Steering \/ Reasoning \/ Process
  PROVE  RecordInv'
<1> USE DEF runVars, pipeVars, ctlVars, loopVars, steerVars, procVars
<1>1. \/ UNCHANGED status
      \/ status' \in {Transition(status, "paused"), Transition(status, "active"),
                      Transition(status, "error"), "active", "error"}
  BY DEF Steering, PauseCommand, ResumeCommand, StopCommand, LateStopCommand,
         CommandArrives, StopRecorded, StaleStopRecorded, AutoPause,
         SeverityPause, SeverityPauseOfCopy, Reasoning, CycleStarts, CycleFails, CycleDelivers,
         Process, Shutdown, ProcessExits, Crash, Vanish, RunAgain, Resume,
         RunBegins
<1>2. status' = "completed" => status = "completed"
  BY <1>1, Transitions
<1>3. CASE Steering \/ Reasoning \/ Shutdown
  <2>1. UNCHANGED <<pc, step, steps, base, trace, tillDone, pipe>>
    BY <1>3 DEF Steering, PauseCommand, ResumeCommand, StopCommand,
         LateStopCommand, CommandArrives, StopRecorded, StaleStopRecorded, AutoPause,
         SeverityPause, SeverityPauseOfCopy, Reasoning, CycleStarts, CycleFails, CycleDelivers, Shutdown
  <2> QED
    BY <1>2, <2>1, RecordSame
<1>4. ASSUME NEW how \in {"exited", "crashed"}, Vanish(how) PROVE RecordInv'
  BY <1>2, <1>4, RecordSame DEF Vanish
<1>5. CASE RunAgain \/ Resume
  <2>1. PICK from \in Seq(Step) : RunBegins(from)
    BY <1>5, RunsBegin
  <2>2. /\ steps' = from /\ base' = Len(from) /\ trace' = <<>> /\ step' = 1
        /\ tillDone' = {} /\ status' = "active"
    BY <2>1 DEF RunBegins
  <2>3. Len(trace') = 0 /\ DOMAIN trace' = {}
    BY <2>2
  <2>4. SpawnBounded'
    BY <2>2, LenProperties, LimitAssumption DEF SpawnBounded
  <2> QED
    BY <2>2, <2>3, <2>4 DEF RecordInv, TraceKept, CompletedIsEarned, TillDoneBacked
<1> QED
  BY <1>3, <1>4, <1>5 DEF Process, ProcessExits, Crash

LEMMA NextRecordInv ==
  TypeInv /\ ControlInv /\ RecordInv /\ [Next]_vars => RecordInv'
<1> SUFFICES ASSUME TypeInv, ControlInv, RecordInv, [Next]_vars PROVE RecordInv'
  OBVIOUS
<1>1. CASE UNCHANGED vars
  BY <1>1, RecordSame DEF vars, runVars, pipeVars, ctlVars
<1> QED
  BY <1>1, RunnerRecordInv, OutsideRecordInv DEF Next

LEMMA RecordInvariant == Spec => []RecordInv
  BY InitRecordInv, NextRecordInv, TypeInvariant, ControlInvariant, PTL DEF Spec

\* A session is reported completed only when every step of its chain, those
\* the reasoning loop spawned included, has passed or was skipped, and its
\* checkpoint says the same (runChain, the tail of Orchestrator.run).
THEOREM CompletionIsEarned == Spec => []CompletedIsEarned
  BY RecordInvariant, PTL DEF RecordInv

\* Outside certification mode a step with an item checked off has passed or
\* was skipped, although markTillDone checks off all items before it and
\* verifyTillDone those of a step that then fails: the run has ended with that
\* one, and it keeps an item unchecked.
THEOREM ChecklistIsBacked == Spec => []TillDoneBacked
  BY RecordInvariant, PTL DEF RecordInv

\* SPAWN_TEAM never makes the chain longer than the limit.
THEOREM ChainIsBounded == Spec => []SpawnBounded
  BY RecordInvariant, PTL DEF RecordInv
-----------------------------------------------------------------------------
(* What has begun is out of reach.                                         *)

\* No stage exists yet for a step that an action may name: AddStage comes
\* after the queue is drained.  This is why a SKIP_STEP, which fails the
\* stage with the step's index, never hits the stage of an earlier step.  The
\* stage that StartStage takes is the one just added.
StagesBehind ==
  /\ pc \in {"gate", "drain"} => Len(stages) < step
  /\ pc \in {"staged", "working"} => Len(stages) <= step
  /\ pc = "staged" => stages[Len(stages)] = "pending"

LEMMA StageLengths ==
  ASSUME NEW s \in Seq(StageStatus), NEW idx
  PROVE  /\ Len(s) \in Nat
         /\ Len(AddStage(s)) = Len(s) + 1
         /\ AddStage(s)[Len(s) + 1] = "pending"
         /\ Len(StartStage(s, idx)) = Len(s)
         /\ Len(CompleteStage(s, idx)) = Len(s)
         /\ Len(FailStage(s, idx)) = Len(s)
<1>1. {"pending", "running", "completed", "failed"} \subseteq StageStatus
  BY DEF StageStatus
<1>2. /\ Len(Append(s, "pending")) = Len(s) + 1 /\ Len(s) \in Nat
      /\ Append(s, "pending")[Len(s) + 1] = "pending"
  BY <1>1, AppendSeq
<1> QED
  BY <1>1, <1>2, SetStageTyped DEF AddStage, StartStage, CompleteStage, FailStage

\* A stage that is completed stays so, whatever becomes of the others.
LEMMA CompletedStages ==
  ASSUME NEW s \in Seq(StageStatus), NEW k \in DOMAIN s, s[k] = "completed",
         NEW idx
  PROVE  /\ AddStage(s)[k] = "completed"
         /\ CompleteStage(s, idx)[k] = "completed"
         /\ idx # k => StartStage(s, idx)[k] = "completed"
         /\ idx \notin DOMAIN s => FailStage(s, idx) = s
<1>1. k \in 1..Len(s) /\ Len(s) \in Nat
  BY LenProperties
<1>2. Append(s, "pending")[k] = s[k]
  BY <1>1 DEF StageStatus
<1> QED
  BY <1>2 DEF AddStage, CompleteStage, StartStage, FailStage, SetStage

LEMMA NextStagesBehind ==
  TypeInv /\ StagesBehind /\ [Next]_vars => StagesBehind'
<1> SUFFICES ASSUME TypeInv, StagesBehind, [Next]_vars PROVE StagesBehind'
  OBVIOUS
<1> USE DEF StagesBehind
<1> USE DEF runVars, pipeVars, ctlVars, loopVars, steerVars, procVars
<1>0. stages \in Seq(StageStatus) /\ Len(stages) \in Nat /\ step \in Nat
  BY StageLengths DEF TypeInv, TypeOK
<1>1. CASE UNCHANGED <<pc, step, stages>>
  BY <1>1
<1>2. CASE Runner
  <2>1. CASE SkipStep
    BY <1>0, <2>1 DEF SkipStep
  <2>2. CASE PassGate
    BY <2>2 DEF PassGate
  <2>3. CASE ProcessLoopAction
    <3>1. Len(stages') = Len(stages)
      BY <1>0, <2>3, StageLengths
      DEF ProcessLoopAction, ApplyPause, ApplySkip, ApplyReassign, ApplySpawn, ApplyContinue
    <3> QED
      BY <2>3, <3>1 DEF ProcessLoopAction
  <2>4. CASE EnterStage
    BY <1>0, <2>4, StageLengths DEF EnterStage
  <2>5. CASE StartStep
    BY <1>0, <2>5, StageLengths DEF StartStep
  <2>6. CASE Work
    <3>1. ASSUME NEW g \in Grade, RetryStep(g) PROVE StagesBehind'
      BY <3>1 DEF RetryStep
    <3>2. ASSUME NEW g \in Grade, NEW v \in Verdict, FinishStep(g, v)
          PROVE  StagesBehind'
      <4>1. Len(stages') = Len(stages)
        BY <1>0, <3>2, StageLengths DEF FinishStep, FinishStage
      <4> QED
        BY <1>0, <3>2, <4>1 DEF FinishStep, WorkReturns
    <3>3. CASE pc' = "failing"
      BY <3>3
    <3>4. CASE StepGoesOn
      BY <3>4 DEF StepGoesOn, IsolateTeams, CommandRunsAgain, AgentDelegated
    <3> QED
      BY <2>6, <3>1, <3>2, <3>3, <3>4 DEF Work, WorkThrows, RetryRefused, FailStep, Throw
  <2>7. CASE ChainReturns \/ FailureRecorded \/ LoopDrained \/ RunEnds
    BY <2>7 DEF ChainReturns, FailureRecorded, LoopDrained, RunEnds
  <2> QED
    BY <1>2, <2>1, <2>2, <2>3, <2>4, <2>5, <2>6, <2>7 DEF Runner
<1>3. CASE Steering \/ Reasoning \/ Shutdown
  <2>1. UNCHANGED <<pc, step, stages>>
    BY <1>3 DEF Steering, PauseCommand, ResumeCommand, StopCommand,
         LateStopCommand, CommandArrives, StopRecorded, StaleStopRecorded, AutoPause,
         SeverityPause, SeverityPauseOfCopy, Reasoning, CycleStarts, CycleFails, CycleDelivers, Shutdown
  <2> QED
    BY <1>1, <2>1
<1>4. CASE ProcessExits \/ Crash
  BY <1>4 DEF ProcessExits, Crash, Vanish
<1>5. CASE RunAgain \/ Resume
  <2>1. step' = 1 /\ stages' = <<>> /\ pc' = "gate"
    BY <1>5 DEF RunAgain, Resume, RunBegins
  <2> QED
    BY <2>1
<1> QED
  BY <1>1, <1>2, <1>3, <1>4, <1>5 DEF Next, Process, vars

\* What BegunStepsAreFrozen says of one step of the system.
Frozen ==
  /\ \A k \in DOMAIN steps : Begun(k) =>
       /\ steps'[k] = steps[k]
       /\ k \in skipped' => k \in skipped
  /\ \A s \in DOMAIN stages : stages[s] = "completed" => stages'[s] = "completed"

LEMMA ActionsFreeze ==
  ASSUME TypeInv, StagesBehind, ProcessLoopAction
  PROVE  Frozen
<1> DEFINE a == Head(queue)
<1> USE DEF ctlVars
<1>1. /\ pc = "drain" /\ a \in Action /\ step \in Nat /\ Len(stages) \in Nat
      /\ stages \in Seq(StageStatus) /\ steps \in Seq(Step) /\ Len(steps) \in Nat
      /\ DOMAIN steps = 1..Len(steps) /\ DOMAIN stages = 1..Len(stages)
      /\ Len(stages) < step
  BY HeadTailProperties, LenProperties
  DEF ProcessLoopAction, TypeInv, TypeOK, StagesBehind
<1>2. \A k \in DOMAIN steps : Begun(k) => k < step
  BY <1>1 DEF Begun
<1>3. CASE ApplyPause(a) \/ ApplyContinue(a)
  BY <1>3 DEF ApplyPause, ApplyContinue, Frozen
<1>4. CASE ApplySkip(a)
  <2>1. a.stepIndex \in Nat
    BY <1>1, <1>4, ActionTyped DEF ApplySkip
  <2>2. FutureStep(a) => a.stepIndex > step /\ a.stepIndex \notin DOMAIN stages
    BY <1>1, <2>1 DEF FutureStep
  <2>3. stages' = stages
    BY <1>1, <1>4, <2>2 DEF ApplySkip, FailStage, SetStage
  <2>4. \A k \in DOMAIN steps : Begun(k) => (k \in skipped' => k \in skipped)
    BY <1>1, <1>2, <1>4, <2>1, <2>2 DEF ApplySkip
  <2> QED
    BY <1>4, <2>3, <2>4 DEF ApplySkip, Frozen
<1>5. CASE ApplyReassign(a)
  <2>1. a.stepIndex \in Nat
    BY <1>1, <1>5, ActionTyped DEF ApplyReassign
  <2>2. \A k \in DOMAIN steps : k < step => steps'[k] = steps[k]
    BY <1>1, <1>5, <2>1 DEF ApplyReassign, FutureStep
  <2> QED
    BY <1>2, <1>5, <2>2 DEF ApplyReassign, Frozen
<1>6. CASE ApplySpawn(a)
  <2>1. [kind |-> "team", team |-> a.team] \in Step
    BY <1>1, <1>6, ActionTyped DEF ApplySpawn, Step, StepKind
  <2>2. \A k \in DOMAIN steps : steps'[k] = steps[k]
    BY <1>1, <1>6, <2>1, AppendSeq DEF ApplySpawn
  <2> QED
    BY <1>6, <2>2 DEF ApplySpawn, Frozen
<1> QED
  BY <1>3, <1>4, <1>5, <1>6 DEF ProcessLoopAction

LEMMA NextFrozen ==
  TypeInv /\ StagesBehind /\ [Next]_vars => [SameRun => Frozen]_vars
<1> SUFFICES ASSUME TypeInv, StagesBehind, Next, SameRun PROVE Frozen
  OBVIOUS
<1> USE DEF runVars, pipeVars, ctlVars, loopVars, steerVars, procVars
<1>0. stages \in Seq(StageStatus) /\ Len(stages) \in Nat
  BY StageLengths DEF TypeInv, TypeOK
<1>1. CASE UNCHANGED <<steps, skipped, stages>>
  BY <1>1 DEF Frozen
<1>2. CASE Runner
  <2>1. CASE SkipStep \/ PassGate \/ ChainReturns \/ FailureRecorded
             \/ LoopDrained \/ RunEnds
    <3>1. UNCHANGED <<steps, skipped, stages>>
      BY <2>1 DEF SkipStep, PassGate, ChainReturns, FailureRecorded, LoopDrained, RunEnds
    <3> QED
      BY <1>1, <3>1
  <2>2. CASE ProcessLoopAction
    BY <2>2, ActionsFreeze
  <2>3. CASE EnterStage
    BY <1>0, <2>3, CompletedStages DEF EnterStage, Frozen
  <2>4. CASE StartStep
    <3>1. stages[Len(stages)] # "completed"
      BY <2>4 DEF StartStep, StagesBehind
    <3> QED
      BY <1>0, <2>4, <3>1, CompletedStages DEF StartStep, Frozen
  <2>5. CASE Work
    <3>1. UNCHANGED <<steps, skipped>>
      BY <2>5 DEF Work, StepGoesOn, IsolateTeams, CommandRunsAgain, AgentDelegated, WorkThrows, RetryStep, RetryRefused, FinishStep,
                  FailStep
    <3>2. stages' = stages \/ stages' = FinishStage
      BY <2>5 DEF Work, StepGoesOn, IsolateTeams, CommandRunsAgain, AgentDelegated, WorkThrows, RetryStep, RetryRefused, FinishStep,
                  FailStep
    <3> QED
      BY <1>0, <3>1, <3>2, CompletedStages DEF FinishStage, Frozen
  <2> QED
    BY <1>2, <2>1, <2>2, <2>3, <2>4, <2>5 DEF Runner
<1>3. CASE Steering \/ Reasoning \/ Shutdown
  <2>1. UNCHANGED <<steps, skipped, stages>>
    BY <1>3 DEF Steering, PauseCommand, ResumeCommand, StopCommand,
         LateStopCommand, CommandArrives, StopRecorded, StaleStopRecorded, AutoPause,
         SeverityPause, SeverityPauseOfCopy, Reasoning, CycleStarts, CycleFails, CycleDelivers, Shutdown
  <2> QED
    BY <1>1, <2>1
<1>4. CASE ProcessExits \/ Crash
  BY <1>4 DEF ProcessExits, Crash, Vanish, Frozen
<1>5. ~(RunAgain \/ Resume)
  BY DEF SameRun, RunAgain, Resume, RunBegins
<1> QED
  BY <1>2, <1>3, <1>4, <1>5 DEF Next, Process

\* An action of the reasoning loop never reaches a step that has started or
\* ended, although it names steps by an index it chose one or more steps ago
\* (processLoopAction).
THEOREM BegunStepsStayFrozen == Spec => BegunStepsAreFrozen
<1>1. Init => StagesBehind
  BY DEF Init, StagesBehind
<1> QED
  BY <1>1, NextStagesBehind, NextFrozen, TypeInvariant, PTL
  DEF Spec, BegunStepsAreFrozen, Frozen
-----------------------------------------------------------------------------
(* The checkpoint and the trace.                                           *)

RanSteps == {k \in DOMAIN trace : Ran(k)}
GradedSteps == {k \in DOMAIN trace : Ran(k) /\ steps[k].kind # "deterministic"}
DoneStages == {s \in DOMAIN stages : stages[s] = "completed"}

\* What CheckpointMatchesTrace says between two steps; from EnterStage on, one
\* stage more, of the step at work, which is not completed yet.
CheckpointInv ==
  /\ pc \in {"gate", "drain"} => Len(stages) = Cardinality(RanSteps)
  /\ pc \in {"staged", "working"} =>
       /\ Len(stages) = Cardinality(RanSteps) + 1
       /\ stages[Len(stages)] # "completed"
  /\ pc \in {"gate", "drain", "staged", "working"} =>
       Cardinality(DoneStages) = Cardinality(GradedSteps)

LEMMA RecordsFinite ==
  ASSUME TypeInv
  PROVE  /\ IsFiniteSet(RanSteps) /\ IsFiniteSet(GradedSteps)
         /\ IsFiniteSet(DoneStages)
<1>1. /\ DOMAIN trace = 1..Len(trace) /\ Len(trace) \in Nat
      /\ DOMAIN stages = 1..Len(stages) /\ Len(stages) \in Nat
  BY LenProperties DEF TypeInv, TypeOK
<1>2. IsFiniteSet(DOMAIN trace) /\ IsFiniteSet(DOMAIN stages)
  BY <1>1, FS_Interval
<1> QED
  BY <1>2, FS_Subset DEF RanSteps, GradedSteps, DoneStages

\* What one more record adds to the sets that are counted.
LEMMA OneMoreRecord ==
  ASSUME TypeInv, NEW e \in StepOutcome, trace' = Append(trace, e),
         UNCHANGED steps, step = Len(trace) + 1
  PROVE  /\ e = "skipped" => RanSteps' = RanSteps /\ GradedSteps' = GradedSteps
         /\ e # "skipped" =>
              /\ Cardinality(RanSteps') = Cardinality(RanSteps) + 1
              /\ Cardinality(GradedSteps') =
                   IF Kind = "deterministic" THEN Cardinality(GradedSteps)
                   ELSE Cardinality(GradedSteps) + 1
<1>1. /\ trace \in Seq(StepOutcome) /\ Len(trace) \in Nat
      /\ DOMAIN trace = 1..(step - 1) /\ DOMAIN trace' = 1..step /\ step \in Nat
      /\ \A k \in 1..(step - 1) : trace'[k] = trace[k]
      /\ trace'[step] = e
  BY AppendSeq DEF TypeInv, TypeOK
<1>2. step \notin DOMAIN trace /\ DOMAIN trace' = DOMAIN trace \cup {step}
  BY <1>1
<1>3. \A k \in DOMAIN trace : trace'[k] = trace[k]
  BY <1>1
<1>4. step \notin RanSteps /\ step \notin GradedSteps
  BY <1>2 DEF RanSteps, GradedSteps
<1>5. CASE e = "skipped"
  <2>1. RanSteps' = RanSteps
    BY <1>1, <1>2, <1>3, <1>5 DEF RanSteps, Ran
  <2>2. GradedSteps' = GradedSteps
    BY <1>1, <1>2, <1>3, <1>5 DEF GradedSteps, Ran
  <2> QED
    BY <1>5, <2>1, <2>2
<1>6. CASE e # "skipped"
  <2>1. RanSteps' = RanSteps \cup {step}
    BY <1>1, <1>2, <1>3, <1>6 DEF RanSteps, Ran
  <2>2. Cardinality(RanSteps') = Cardinality(RanSteps) + 1
    BY <1>4, <2>1, RecordsFinite, FS_AddElement
  <2>3. CASE Kind = "deterministic"
    <3>1. GradedSteps' = GradedSteps
      BY <1>1, <1>2, <1>3, <1>6, <2>3 DEF GradedSteps, Ran, Kind
    <3> QED
      BY <1>6, <2>2, <2>3, <3>1
  <2>4. CASE Kind # "deterministic"
    <3>1. GradedSteps' = GradedSteps \cup {step}
      BY <1>1, <1>2, <1>3, <1>6, <2>4 DEF GradedSteps, Ran, Kind
    <3>2. Cardinality(GradedSteps') = Cardinality(GradedSteps) + 1
      BY <1>4, <3>1, RecordsFinite, FS_AddElement
    <3> QED
      BY <1>6, <2>2, <2>4, <3>2
  <2> QED
    BY <2>3, <2>4
<1> QED
  BY <1>5, <1>6

\* Only the completion of a stage adds to the completed ones.
LEMMA StagesDone ==
  ASSUME TypeInv
  PROVE  /\ stages' = AddStage(stages) => DoneStages' = DoneStages
         /\ /\ Len(stages) > 0 /\ stages[Len(stages)] # "completed"
            /\ stages' = StartStage(stages, Len(stages))
            => /\ DoneStages' = DoneStages
               /\ stages'[Len(stages')] # "completed"
         /\ /\ Len(stages) > 0 /\ stages[Len(stages)] # "completed"
            /\ stages' = CompleteStage(stages, Len(stages))
            => Cardinality(DoneStages') = Cardinality(DoneStages) + 1
<1> DEFINE n == Len(stages)
<1>1. stages \in Seq(StageStatus) /\ n \in Nat /\ DOMAIN stages = 1..n
  BY LenProperties DEF TypeInv, TypeOK
<1>2. "pending" \in StageStatus /\ "running" \in StageStatus /\ "completed" \in StageStatus
  BY DEF StageStatus
<1>3. ASSUME stages' = AddStage(stages) PROVE DoneStages' = DoneStages
  <2>1. /\ DOMAIN stages' = 1..(n + 1) /\ stages'[n + 1] = "pending"
        /\ \A k \in 1..n : stages'[k] = stages[k]
    BY <1>1, <1>2, <1>3, AppendSeq DEF AddStage
  <2> QED
    BY <1>1, <2>1 DEF DoneStages
<1>4. ASSUME n > 0, stages[n] # "completed", NEW to \in StageStatus,
             stages' = SetStage(stages, n, to)
      PROVE  /\ DOMAIN stages' = 1..n /\ Len(stages') = n /\ stages'[n] = to
             /\ n \notin DoneStages
             /\ \A k \in 1..n : k # n => stages'[k] = stages[k]
  <2>1. stages' = [stages EXCEPT ![n] = to] /\ n \in 1..n
    BY <1>1, <1>4 DEF SetStage
  <2>2. stages' \in Seq(StageStatus) /\ Len(stages') = n
    BY <1>1, <1>4, <2>1, ExceptSeq
  <2>3. DOMAIN stages' = 1..n
    BY <1>1, <2>1
  <2> QED
    BY <1>1, <1>4, <2>1, <2>2, <2>3 DEF DoneStages
<1>5. ASSUME n > 0, stages[n] # "completed", stages' = StartStage(stages, n)
      PROVE  DoneStages' = DoneStages /\ stages'[Len(stages')] # "completed"
  <2>1. /\ DOMAIN stages' = 1..n /\ Len(stages') = n /\ stages'[n] = "running"
        /\ \A k \in 1..n : k # n => stages'[k] = stages[k]
    BY <1>2, <1>4, <1>5 DEF StartStage
  <2>2. DoneStages' = DoneStages
    BY <1>1, <1>5, <2>1 DEF DoneStages
  <2> QED
    BY <2>1, <2>2
<1>6. ASSUME n > 0, stages[n] # "completed", stages' = CompleteStage(stages, n)
      PROVE  Cardinality(DoneStages') = Cardinality(DoneStages) + 1
  <2>1. /\ DOMAIN stages' = 1..n /\ stages'[n] = "completed" /\ n \notin DoneStages
        /\ \A k \in 1..n : k # n => stages'[k] = stages[k]
    BY <1>2, <1>4, <1>6 DEF CompleteStage
  <2>2. \A k : k \in DoneStages' <=> k \in DoneStages \/ k = n
    <3>1. n \in 1..n
      BY <1>1, <1>6
    <3>2. \A k \in 1..n : k # n => (k \in DoneStages' <=> k \in DoneStages)
      BY <1>1, <2>1 DEF DoneStages
    <3>3. n \in DoneStages' /\ DoneStages \subseteq 1..n /\ DoneStages' \subseteq 1..n
      BY <1>1, <2>1, <3>1 DEF DoneStages
    <3> QED
      BY <3>1, <3>2, <3>3
  <2>3. DoneStages' = DoneStages \cup {n}
    BY <2>2
  <2> QED
    BY <2>1, <2>3, RecordsFinite, FS_AddElement
<1> QED
  BY <1>3, <1>5, <1>6

\* The actions of the queue change no stage, and no step that has a record.
LEMMA ActionsKeepRecords ==
  ASSUME TypeInv, RecordInv, StagesBehind, CheckpointInv, ProcessLoopAction
  PROVE  CheckpointInv'
<1> DEFINE a == Head(queue)
<1>1. /\ pc = "drain" /\ pc' = "drain" /\ UNCHANGED <<step, trace>> /\ a \in Action
      /\ step \in Nat /\ Len(stages) \in Nat /\ Len(stages) < step
      /\ DOMAIN stages = 1..Len(stages)
      /\ steps \in Seq(Step) /\ Len(steps) \in Nat /\ DOMAIN steps = 1..Len(steps)
      /\ step <= Len(steps)
  BY HeadTailProperties, LenProperties
  DEF ProcessLoopAction, TypeInv, TypeOK, InStep, StagesBehind
<1>2. \A k \in DOMAIN trace : k \in Nat /\ k < step /\ k \in DOMAIN steps
  <2>1. DOMAIN trace = 1..Len(trace) /\ Len(trace) \in Nat /\ Len(trace) + 1 = step
    BY <1>1, LenProperties DEF TypeInv, TypeOK, RecordInv, TraceKept
  <2> QED
    BY <1>1, <2>1
<1>3. stages' = stages
  <2>1. CASE ApplySkip(a)
    <3>1. a.stepIndex \in Nat
      BY <1>1, <2>1, ActionTyped DEF ApplySkip
    <3>2. FutureStep(a) => a.stepIndex \notin DOMAIN stages
      BY <1>1, <3>1 DEF FutureStep
    <3> QED
      BY <2>1, <3>2 DEF ApplySkip, FailStage, SetStage
  <2> QED
    BY <2>1 DEF ProcessLoopAction, ApplyPause, ApplyReassign, ApplySpawn, ApplyContinue
<1>4. \A k \in DOMAIN trace : steps'[k] = steps[k]
  <2>1. CASE ApplyReassign(a)
    <3>1. a.stepIndex \in Nat
      BY <1>1, <2>1, ActionTyped DEF ApplyReassign
    <3> QED
      BY <1>1, <1>2, <2>1, <3>1 DEF ApplyReassign, FutureStep
  <2>2. CASE ApplySpawn(a)
    <3>1. [kind |-> "team", team |-> a.team] \in Step
      BY <1>1, <2>2, ActionTyped DEF ApplySpawn, Step, StepKind
    <3> QED
      BY <1>1, <1>2, <2>2, <3>1, AppendSeq DEF ApplySpawn
  <2> QED
    BY <2>1, <2>2 DEF ProcessLoopAction, ApplyPause, ApplySkip, ApplyContinue
<1>5. RanSteps' = RanSteps /\ GradedSteps' = GradedSteps /\ DoneStages' = DoneStages
  BY <1>1, <1>3, <1>4 DEF RanSteps, GradedSteps, DoneStages, Ran
<1> QED
  BY <1>1, <1>3, <1>5 DEF CheckpointInv

\* The steps that leave the checkpoint, the trace and the chain alone, and
\* those that leave the loop for good.
LEMMA CheckpointSame ==
  ASSUME CheckpointInv,
         \/ /\ UNCHANGED <<steps, trace, stages>>
            /\ pc' = pc \/ (pc = "gate" /\ pc' = "drain")
         \/ pc' \notin {"gate", "drain", "staged", "working"}
  PROVE  CheckpointInv'
<1>1. CASE UNCHANGED <<steps, trace, stages>>
  <2>1. RanSteps' = RanSteps /\ GradedSteps' = GradedSteps /\ DoneStages' = DoneStages
    BY <1>1 DEF RanSteps, GradedSteps, DoneStages, Ran
  <2> QED
    BY <1>1, <2>1 DEF CheckpointInv
<1>2. CASE pc' \notin {"gate", "drain", "staged", "working"}
  BY <1>2 DEF CheckpointInv
<1> QED
  BY <1>1, <1>2

LEMMA RunnerCheckpoint ==
  ASSUME TypeInv, RecordInv, StagesBehind, CheckpointInv, Runner
  PROVE  CheckpointInv'
<1> USE DEF runVars, pipeVars, ctlVars, loopVars, steerVars, procVars
<1>0. /\ stages \in Seq(StageStatus) /\ Len(stages) \in Nat
      /\ Cardinality(RanSteps) \in Nat
      /\ pc \in {"gate", "drain", "staged", "working"} => step = Len(trace) + 1
  BY RecordsFinite, FS_CardinalityType, LenProperties
  DEF TypeInv, TypeOK, RecordInv, TraceKept
<1>1. CASE SkipStep
  <2>1. RanSteps' = RanSteps /\ GradedSteps' = GradedSteps
    BY <1>0, <1>1, OneMoreRecord DEF SkipStep, StepOutcome
  <2>2. UNCHANGED <<pc, stages>> /\ DoneStages' = DoneStages /\ pc = "gate"
    BY <1>1 DEF SkipStep, DoneStages
  <2> QED
    BY <2>1, <2>2 DEF CheckpointInv
<1>2. CASE PassGate
  BY <1>2, CheckpointSame DEF PassGate
<1>3. CASE ProcessLoopAction
  BY <1>3, ActionsKeepRecords
<1>4. CASE EnterStage
  <2>1. /\ pc = "drain" /\ pc' = "staged" /\ UNCHANGED <<steps, trace>>
        /\ stages' = AddStage(stages)
    BY <1>4 DEF EnterStage
  <2>2. Len(stages') = Len(stages) + 1 /\ stages'[Len(stages')] = "pending"
    BY <1>0, <2>1, StageLengths
  <2>3. DoneStages' = DoneStages
    BY <2>1, StagesDone
  <2>4. RanSteps' = RanSteps /\ GradedSteps' = GradedSteps
    BY <2>1 DEF RanSteps, GradedSteps, Ran
  <2> QED
    BY <2>1, <2>2, <2>3, <2>4 DEF CheckpointInv
<1>5. CASE StartStep
  <2>1. /\ pc = "staged" /\ pc' = "working" /\ UNCHANGED <<steps, trace>>
        /\ stages' = StartStage(stages, Len(stages))
    BY <1>5 DEF StartStep
  <2>2. Len(stages) > 0 /\ stages[Len(stages)] # "completed"
    BY <1>0, <2>1 DEF CheckpointInv
  <2>3. /\ Len(stages') = Len(stages) /\ DoneStages' = DoneStages
        /\ stages'[Len(stages')] # "completed"
    BY <1>0, <2>1, <2>2, StageLengths, StagesDone
  <2>4. RanSteps' = RanSteps /\ GradedSteps' = GradedSteps
    BY <2>1 DEF RanSteps, GradedSteps, Ran
  <2> QED
    BY <2>1, <2>3, <2>4 DEF CheckpointInv
<1>6. ASSUME NEW g \in Grade, NEW v \in Verdict, FinishStep(g, v)
      PROVE  CheckpointInv'
  <2> DEFINE e == Outcome(g, v)
  <2>1. e \in StepOutcome /\ e # "skipped"
    BY <1>6 DEF FinishStep, Outcome, StepOutcome
  <2>2. /\ pc = "working" /\ pc' = "gate" /\ UNCHANGED steps
        /\ trace' = Append(trace, e) /\ stages' = FinishStage
    BY <1>6 DEF FinishStep, WorkReturns
  <2> HIDE DEF e
  <2>3. /\ Cardinality(RanSteps') = Cardinality(RanSteps) + 1
        /\ Cardinality(GradedSteps') =
             IF Kind = "deterministic" THEN Cardinality(GradedSteps)
             ELSE Cardinality(GradedSteps) + 1
    BY <1>0, <2>1, <2>2, OneMoreRecord
  <2>4. Len(stages') = Len(stages)
    BY <1>0, <2>2, StageLengths DEF FinishStage
  <2>5. Len(stages) > 0 /\ stages[Len(stages)] # "completed"
    BY <1>0, <2>2 DEF CheckpointInv
  <2>6. Cardinality(DoneStages') =
          IF Kind = "deterministic" THEN Cardinality(DoneStages)
          ELSE Cardinality(DoneStages) + 1
    <3>1. CASE Kind = "deterministic"
      BY <2>2, <3>1 DEF FinishStage, DoneStages
    <3>2. CASE Kind # "deterministic"
      BY <2>2, <2>5, <3>2, StagesDone DEF FinishStage
    <3> QED
      BY <3>1, <3>2
  <2> QED
    BY <2>2, <2>3, <2>4, <2>6 DEF CheckpointInv
<1>7. CASE pc' \in {"failing", "draining", "closing", "ended"}
  BY <1>7, CheckpointSame
<1>8. CASE StepGoesOn \/ \E g \in Grade : RetryStep(g)
  BY <1>8, CheckpointSame DEF StepGoesOn, IsolateTeams, CommandRunsAgain, AgentDelegated, RetryStep
<1> QED
  BY <1>1, <1>2, <1>3, <1>4, <1>5, <1>6, <1>7, <1>8
  DEF Runner, Work, WorkThrows, RetryRefused, FailStep, Throw,
      ChainReturns, FailureRecorded, LoopDrained, RunEnds

LEMMA NextCheckpointInv ==
  TypeInv /\ RecordInv /\ StagesBehind /\ CheckpointInv /\ [Next]_vars
    => CheckpointInv'
<1> SUFFICES ASSUME TypeInv, RecordInv, StagesBehind, CheckpointInv, [Next]_vars
             PROVE  CheckpointInv'
  OBVIOUS
<1> USE DEF runVars, pipeVars, ctlVars, loopVars, steerVars, procVars
<1>1. CASE UNCHANGED vars
  BY <1>1, CheckpointSame DEF vars
<1>2. CASE Steering \/ Reasoning \/ Shutdown
  <2>1. UNCHANGED <<pc, steps, trace, stages>>
    BY <1>2 DEF Steering, PauseCommand, ResumeCommand, StopCommand,
         LateStopCommand, CommandArrives, StopRecorded, StaleStopRecorded, AutoPause,
         SeverityPause, SeverityPauseOfCopy, Reasoning, CycleStarts, CycleFails, CycleDelivers, Shutdown
  <2> QED
    BY <2>1, CheckpointSame
<1>3. CASE ProcessExits \/ Crash
  BY <1>3, CheckpointSame DEF ProcessExits, Crash, Vanish
<1>4. CASE RunAgain \/ Resume
  <2>1. trace' = <<>> /\ stages' = <<>> /\ pc' = "gate"
    BY <1>4 DEF RunAgain, Resume, RunBegins
  <2>2. RanSteps' = {} /\ GradedSteps' = {} /\ DoneStages' = {} /\ Len(stages') = 0
    BY <2>1 DEF RanSteps, GradedSteps, DoneStages
  <2> QED
    BY <2>1, <2>2, FS_EmptySet DEF CheckpointInv
<1> QED
  BY <1>1, <1>2, <1>3, <1>4, RunnerCheckpoint DEF Next, Process

\* Between two steps the checkpoint has one stage for each step that was run,
\* whichever steps the reasoning loop skipped, reassigned or added, and as
\* many completed ones as steps were graded (PipelineTracker, runChain).
THEOREM CheckpointIsKept == Spec => []CheckpointMatchesTrace
<1>1. Init => StagesBehind /\ CheckpointInv
  <2> SUFFICES ASSUME Init PROVE StagesBehind /\ CheckpointInv
    OBVIOUS
  <2>1. pc = "gate" /\ step = 1 /\ trace = <<>> /\ stages = <<>>
    BY DEF Init
  <2>2. RanSteps = {} /\ GradedSteps = {} /\ DoneStages = {} /\ Len(stages) = 0
    BY <2>1 DEF RanSteps, GradedSteps, DoneStages
  <2> QED
    BY <2>1, <2>2, FS_EmptySet DEF StagesBehind, CheckpointInv
<1>2. CheckpointInv => CheckpointMatchesTrace
  BY DEF CheckpointInv, CheckpointMatchesTrace, RanSteps, GradedSteps, DoneStages
<1> QED
  BY <1>1, <1>2, NextStagesBehind, NextCheckpointInv, TypeInvariant,
     RecordInvariant, PTL DEF Spec
-----------------------------------------------------------------------------
(* The engine implements the session lifecycle.                            *)

\* The instance has its own copy of SessionState.
LEMMA SameTable ==
  /\ Lifecycle!SessionStatus = SessionStatus
  /\ Lifecycle!Terminal = Terminal
  /\ \A from, to : /\ Lifecycle!CanTransition(from, to) <=> CanTransition(from, to)
                   /\ Lifecycle!Transition(from, to) = Transition(from, to)
<1>1. Lifecycle!SessionStatus = SessionStatus /\ Lifecycle!Terminal = Terminal
  BY DEF Lifecycle!SessionStatus, SessionStatus, Lifecycle!Terminal, Terminal
<1>2. Lifecycle!ValidTransitions = ValidTransitions
  BY <1>1 DEF Lifecycle!ValidTransitions, ValidTransitions
<1> QED
  BY <1>1, <1>2
  DEF Lifecycle!CanTransition, CanTransition, Lifecycle!Transition, Transition

AtWork == pc = "working"
Over == pc \in Final

\* The lifecycle's next-state relation, over the engine's variables.
SteerStep ==
  /\ ~Over /\ UNCHANGED <<AtWork, Over>>
  /\ \E to \in {"active", "paused", "error"} : status' = Transition(status, to)
CompleteStep ==
  /\ ~Over /\ ~AtWork /\ CanTransition(status, "completed")
  /\ status' = "completed" /\ UNCHANGED <<AtWork, Over>>
BeginStep ==
  /\ ~Over /\ ~AtWork /\ status \notin Terminal
  /\ AtWork' /\ UNCHANGED <<status, Over>>
EndStep ==
  /\ ~Over /\ AtWork /\ status' \in {status, Transition(status, "error")}
  /\ ~AtWork' /\ UNCHANGED Over
LeaveStep ==
  ~Over /\ ~AtWork /\ status \in Terminal /\ Over' /\ UNCHANGED <<status, AtWork>>
DieStep == ~Over /\ Over' /\ ~AtWork' /\ UNCHANGED status
RestartStep == Over /\ status' = "active" /\ ~AtWork' /\ ~Over'
SameStep == UNCHANGED <<status, AtWork, Over>>

LifecycleStep ==
  \/ SteerStep \/ CompleteStep \/ BeginStep \/ EndStep
  \/ LeaveStep \/ DieStep \/ RestartStep \/ SameStep

LEMMA StepIsLifecycleStep ==
  LifecycleStep => [Lifecycle!Next]_(Lifecycle!vars)
<1> USE SameTable DEF AtWork, Over, Lifecycle!vars, Lifecycle!Next
<1>1. {"active", "paused", "error"} = SessionStatus \ {"completed"}
  BY DEF SessionStatus
<1>2. SteerStep => Lifecycle!Steer
  BY <1>1 DEF SteerStep, Lifecycle!Steer
<1>3. CompleteStep => Lifecycle!Complete
  BY DEF CompleteStep, Lifecycle!Complete
<1>4. BeginStep => Lifecycle!BeginWork
  BY DEF BeginStep, Lifecycle!BeginWork
<1>5. EndStep => Lifecycle!EndWork
  BY DEF EndStep, Lifecycle!EndWork
<1>6. LeaveStep => Lifecycle!Leave
  BY DEF LeaveStep, Lifecycle!Leave
<1>7. DieStep => Lifecycle!Die
  BY DEF DieStep, Lifecycle!Die
<1>8. RestartStep => Lifecycle!Restart
  BY DEF RestartStep, Lifecycle!Restart
<1>9. SameStep => UNCHANGED Lifecycle!vars
  BY DEF SameStep
<1> QED
  BY <1>2, <1>3, <1>4, <1>5, <1>6, <1>7, <1>8, <1>9 DEF LifecycleStep

LEMMA RunnerIsLifecycle ==
  ASSUME TypeInv, ControlInv, Runner
  PROVE  LifecycleStep
<1> USE DEF AtWork, Over, Final, LifecycleStep, SameStep
<1> USE DEF runVars, pipeVars, ctlVars, loopVars, steerVars, procVars
<1>1. CASE SkipStep
  BY <1>1 DEF SkipStep
<1>2. CASE PassGate
  BY <1>2 DEF PassGate
<1>3. CASE ProcessLoopAction
  <2>1. UNCHANGED pc /\ pc = "drain"
    BY <1>3 DEF ProcessLoopAction
  <2>2. UNCHANGED status \/ status' = Transition(status, "paused")
    BY <1>3 DEF ProcessLoopAction, ApplyPause, ApplySkip, ApplyReassign,
                ApplySpawn, ApplyContinue
  <2> QED
    BY <2>1, <2>2 DEF SteerStep
<1>4. CASE EnterStage
  BY <1>4 DEF EnterStage
<1>5. CASE StartStep
  BY <1>5 DEF StartStep, BeginStep, ControlInv, StatusAtPc
<1>6. CASE Work
  <2>0. CASE StepGoesOn
    BY <2>0 DEF StepGoesOn, IsolateTeams, CommandRunsAgain, AgentDelegated
  <2>1. CASE pc = "working" /\ Throw
    BY <2>1 DEF Throw, EndStep
  <2>2. ASSUME NEW g \in Grade, RetryStep(g) PROVE LifecycleStep
    BY <2>2 DEF RetryStep
  <2>3. ASSUME NEW g \in Grade, NEW v \in Verdict, FinishStep(g, v)
        PROVE  LifecycleStep
    BY <2>3 DEF FinishStep, WorkReturns, EndStep
  <2> QED
    BY <1>6, <2>0, <2>1, <2>2, <2>3
    DEF Work, WorkThrows, RetryRefused, FailStep, WorkReturns
<1>7. CASE ChainReturns
  <2>1. CASE Stopped
    BY <1>7, <2>1 DEF ChainReturns
  <2>2. CASE ~Stopped
    <3>1. status \notin Terminal
      BY <1>7, <2>2, Transitions DEF ChainReturns, Stopped, ControlInv, StatusAtPc
    <3>2. status' = "completed" /\ CanTransition(status, "completed")
      BY <1>7, <2>2, <3>1, Transitions DEF ChainReturns, Transition, Terminal
    <3> QED
      BY <1>7, <3>2 DEF ChainReturns, CompleteStep
  <2> QED
    BY <2>1, <2>2
<1>8. CASE FailureRecorded
  BY <1>8 DEF FailureRecorded
<1>9. CASE LoopDrained
  BY <1>9 DEF LoopDrained
<1>10. CASE RunEnds
  BY <1>10 DEF RunEnds, LeaveStep, ControlInv, StatusAtPc
<1> QED
  BY <1>1, <1>2, <1>3, <1>4, <1>5, <1>6, <1>7, <1>8, <1>9, <1>10 DEF Runner

LEMMA OutsideIsLifecycle ==
  ASSUME TypeInv, ControlInv, Steering \/ Reasoning \/ Process
  PROVE  LifecycleStep
<1> USE DEF AtWork, Over, Final, LifecycleStep
<1> USE DEF runVars, pipeVars, ctlVars, loopVars, steerVars, procVars
<1>1. CASE PauseCommand \/ ResumeCommand \/ AutoPause \/ SeverityPause
  <2>1. UNCHANGED pc /\ ~Over
    BY <1>1 DEF PauseCommand, ResumeCommand, AutoPause, SeverityPause,
                CommandArrives, Yielded
  <2>2. status' \in {Transition(status, "paused"), Transition(status, "active")}
    BY <1>1 DEF PauseCommand, ResumeCommand, AutoPause, SeverityPause
  <2> QED
    BY <2>1, <2>2 DEF SteerStep
<1>2. CASE StopCommand
  <2>1. UNCHANGED pc /\ ~Over /\ status' = Transition(status, "error")
    BY <1>2 DEF StopCommand, CommandArrives, Yielded, Transition
  <2> QED
    BY <2>1 DEF SteerStep
<1>3. CASE \/ LateStopCommand \/ StopRecorded \/ StaleStopRecorded
           \/ SeverityPauseOfCopy \/ Reasoning
  BY <1>3 DEF LateStopCommand, CommandArrives, StopRecorded, StaleStopRecorded,
              StopTail, SeverityPauseOfCopy, Reasoning, CycleStarts, CycleFails, CycleDelivers, SameStep
<1>4. CASE Shutdown
  <2>1. UNCHANGED pc /\ ~Over
    BY <1>4 DEF Shutdown, Yielded
  <2>2. UNCHANGED status \/ status' = Transition(status, "error")
    BY <1>4 DEF Shutdown
  <2> QED
    BY <2>1, <2>2 DEF SteerStep, SameStep
<1>5. CASE ProcessExits \/ Crash
  BY <1>5 DEF ProcessExits, Crash, Vanish, Yielded, DieStep
<1>6. CASE RunAgain \/ Resume
  BY <1>6 DEF RunAgain, Resume, RunBegins, RestartStep
<1> QED
  BY <1>1, <1>2, <1>3, <1>4, <1>5, <1>6 DEF Steering, Process

\* Whoever watches a session from outside sees the lifecycle that the
\* documents describe: statuses move along the table, work begins on live
\* sessions only, a session completes between steps, and a run leaves with a
\* terminal status unless the process dies.
THEOREM EngineKeepsLifecycle == Spec => LifecycleSpec
<1>1. Init => Lifecycle!Init
  BY DEF Init, Lifecycle!Init, Final
<1>2. TypeInv /\ ControlInv /\ [Next]_vars => [Lifecycle!Next]_(Lifecycle!vars)
  <2> SUFFICES ASSUME TypeInv, ControlInv, [Next]_vars
               PROVE  LifecycleStep
    BY StepIsLifecycleStep
  <2>1. CASE UNCHANGED vars
    BY <2>1 DEF vars, runVars, ctlVars, LifecycleStep, SameStep, AtWork, Over
  <2> QED
    BY <2>1, RunnerIsLifecycle, OutsideIsLifecycle DEF Next
<1> QED
  BY <1>1, <1>2, TypeInvariant, ControlInvariant, PTL
  DEF Spec, LifecycleSpec, Lifecycle!Spec
=============================================================================
