----------------------------- MODULE Supervision -----------------------------
(***************************************************************************)
(* What Orchestrator.run starts beside the chain and ends with it: the     *)
(* reasoning loop and the active monitor, on one session and one budget.   *)
(***************************************************************************)
EXTENDS OrchestratorLoop, ActiveMonitor

CONSTANT BudgetAction   \* budget_action: "pause" or "warn"

VARIABLE autoPauseFired

vars == <<sessionVars, loopVars, monitorVars, autoPauseFired>>

Init == LoopInit /\ MonitorInit /\ autoPauseFired = FALSE

\* checkBudgetProjection, and the onAutoPause that run gives the monitor.
CheckBudgetProjection ==
  IF ~autoPauseFired /\ BudgetAction = "pause" /\ UsedAtLeast(total, 95)
  THEN autoPauseFired' = TRUE /\ status' = Transition(status, "paused")
  ELSE UNCHANGED <<autoPauseFired, status>>

MonitorTicks ==
  /\ Tick /\ CheckBudgetProjection
  /\ UNCHANGED <<total, closing, loopVars>>

LoopSteps == LoopStep /\ UNCHANGED <<monitorVars, autoPauseFired>>

\* Agents work as long as the run does, a stopped one until they notice.
AgentsStep ==
  /\ closing = "running" /\ MonitorStep
  /\ UNCHANGED <<sessionVars, loopVars, autoPauseFired>>

NudgeSteps == NudgeStep /\ UNCHANGED <<sessionVars, loopVars, autoPauseFired>>

SessionSteps ==
  /\ \/ \E c \in Costs : AgentPaid(c)
     \/ \E to \in SessionStatus : Steer(to)
     \/ DrainTimesOut
  /\ UNCHANGED <<monitorVars, autoPauseFired>>

\* The two ways everything is stopped: !stop, and the end of run.
Stops ==
  /\ StopLoop \/ \E to \in Terminal : EndRun(to)
  /\ StopMonitor /\ UNCHANGED autoPauseFired

Next == MonitorTicks \/ LoopSteps \/ AgentsStep \/ NudgeSteps \/ SessionSteps \/ Stops

Spec == Init /\ [][Next]_vars

\* The timers fire, and what a cycle or a nudge awaits has a timeout.
FairSpec ==
  /\ Spec
  /\ WF_vars(Interval /\ UNCHANGED <<monitorVars, autoPauseFired>>)
  /\ WF_vars(CycleStep /\ UNCHANGED <<monitorVars, autoPauseFired>>)
  /\ WF_vars(MonitorTicks) /\ WF_vars(NudgeSteps)

-----------------------------------------------------------------------------
TypeOK == LoopTypeOK /\ MonitorTypeOK /\ autoPauseFired \in BOOLEAN

\* What stopAndDrain has reported after it waited for the last cycle is all
\* the loop will ever have spent: no cycle is in flight then and none begins,
\* although triggers, messages and the interval go on until the run is over.
DrainedIsFinal == closing = "drained" => cycle = "none" /\ reported = own

\* A trigger is debounced, taken off by the interval, or lost because a cycle
\* is in flight: a cycle that knows of it begins all the same, if the session
\* stays active.
TriggersAreHeard == unheard ~> (~unheard \/ status # "active" \/ ~timer)

\* The next nudge of an agent goes to the model only after RuleBased nudges
\* in the same stall, although nudges of an earlier stall may end during it.
EscalationIsEarned ==
  \A a \in ToSet(entries) : seen[a] = "idle" /\ NeedsLLM(a) => said[a] = RuleBased

\* A silent agent is nudged while it stays silent, unless another silent one
\* is at the point where the model is asked: a tick that gets to that one
\* passes over the agents after it, even if it does not nudge it either.
StallsAreNudged ==
  \A a \in Agents :
    seen[a] = "idle" ~> \/ said[a] > 0 \/ seen[a] # "idle" \/ a \notin ToSet(entries) \/ ~watching
                        \/ \E b \in ToSet(entries) \ {a} : seen[b] = "idle" /\ NeedsLLM(b)
=============================================================================
