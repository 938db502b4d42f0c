-------------------------- MODULE OrchestratorLoop --------------------------
(***************************************************************************)
(* The reasoning loop beside a run (engine/orchestrator-loop.ts): cycles   *)
(* begun by an interval, by triggers with a debounce and by the user's     *)
(* messages, one at a time, each against a timeout; what they cost; and    *)
(* the drain in which a run waits for the last one.  What the actions of   *)
(* an answer do to the run is SessionControl's.                            *)
(*                                                                         *)
(* Time passes in the actions for the debounce, the interval and the two   *)
(* timeouts.                                                               *)
(***************************************************************************)
EXTENDS Budget, SessionState

CONSTANTS Costs   \* what one answer, or one agent's work, may cost

ASSUME CostsAssumption == Costs \subseteq Nat \ {0}

VARIABLES
  status,    \* session.status
  total,     \* session.totalCost
  closing,   \* how far the end of Orchestrator.run is
  timer,     \* the loop's interval runs
  pending,   \* pendingTrigger
  cycle,     \* where runReasoningCycle stands; "none": not cycleInFlight
  own,       \* totalCostUsd of the loop
  reported,  \* what stopAndDrain returned
  unheard    \* something has triggered since the last cycle began

sessionVars == <<status, total, closing>>
loopVars == <<timer, pending, cycle, own, reported, unheard>>

LoopTypeOK ==
  /\ status \in SessionStatus /\ total \in Nat /\ own \in Nat /\ reported \in Nat
  /\ closing \in {"running", "draining", "drained", "abandoned"}
  /\ cycle \in {"none", "thinking", "telling", "billed"}
  /\ {timer, pending, unheard} \subseteq BOOLEAN

LoopInit ==
  /\ status = "active" /\ total = 0 /\ closing = "running"
  /\ timer = TRUE /\ cycle = "none" /\ own = 0 /\ reported = 0
  /\ pending = FALSE /\ unheard = FALSE

-----------------------------------------------------------------------------
ShouldRunCycle(byUser) ==
  /\ status \notin Terminal
  /\ status = "paused" => byUser

\* runReasoningCycle up to its first await: it is skipped, or lost because a
\* cycle is in flight, or it begins.
Reason(byUser) ==
  cycle' = IF ShouldRunCycle(byUser) /\ cycle = "none" THEN "thinking" ELSE cycle

\* A cycle that begins knows of all that has happened.
Heard == unheard' = (unheard /\ cycle' = cycle)

\* The interval takes a pending trigger off, whatever becomes of its cycle.
Interval ==
  /\ timer
  /\ pending' = FALSE
  /\ Reason(FALSE) /\ Heard
  /\ UNCHANGED <<sessionVars, timer, own, reported>>

\* trigger, by the end of a chain step or by a severity alert: it is put off
\* when the last cycle began less than DEBOUNCE_MS ago.
Trigger ==
  /\ closing = "running"
  /\ \/ pending' = TRUE /\ unheard' = TRUE /\ UNCHANGED cycle
     \/ UNCHANGED pending /\ Reason(FALSE) /\ unheard' = (cycle' = cycle)
  /\ UNCHANGED <<sessionVars, timer, own, reported>>

HandleUserMessage ==
  /\ closing = "running"
  /\ Reason(TRUE) /\ Heard
  /\ UNCHANGED <<sessionVars, timer, pending, own, reported>>

\* The finally block: no cycle is in flight, and a drain that waits is woken.
FinishCycle(paid) ==
  /\ cycle' = "none"
  /\ IF closing = "draining"
     THEN closing' = "drained" /\ reported' = paid
     ELSE UNCHANGED <<closing, reported>>

\* The delegate throws, or the timeout comes first; an answer after that is
\* dropped and what it has cost is never counted.
ThinkingFails ==
  /\ cycle = "thinking"
  /\ FinishCycle(own)
  /\ UNCHANGED <<status, total, timer, pending, own, unheard>>

\* The answer's actions are pushed; the reply and the state are being emitted.
Answers ==
  /\ cycle = "thinking" /\ cycle' = "telling"
  /\ UNCHANGED <<sessionVars, timer, pending, own, reported, unheard>>

\* Mutant: an exception leaves cycleInFlight set.
BudgetThrowsInFlight(c) ==
  /\ cycle = "telling" /\ Refuses(total, c)
  /\ UNCHANGED <<sessionVars, loopVars>>

\* checkBudget throws after the actions are out: their cost is not added.
BudgetThrows(c) ==
  /\ cycle = "telling" /\ Refuses(total, c)
  /\ FinishCycle(own)
  /\ UNCHANGED <<status, total, timer, pending, own, unheard>>

\* Mutant: a drain is woken before the answer is paid for.
BillAfterWaking(c) ==
  /\ cycle = "telling" /\ ~Refuses(total, c)
  /\ total' = total + c /\ own' = own + c /\ cycle' = "billed"
  /\ IF closing = "draining"
     THEN closing' = "drained" /\ reported' = own
     ELSE UNCHANGED <<closing, reported>>
  /\ UNCHANGED <<status, timer, pending, unheard>>

Bill(c) ==
  /\ cycle = "telling" /\ ~Refuses(total, c)
  /\ total' = total + c /\ own' = own + c /\ cycle' = "billed"
  /\ UNCHANGED <<status, closing, timer, pending, reported, unheard>>

\* The cost is emitted.
CycleEnds ==
  /\ cycle = "billed"
  /\ FinishCycle(own)
  /\ UNCHANGED <<status, total, timer, pending, own, unheard>>

-----------------------------------------------------------------------------
\* The rest of the run, as far as the loop and the monitor see it.

\* An agent's work is paid for.
AgentPaid(c) ==
  /\ closing = "running" /\ status \notin Terminal
  /\ ~Refuses(total, c) /\ total' = total + c
  /\ UNCHANGED <<status, closing, loopVars>>

\* The user's commands, and a severity pause.
Steer(to) ==
  /\ closing = "running" /\ CanTransition(status, to) /\ to \in {"active", "paused"}
  /\ status' = to
  /\ UNCHANGED <<total, closing, loopVars>>

\* !stop; the monitor is stopped as well, see Supervision.
StopLoop ==
  /\ closing = "running"
  /\ status' = Transition(status, "error") /\ timer' = FALSE
  /\ UNCHANGED <<total, closing, pending, cycle, own, reported, unheard>>

\* runChain returns or throws; run records the status and calls stopAndDrain.
EndRun(to) ==
  /\ closing = "running" /\ to \in Terminal
  /\ status' = Transition(status, to) /\ timer' = FALSE
  /\ IF cycle = "none"
     THEN closing' = "drained" /\ reported' = own
     ELSE closing' = "draining" /\ UNCHANGED reported
  /\ UNCHANGED <<total, pending, cycle, own, unheard>>

DrainTimesOut ==
  /\ closing = "draining" /\ closing' = "abandoned" /\ reported' = own
  /\ UNCHANGED <<status, total, timer, pending, cycle, own, unheard>>

CycleStep ==
  \/ ThinkingFails \/ Answers \/ CycleEnds
  \/ \E c \in Costs : BudgetThrows(c) \/ Bill(c)

LoopStep == Interval \/ Trigger \/ HandleUserMessage \/ CycleStep
=============================================================================
