------------------------------- MODULE Budget -------------------------------
(***************************************************************************)
(* The limits of engine/budget.ts, on whole units of cost.  The limit on   *)
(* tokens is one on another unit, and the warning only a message: both are *)
(* left out.                                                               *)
(***************************************************************************)
EXTENDS Naturals

CONSTANTS
  SessionLimit,  \* max_per_session_usd
  AgentLimit     \* max_per_agent_usd

ASSUME BudgetAssumption ==
  /\ SessionLimit \in Nat \ {0}
  /\ AgentLimit \in Nat

\* Mutant: the cost under way is not counted.
RefusesSpentOnly(total, cost) == cost > AgentLimit \/ total >= SessionLimit

\* checkBudget throws: the cost of this agent is too high, or with it the
\* session reaches its limit.
Refuses(total, cost) == cost > AgentLimit \/ total + cost >= SessionLimit

\* percentUsed of the projection reaches a percentage.
UsedAtLeast(total, percent) == 100 * total >= percent * SessionLimit
=============================================================================
