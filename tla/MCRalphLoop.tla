----------------------------- MODULE MCRalphLoop -----------------------------
(***************************************************************************)
(* Two personas.  Of the sessions one is a golden of the first persona to  *)
(* begin with, one could become one, one runs no chain, and one golden's   *)
(* trace is gone.                                                          *)
(***************************************************************************)
EXTENDS RalphLoop

Good == [loads |-> TRUE, goal |-> TRUE, status |-> "completed", steps |-> "finished",
         agentErrors |-> FALSE, errorLogs |-> FALSE, llmCall |-> TRUE, cost |-> 1,
         personas |-> {"coder"}]

OfSessions ==
  [s \in Sessions |->
     CASE s = "golden" -> Good
       [] s = "new"    -> [Good EXCEPT !.personas = Files]
       [] s = "smoke"  -> [Good EXCEPT !.steps = "none"]
       [] s = "lost"   -> [Good EXCEPT !.loads = FALSE]]

AtFirst == [s \in Sessions |-> IF s \in {"golden", "lost"} THEN "pass" ELSE "none"]

\* A good replay, a dear one, one with an agent that failed, and one that left
\* no trace.
SomeReplays ==
  {Good, [Good EXCEPT !.cost = 3], [Good EXCEPT !.agentErrors = TRUE],
   [Good EXCEPT !.loads = FALSE]}

SomeShapes ==
  {[target |-> "coder", named |-> "coder", field |-> "system_prompt", action |-> "append"],
   [target |-> "coder", named |-> "critic", field |-> "system_prompt", action |-> "replace"],
   [target |-> "critic", named |-> "critic", field |-> "skills", action |-> "append"],
   [target |-> "elsewhere", named |-> "elsewhere", field |-> "code", action |-> "add"]}
=============================================================================
