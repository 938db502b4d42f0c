------------------------------ MODULE Delegate ------------------------------
(***************************************************************************)
(* What TeamExecution relies on when it hands a prompt to an adapter       *)
(* (PlatformAdapter.delegate in engine/types.ts): one answer per           *)
(* delegation, one report of its end in the trace (agent.end) or none, and *)
(* never a grade the agent did not give.  The adapters are PiProcess,      *)
(* PiEmbedded and A2AClient.                                               *)
(***************************************************************************)
VARIABLES
  answer,    \* what the promise has been resolved with: "none" before
  reports    \* how often the end of the delegation has been logged

\* The text an agent may produce: none, one without a GRADE line, one with it.
Text == {"", "plain", "graded"}

\* The grade of a result: extractGrade gives none where there is no GRADE line.
GradeOf(text) ==
  CASE text = "graded" -> "graded" [] text = "plain" -> "ungraded" [] OTHER -> "failed"

AbstractInit == answer = "none" /\ reports = 0

\* written is the text the agent has ended a message with so far.  The end is
\* logged with the answer, unless the adapter is silent.
Answer(written, silent) ==
  /\ answer = "none"
  /\ answer' \in {"failed", "ungraded"} \cup (IF written = "graded" THEN {"graded"} ELSE {})
  /\ reports' = IF silent THEN 0 ELSE 1
=============================================================================
