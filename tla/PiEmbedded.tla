----------------------------- MODULE PiEmbedded -----------------------------
(***************************************************************************)
(* A delegation to the pi SDK inside the engine's own process              *)
(* (PiEmbeddedAdapter.delegate in engine/adapters/pi-embedded.ts).  It     *)
(* looks at neither the abort signal nor, while it waits for the session   *)
(* and for the prompt, at the clock, and it logs no agent.end on any path. *)
(***************************************************************************)
EXTENDS Naturals, Delegate

VARIABLES
  lastText,   \* getLastAssistantText
  stage,      \* "new", "creating", "prompting", "streaming", "returned"
  session     \* the SDK's session: "none", "open", "disposed"

embeddedVars == <<lastText, stage, session>>

EmbeddedTypeOK ==
  /\ lastText \in Text
  /\ stage \in {"new", "creating", "prompting", "streaming", "returned"}
  /\ session \in {"none", "open", "disposed"}

EmbeddedInit == lastText = "" /\ stage = "new" /\ session = "none"

Returns(g) == stage' = "returned" /\ answer' = g /\ UNCHANGED <<reports, lastText>>

Dispose == session' = IF session = "open" THEN "disposed" ELSE session

\* Without the SDK, or without the model, the delegation fails at once.
EmbeddedBegin ==
  /\ stage = "new"
  /\ \/ Returns("failed")
     \/ stage' = "creating" /\ UNCHANGED <<answer, reports, lastText>>
  /\ UNCHANGED session

\* createAgentSession answers, if the SDK ever does.
EmbeddedCreates ==
  /\ stage = "creating" /\ stage' = "prompting" /\ session' = "open"
  /\ UNCHANGED <<answer, reports, lastText>>

\* The agent writes while it is prompted or streams; a message "!stop" is a
\* message to it like any other.
EmbeddedWrites ==
  /\ stage \in {"prompting", "streaming"} /\ lastText' \in Text \ {""}
  /\ UNCHANGED <<answer, reports, stage, session>>

\* prompt returns; the deadline starts only now.
Prompted ==
  /\ stage = "prompting" /\ stage' = "streaming"
  /\ UNCHANGED <<answer, reports, lastText, session>>

\* The agent has stopped streaming.  An empty text has no grade here, where
\* the pi subprocess makes it FAILED.
StreamOver ==
  /\ stage = "streaming"
  /\ Returns(IF lastText = "" THEN "ungraded" ELSE GradeOf(lastText)) /\ Dispose

StreamDeadline == stage = "streaming" /\ Returns(GradeOf(lastText)) /\ Dispose

\* createAgentSession, prompt, or the end of it throws.
EmbeddedThrows ==
  /\ stage \in {"creating", "prompting", "streaming"} /\ Returns("failed") /\ Dispose

EmbeddedStep ==
  \/ EmbeddedBegin \/ EmbeddedCreates \/ EmbeddedWrites \/ Prompted
  \/ StreamOver \/ StreamDeadline \/ EmbeddedThrows

EmbeddedTimely == EmbeddedBegin \/ StreamDeadline
=============================================================================
