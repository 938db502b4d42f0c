------------------------------ MODULE Adapters ------------------------------
(***************************************************************************)
(* One delegation, made by one of the three adapters.                      *)
(***************************************************************************)
EXTENDS PiProcess, PiEmbedded, A2AClient

VARIABLE adapter

adapterVars == <<answer, reports, adapter, piVars, embeddedVars, a2aVars>>

AdapterInit ==
  /\ adapter \in {"pi", "pi-embedded", "a2a"}
  /\ AbstractInit /\ PiInit /\ EmbeddedInit /\ A2AInit

PiActs(step) == adapter = "pi" /\ step /\ UNCHANGED <<adapter, embeddedVars, a2aVars>>
EmbeddedActs(step) == adapter = "pi-embedded" /\ step /\ UNCHANGED <<adapter, piVars, a2aVars>>
A2AActs(step) == adapter = "a2a" /\ step /\ UNCHANGED <<adapter, piVars, embeddedVars>>

AdapterNext == PiActs(PiStep) \/ EmbeddedActs(EmbeddedStep) \/ A2AActs(A2AStep)

\* The adapters' own code and timers run, and a process that is told to end
\* does so unless it is stubborn.  What another program must do is not fair.
AdapterSpec ==
  /\ AdapterInit /\ [][AdapterNext]_adapterVars
  /\ WF_adapterVars(PiActs(PiBegin)) /\ WF_adapterVars(PiActs(PiSpawn))
  /\ WF_adapterVars(PiActs(PiObeys)) /\ WF_adapterVars(PiActs(TimedOut))
  /\ WF_adapterVars(PiActs(TimerTerminates)) /\ WF_adapterVars(PiActs(TimerKills))
  /\ WF_adapterVars(PiActs(ExitRace)) /\ WF_adapterVars(EmbeddedActs(EmbeddedTimely))
  /\ WF_adapterVars(A2AActs(A2ATimely)) /\ WF_adapterVars(A2AActs(Clock))

-----------------------------------------------------------------------------
AdapterTypeOK == PiTypeOK /\ EmbeddedTypeOK /\ A2ATypeOK

Said == CASE adapter = "pi" -> written [] adapter = "pi-embedded" -> lastText [] OTHER -> output

\* Whatever the callbacks of an adapter do in whichever order, they keep the
\* contract: one answer, no grade the agent did not give, and a report with the
\* answer, never before it, after it or again.  The embedded adapter reports no
\* end, nor does pi that of a session stopped before its agent started.
Silent == adapter = "pi-embedded" \/ (adapter = "pi" /\ stopped /\ pc = "new")

KeepsContract ==
  [][answer' # answer \/ reports' # reports => Answer(Said', Silent)]_adapterVars

\* Every delegation is answered, however the agent behaves, unless it stays
\* for good at one of the five things that have no timeout.
Unlimited ==
  stage \in {"creating", "prompting"} \/ call \in {"card", "refused", "poll"}

IsAnswered == <>(answer # "none") \/ <>[]Unlimited

\* No adapter leaves its agent running after it has answered: the process is
\* gone, unless it ignores SIGTERM and the answer came before it was killed.
NothingLeftRunning ==
  (answer # "none") ~> (proc # "up" \/ stubborn) /\ session # "open"

\* engine/adapter-instrumentation.test.ts:141: the adapter returns a cancelled
\* result when the session aborts before the process is spawned.
NoSpawnAfterStop == [][proc = "none" /\ proc' = "up" => ~stopped]_adapterVars
=============================================================================
