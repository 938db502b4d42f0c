--------------------------- MODULE CertificationRun ---------------------------
(***************************************************************************)
(* A certification run (MAE_CERTIFICATION_MODE=1): the parallel review     *)
(* step of orchestrator.ts, chain-runner.ts and team-execution.ts, seen    *)
(* through the trace that trace-recorder.ts writes of it, and what the     *)
(* validator then says of that trace.  Teams run side by side while the    *)
(* operator steers; the recorder appends synchronously, so the trace has   *)
(* the order of the log calls.                                             *)
(***************************************************************************)
EXTENDS CertificationEvidence, SessionState

CONSTANTS
  Workers,    \* the workers of the teams, one for each lead in LeadOf
  LeadOf,     \* [Workers -> Leads]
  LeadOutcomes, WorkerOutcomes,  \* [Leads -> outcomes] and outcomes: a grade,
              \* the kind of the output, the place the tools went to
  Claims,     \* the kinds of output of a synthesis that did not fail
  Intents,    \* what the operator may send: "message" or a command
  MaxSteers   \* bound: messages and commands of the operator

\* GradeLevel of types.ts.
Grades == {"PERFECT", "VERIFIED", "PARTIAL", "FEEDBACK", "FAILED", "UNGRADED"}
Kinds == {"empty", "report"} \cup DOMAIN Contracts
Places == {"fixture", "other fixture", "other workdir", "repository"}
Outcome == Grades \X Kinds \X Places

ASSUME CastAssumption ==
  /\ Leads \cap Workers = {} /\ Synth \notin Leads \cup Workers
  /\ LeadOf \in [Workers -> Leads]
ASSUME OutcomesAssumption ==
  /\ LeadOutcomes \in [Leads -> SUBSET Outcome] /\ WorkerOutcomes \subseteq Outcome
  /\ Claims \subseteq Kinds /\ Intents \subseteq {"message", "pause", "resume", "stop"}
  /\ MaxSteers \in Nat

Running == {"leads", "synthesis"}

VARIABLES
  leadOnly,  \* prepared.leadOnly: the leads have no workers
  phase,     \* where runParallelStep, then run stand; killed: the process is gone
  team,      \* where the team of each lead stands
  grade,     \* what runTeamStep returned for a lead, "threw" if it did
  worker,    \* where each worker stands
  status,    \* session.status
  trace,     \* the JSONL file
  steers,    \* the intents of the operator's inputs
  heeded     \* (history) inputs that reached an agent or the session

vars == <<leadOnly, phase, team, grade, worker, status, trace, steers, heeded>>

Log(lines, loose) == trace' = Recorded(trace, lines, loose)
Note(type, id, what) == Log(<<>>, {Event(type, id, what, "none")})

Init ==
  /\ leadOnly \in BOOLEAN
  /\ phase = "leads"
  /\ team = [l \in Leads |-> "briefing"]
  /\ grade = [l \in Leads |-> "none"]
  /\ worker = [w \in Workers |-> "idle"]
  /\ status = "active"
  /\ trace = [lines |-> <<>>, loose |-> {}]
  /\ steers = <<>>
  /\ heeded = {}

Stopped == status = "error"

\* The process no longer writes to the trace.
Over == phase \in {"ended", "killed"}

\* A tool call of the agent, and safeResolve of its adapter.
Called(id, out) == {Event("tool.call", id, out[3], "none")}
Ended(id, out) == <<Event("agent.end", id, out[1], out[2])>>

\* How a team ends once its lead has answered.  The awaits on the way to
\* agentDone leave no mark in the trace; a budget that is spent or a session
\* that was stopped meanwhile throws, before or after the participant's end.
Closed(l) == {Event("participant.closed", l, "none", "none")}
TeamEnds(l, out, g) ==
  /\ team' = [team EXCEPT ![l] = "over"]
  /\ \/ /\ grade' = [grade EXCEPT ![l] = g]
        /\ Log(Ended(l, out), Called(l, out) \cup Closed(l))
     \/ /\ grade' = [grade EXCEPT ![l] = "threw"]
        /\ \/ Log(Ended(l, out), Called(l, out))
           \/ Stopped /\ Log(Ended(l, out), Called(l, out) \cup Closed(l))

\* delegateToLead: a lead that failed or has no workers is the result of its
\* team.
LeadEnds(l) ==
  /\ phase = "leads" /\ team[l] = "briefing"
  /\ \E out \in LeadOutcomes[l] :
       IF out[1] = "FAILED" \/ leadOnly \/ \A w \in Workers : LeadOf[w] # l
         THEN TeamEnds(l, out, out[1])
         ELSE /\ team' = [team EXCEPT ![l] = "workers"]
              /\ Log(Ended(l, out), Called(l, out))
              /\ UNCHANGED grade
  /\ UNCHANGED <<leadOnly, phase, worker, status, steers, heeded>>

\* Something throws before the lead or its review has answered.
TeamThrows(l) ==
  /\ phase = "leads" /\ team[l] # "over"
  /\ \A w \in Workers : LeadOf[w] = l => worker[w] \in {"idle", "done"}
  /\ team' = [team EXCEPT ![l] = "over"]
  /\ grade' = [grade EXCEPT ![l] = "threw"]
  /\ UNCHANGED <<leadOnly, phase, worker, status, trace, steers, heeded>>

\* runWorker in strict mode: the decision, and after the worktree and the post
\* of the agent its start.
WorkerDecided(w) ==
  /\ phase = "leads" /\ team[LeadOf[w]] = "workers" /\ worker[w] = "idle" /\ ~Stopped
  /\ worker' = [worker EXCEPT ![w] = "decided"]
  /\ Log(<<Event("spawn.decision", w, "none", "none")>>, {})
  /\ UNCHANGED <<leadOnly, phase, team, grade, status, steers, heeded>>

WorkerSpawned(w) ==
  /\ phase = "leads" /\ worker[w] = "decided"
  /\ worker' = [worker EXCEPT ![w] = "running"]
  /\ Log(<<Event("agent.start", w, "none", "none")>>, {})
  /\ UNCHANGED <<leadOnly, phase, team, grade, status, steers, heeded>>

\* A worker that threw is logged as an error of the team, and reviewed as one
\* that needs rework.
WorkerEnds(w) ==
  /\ phase = "leads" /\ worker[w] = "running"
  /\ worker' = [worker EXCEPT ![w] = "done"]
  /\ \/ \E out \in WorkerOutcomes : Log(Ended(w, out), Called(w, out))
     \/ Note("agent.error", w, "none")
  /\ UNCHANGED <<leadOnly, phase, team, grade, status, steers, heeded>>

\* leadReviewWorkers and buildTeamResult: whatever becomes of the review, a
\* worker without a review block passes.
LeadReviews(l) ==
  /\ phase = "leads" /\ team[l] = "workers" /\ ~Stopped
  /\ \A w \in Workers : LeadOf[w] = l => worker[w] = "done"
  /\ \E out \in LeadOutcomes[l], g \in {"VERIFIED", "FAILED"} :
       /\ out[1] = "FAILED" => g = "VERIFIED"
       /\ TeamEnds(l, out, g)
  /\ UNCHANGED <<leadOnly, phase, worker, status, steers, heeded>>

\* The monitor finds a tracked agent silent (bound: once in a run); !stop stops
\* the monitor.
MonitorFindsStale(l) ==
  /\ phase \in Running /\ ~Stopped
  /\ Noted(trace, "participant.stale") = {}
  /\ team[l] # "over" \/ grade[l] = "threw"
  /\ Note("participant.stale", l, "none")
  /\ UNCHANGED <<leadOnly, phase, team, grade, worker, status, steers, heeded>>

\* Promise.allSettled: the teams that threw are logged, and the synthesis is
\* spawned.
TeamsSettle ==
  /\ phase = "leads" /\ \A l \in Leads : team[l] = "over"
  /\ phase' = "synthesis"
  /\ Log(<<>>, {Event("agent.error", l, "none", "none") : l \in {m \in Leads : grade[m] = "threw"}})
  /\ UNCHANGED <<leadOnly, team, grade, worker, status, steers, heeded>>

\* The synthesis answers; once the session is stopped the adapter may refuse to
\* start it.  The step fails with any team that failed or threw.
SynthesisAnswers(g, text) ==
  LET out == <<g, text, "fixture">> IN Log(Ended(Synth, out), Called(Synth, out))
SynthesisEnds ==
  /\ phase = "synthesis"
  /\ \/ \E text \in Claims :
          /\ SynthesisAnswers("VERIFIED", text)
          /\ phase' = IF \E l \in Leads : grade[l] \in {"FAILED", "threw"}
                        THEN "failed" ELSE "concluded"
     \/ /\ SynthesisAnswers("FAILED", "empty")
        /\ phase' = "failed"
     \/ /\ Stopped
        /\ phase' = "failed"
        /\ UNCHANGED trace
  /\ UNCHANGED <<leadOnly, team, grade, worker, status, steers, heeded>>

\* run after runChain returned or threw: the status, the last lines of the
\* trace, and the process exits.  What the operator has sent while run awaited
\* its last posts is in the trace already or too late for it.
Ends ==
  /\ \/ /\ phase = "concluded"
        /\ status' = Transition(status, "completed")
        /\ Note("session.end", "none", status')
     \/ /\ phase = "failed"
        /\ status' = Transition(status, "error")
        /\ Log(<<>>, {Event("session.end", "none", "none", "none"),
                      Event("session.end", "none", "error", "none")})
  /\ phase' = "ended"
  /\ UNCHANGED <<leadOnly, team, grade, worker, steers, heeded>>

\* A signal to the process: shutdown stops the session, and leaves no line in
\* the trace.  The run goes on until the last post of shutdown is answered.
ShutDown ==
  /\ ~Over
  /\ status' = Transition(status, "error")
  /\ UNCHANGED <<leadOnly, phase, team, grade, worker, trace, steers, heeded>>

\* The process is gone: shutdown has ended it, a second signal, a crash.
Killed ==
  /\ ~Over
  /\ phase' = "killed"
  /\ UNCHANGED <<leadOnly, team, grade, worker, status, trace, steers, heeded>>

AgentAtWork == phase = "synthesis" \/ \E l \in Leads : team[l] \in {"briefing", "workers"}

\* Mutant: commands are not traced.
SteerTracedAsMessage(k, intent) ==
  <<Event("participant.start", k, "none", "none")>>
    \o (IF intent = "message" THEN <<Event("steer.action", k, intent, "none")>> ELSE <<>>)
    \o <<Event("participant.end", k, "none", "none")>>

\* steerAction: its awaits only append to the emitter's buffer, so that its
\* lines stand together.
SteerTraced(k, intent) ==
  <<Event("participant.start", k, "none", "none"), Event("steer.action", k, intent, "none"),
    Event("participant.end", k, "none", "none")>>

OperatorSends(intent) ==
  /\ ~Over /\ Len(steers) < MaxSteers
  /\ steers' = Append(steers, intent)
  /\ Log(SteerTraced(Len(steers) + 1, intent), {})
  /\ UNCHANGED <<leadOnly, phase, team, grade, worker>>

\* sendUserMessage: a message goes to whoever is at work.
MessageSent ==
  /\ OperatorSends("message")
  /\ heeded' = IF phase \in Running /\ AgentAtWork THEN heeded \cup {"message"} ELSE heeded
  /\ UNCHANGED status

\* handleSteerCommand.
Wanted == [pause |-> "paused", resume |-> "active", stop |-> "error"]
CommandSent(intent) ==
  /\ OperatorSends(intent)
  /\ status' = Transition(status, Wanted[intent])
  /\ heeded' = IF CanTransition(status, Wanted[intent]) THEN heeded \cup {intent} ELSE heeded

Next ==
  \/ \E l \in Leads : \/ LeadEnds(l) \/ TeamThrows(l) \/ LeadReviews(l)
                      \/ MonitorFindsStale(l)
  \/ \E w \in Workers : WorkerDecided(w) \/ WorkerSpawned(w) \/ WorkerEnds(w)
  \/ TeamsSettle \/ SynthesisEnds \/ Ends \/ ShutDown \/ Killed
  \/ "message" \in Intents /\ MessageSent
  \/ \E intent \in Intents \ {"message"} : CommandSent(intent)

Spec == Init /\ [][Next]_vars

-----------------------------------------------------------------------------
\* The verdict under the flags that ask least of a trace: every other choice of
\* --strict-spawn and --expected asks for more.
Accepted(live, interactive) == Validated(trace, live, FALSE, interactive, "none")

\* When the validator accepts the trace of a live certification, interactive or
\* not, the review took place, even if the process was killed: the team of each
\* lead, which had no workers, was over and did not throw, and the last run of the
\* lead that the trace holds has the grade its team returned.  Of a session that
\* came to its end it also says that no stop got through, that it completed, and
\* that no lead failed.  That rests on the chain runner ending the session with an
\* error for a failed team, because checkLifecycleComplete counts a lead that
\* failed as completed.
Reviewed ==
  Over /\ (Accepted(TRUE, TRUE) \/ Accepted(TRUE, FALSE)) =>
    /\ \A l \in Leads : /\ team[l] = "over" /\ grade[l] \in Grades
                        /\ LatestGrade(trace, l) = grade[l]
    /\ phase = "ended" => /\ "stop" \notin heeded
                          /\ status = "completed"
                          /\ \A l \in Leads : grade[l] # "FAILED"

\* The validator accepts every run in which nothing went wrong: each team
\* verified, no agent failed, leaked a contract or left its fixture, and the
\* synthesis claims readiness.  Messages, pauses and resumptions do not matter to
\* an interactive certification, nor does an agent that was silent for a while,
\* nor workers to one that is not live.
SoundRunPasses ==
  LET ends == AgentEnds(trace)
      sound == /\ Over /\ status = "completed"
               /\ \A l \in Leads : grade[l] = "VERIFIED"
               /\ \A e \in Noted(trace, "tool.call") : e.what = "fixture"
               /\ Noted(trace, "agent.error") = {}
               /\ \A i \in ends : trace.lines[i].what # "FAILED"
               /\ \A i \in ends : trace.lines[i].id # Synth => trace.lines[i].text = "report"
               /\ \A i \in ends : trace.lines[i].id = Synth => trace.lines[i].text = "ready"
               /\ \A k \in DOMAIN steers : steers[k] # "stop"
  IN sound => Validated(trace, leadOnly, TRUE, steers # <<>>, "clean")

\* "Any web/CLI steer event fails validation" (README.md:294): whatever of the
\* operator's inputs took hold of an agent or of the session, and however the run
\* went on, an unattended certification refuses the run.
SteeringIsSeen == Over /\ heeded # {} => ~Accepted(FALSE, FALSE)

-----------------------------------------------------------------------------
(* What a reader of the validator may expect, and the code does not do.    *)

\* "detects non-completed session end" (certification-validator.test.ts:189):
\* the validator faults a session.end that is there, and misses one that is not.
\* A run that was shut down or killed once the synthesis had answered leaves a
\* trace that passes, though the session did not complete.
CertifiedRunsCompleted ==
  Over /\ (Accepted(TRUE, TRUE) \/ Accepted(TRUE, FALSE)) => status = "completed"
=============================================================================
