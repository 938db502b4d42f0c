------------------------ MODULE CertificationEvidence ------------------------
(***************************************************************************)
(* What engine/certification-validator.ts reads out of the trace of a      *)
(* certification run.  An event is [type, id, what, text]: what is the     *)
(* grade of an agent.end, the status of a session.end, the intent of a     *)
(* steer.action, the place a tool.call went to; text is the kind of the    *)
(* output artifact.  A trace is a pair: tr.lines, in their order, and      *)
(* tr.loose, the events whose place among the others no check looks at.    *)
(***************************************************************************)
EXTENDS SequencesExt

CONSTANTS Leads  \* the leads of REQUIRED_LEADS

Synth == "synth"

Event(type, id, what, text) == [type |-> type, id |-> id, what |-> what, text |-> text]

\* parseCertContract, of the contracts that a synthesis may write.  whole: the
\* schema version is 1, no field is missing, all perspectives are covered.
Contracts ==
  [ready   |-> [verdict |-> "pass", findings |-> FALSE, ready |-> TRUE,
                failedTeams |-> FALSE, whole |-> TRUE],
   refused |-> [verdict |-> "fail", findings |-> TRUE, ready |-> FALSE,
                failedTeams |-> TRUE, whole |-> TRUE],
   boast   |-> [verdict |-> "pass", findings |-> FALSE, ready |-> TRUE,
                failedTeams |-> TRUE, whole |-> TRUE],
   hollow  |-> [verdict |-> "pass", findings |-> FALSE, ready |-> TRUE,
                failedTeams |-> FALSE, whole |-> FALSE]]

IsContract(text) == text \in DOMAIN Contracts

\* The recorder appends.  Loose are the events tool.call, agent.error,
\* session.end, participant.stale, and the end of an agent as a participant,
\* here participant.closed.
Recorded(tr, lines, loose) ==
  [lines |-> tr.lines \o lines, loose |-> tr.loose \cup loose]

Of(tr, type) == {i \in DOMAIN tr.lines : tr.lines[i].type = type}
Noted(tr, type) == {e \in tr.loose : e.type = type}
AgentEnds(tr) == Of(tr, "agent.end")

LifecycleComplete(tr) == Leads \subseteq {tr.lines[i].id : i \in AgentEnds(tr)}

OnlyAgentsFail(tr) == Noted(tr, "agent.error") = {}

NoOperationalFailures(tr) ==
  /\ Noted(tr, "agent.error") = {}
  /\ \A e \in Noted(tr, "session.end") : e.what = "completed"

LatestGrade(tr, id) == tr.lines[Max({i \in AgentEnds(tr) : tr.lines[i].id = id})].what

\* A failed run of an agent is passed over when a later run of it did not fail.
NoEmptyOutputs(tr) ==
  \A i \in AgentEnds(tr) :
    tr.lines[i].text = "empty" =>
      tr.lines[i].what = "FAILED" /\ LatestGrade(tr, tr.lines[i].id) # "FAILED"

Went(tr, place) == \E e \in Noted(tr, "tool.call") : e.what = place
NoScopeDrift(tr) == ~Went(tr, "other workdir")
NoWrongFixture(tr, expected) == expected # "none" => ~Went(tr, "other fixture")
NoRepoSourceReads(tr) == ~Went(tr, "repository")

\* isWorkerSpawn: an agent.start of neither a lead nor the synthesis.
WorkerSpawns(tr) == {i \in Of(tr, "agent.start") : tr.lines[i].id \notin Leads \cup {Synth}}

\* Nobody is decided on twice; a strict run decides before it spawns.
SpawnDecisionsValid(tr, strict) ==
  LET decisions == Of(tr, "spawn.decision")
  IN /\ \A i, j \in decisions : tr.lines[i].id = tr.lines[j].id => i = j
     /\ strict => \A s \in WorkerSpawns(tr) :
                    \E d \in decisions : d < s /\ tr.lines[d].id = tr.lines[s].id

NoLeakedContracts(tr) ==
  \A i \in AgentEnds(tr) : tr.lines[i].id # Synth => ~IsContract(tr.lines[i].text)

TeamContractsValid(tr) ==
  \A i \in AgentEnds(tr) : tr.lines[i].id \in Leads => ~IsContract(tr.lines[i].text)

Canonical(tr) == {i \in AgentEnds(tr) : tr.lines[i].id = Synth /\ IsContract(tr.lines[i].text)}

\* The first artifact of the synthesis that has a contract.
Contract(tr) == Contracts[tr.lines[Min(Canonical(tr))].text]

ContractMatchesEvidence(tr, expected) ==
  /\ Canonical(tr) # {}
  /\ LET c == Contract(tr)
     IN /\ c.whole
        /\ c.ready => /\ LifecycleComplete(tr)
                      /\ NoEmptyOutputs(tr)
                      /\ NoScopeDrift(tr)
                      /\ ~c.failedTeams
        /\ c.verdict = "pass" => NoOperationalFailures(tr)
        /\ expected = "clean" => c.verdict = "pass" /\ ~c.findings /\ c.ready
        /\ expected = "seeded" => ~c.ready /\ ~(c.verdict = "pass" /\ ~c.findings)
        /\ expected = "failing" => c.verdict = "fail" /\ ~c.ready

Steers(tr) == Of(tr, "steer.action")

\* The action stands between the start and the end of its participant.
Bracketed(tr, i) ==
  /\ \E j \in Of(tr, "participant.start") : j < i /\ tr.lines[j].id = tr.lines[i].id
  /\ \E j \in Of(tr, "participant.end") : i < j /\ tr.lines[j].id = tr.lines[i].id

\* Evidence hiding: every lead has ended before the last stop.
NothingHidden(tr) ==
  LET stops == {i \in Steers(tr) : tr.lines[i].what = "stop"}
  IN stops # {} =>
       Leads \subseteq {tr.lines[i].id : i \in {j \in AgentEnds(tr) : j < Max(stops)}}

SteerEventsValid(tr, interactive) ==
  /\ ~interactive => Steers(tr) = {}
  /\ \A i \in Steers(tr) : Bracketed(tr, i)
  /\ interactive => NothingHidden(tr)

NeverStale(tr) == Noted(tr, "participant.stale") = {}

\* A stale participant counts as recovered by an end, earlier or later.
NoStaleParticipants(tr) ==
  {e.id : e \in Noted(tr, "participant.stale")}
    \subseteq {e.id : e \in Noted(tr, "participant.closed")}

\* validateCertificationEvidence: the flags are those of mae validate-cert.
Validated(tr, live, strict, interactive, expected) ==
  /\ LifecycleComplete(tr)
  /\ NoOperationalFailures(tr)
  /\ NoEmptyOutputs(tr)
  /\ NoScopeDrift(tr)
  /\ NoWrongFixture(tr, expected)
  /\ live => NoRepoSourceReads(tr) /\ WorkerSpawns(tr) = {}
  /\ NoLeakedContracts(tr)
  /\ Canonical(tr) # {}
  /\ TeamContractsValid(tr)
  /\ NoStaleParticipants(tr)
  /\ ContractMatchesEvidence(tr, expected)
  /\ SpawnDecisionsValid(tr, strict)
  /\ SteerEventsValid(tr, interactive)
=============================================================================
