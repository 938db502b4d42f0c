------------------------------ MODULE RalphLoop ------------------------------
(***************************************************************************)
(* The self-improvement loop (engine/ralph-loop.ts,                        *)
(* cli-commands-ralph.ts) and the golden sessions that hold it in check    *)
(* (replay.ts, cli-commands-golden.ts): the evaluator and the evolver      *)
(* propose changes of persona files, and with --apply each one is written  *)
(* into its file, the golden sessions are replayed with it, and it is kept *)
(* or the file is restored.  What a run has kept is committed at its end.  *)
(* A run may be killed at any point, the journal may refuse an entry, and  *)
(* meanwhile the user may edit the same files and change the goldens.      *)
(*                                                                         *)
(* A file is the set of the changes that have been made to it.             *)
(***************************************************************************)
EXTENDS Naturals, FiniteSets, Sequences, SequencesExt, Functions

CONSTANTS
  Files,         \* the persona files
  Sessions,      \* the sessions with a file in the trace directory
  Trace,         \* what each of these files holds
  Registered,    \* the golden registry to begin with
  Shapes,        \* the changes the evolver may propose
  Replays,       \* the traces a replay may leave
  MinCoverage,   \* min_golden_coverage
  MaxCost,       \* the cost above which a session does not pass
  Multiplier,    \* max_cost_multiplier
  RequireScores, \* require_langfuse_scores
  TraceLimit,    \* --limit: how many traces to learn from
  MaxRuns,       \* bound: runs of the command
  MaxProposed,   \* bound: what the evolver proposes per run (maxIterations)
  MaxEdits,      \* bound: edits of the user
  MaxPromoted    \* bound: changes of the golden registry

-----------------------------------------------------------------------------
(* Traces and what they are worth.                                         *)

\* What loadTrace makes of a file, as far as anything is decided by it.  A
\* cost that was not recorded counts like none.
SessionTrace == [
  loads : BOOLEAN,      \* the file is there and has an event that parses
  goal : BOOLEAN,       \* with a goal
  status : {"completed", "failed", "unknown"},
  steps : {"none", "unfinished", "finished"},
  agentErrors : BOOLEAN, errorLogs : BOOLEAN, llmCall : BOOLEAN,
  cost : Nat,
  personas : SUBSET Files]

\* scoreSession: the deterministic checks a trace fails.
FailedChecks(t) ==
  {c \in {"session_completed", "all_steps_executed", "no_agent_failures",
          "no_error_logs", "cost_reasonable"} :
     CASE c = "session_completed"  -> t.status # "completed"
       [] c = "all_steps_executed" -> t.steps # "finished"
       [] c = "no_agent_failures"  -> t.agentErrors
       [] c = "no_error_logs"      -> t.errorLogs
       [] c = "cost_reasonable"    -> t.cost > MaxCost}

\* validateGoldenTrace, but for its verdict.
Fit(t) == t.loads /\ t.llmCall /\ t.steps # "none"

Verdict == {"none", "pass", "fail"}

\* What parseMutations lets through, but for its text.  The target is a
\* persona's file, or what Ralph does not change: another kind of target, a
\* persona without a file.  The file that is named is the target's, unless
\* the model has named another.
Target == Files \cup {"elsewhere"}
Shape == [target : Target, named : Target,
          field : {"system_prompt", "tools", "skills", "model", "code"},
          action : {"append", "replace", "remove", "add", "investigate"}]

ASSUME RalphAssumption ==
  /\ Trace \in [Sessions -> SessionTrace] /\ Replays \subseteq SessionTrace
  /\ Registered \in [Sessions -> Verdict]
  /\ \A s \in Sessions : Registered[s] # "none" /\ Trace[s].loads => Fit(Trace[s])
  /\ Shapes \subseteq Shape /\ RequireScores \in BOOLEAN
  /\ {MinCoverage, MaxCost, Multiplier, TraceLimit,
      MaxRuns, MaxProposed, MaxEdits, MaxPromoted} \subseteq Nat

VARIABLES
  mode,      \* how the command was called: "advise", "apply", "try"
  runs,      \* the number of the run
  pc,        \* what the run does
  todo,      \* the proposed mutations it has not come to
  before,    \* the file as it was before the mutation under test
  untested,  \* the goldens that are still to be replayed
  tested,    \* those that were, and passed
  kept,      \* the mutations this run has accepted, to be committed
  disk,      \* the persona files
  git,       \* the persona files as they are committed
  journal,   \* the entries of ralph-journal.jsonl that accept a mutation
  registry,  \* golden.json: the verdict on each session
  promoted,  \* how often the registry was written
  edits,     \* how often the user has edited a file
  orphans    \* mutations that were under test when a run was killed, a history

run == <<mode, runs, todo, kept>>
test == <<before, untested, tested>>
files == <<disk, git, journal>>
others == <<registry, promoted, edits>>
vars == <<run, pc, test, files, others, orphans>>

Mutation == [run : 1 .. MaxRuns, n : 1 .. MaxProposed, shape : Shape]
Entry == [mutation : Mutation, tested : SUBSET Sessions]
Edit == [edit : 1 .. MaxEdits]

TypeOK ==
  /\ mode \in {"advise", "apply", "try"} /\ runs \in 0 .. MaxRuns /\ edits \in 0 .. MaxEdits
  /\ pc \in {"idle", "next", "replaying", "committing"}
  /\ todo \in Seq(Mutation) /\ kept \in Seq(Mutation)
  /\ {untested, tested} \subseteq SUBSET Sessions
  /\ before \subseteq Mutation \cup Edit /\ {disk, git} \subseteq [Files -> SUBSET (Mutation \cup Edit)]
  /\ journal \subseteq Entry /\ orphans \subseteq Mutation
  /\ registry \in [Sessions -> Verdict] /\ promoted \in 0 .. MaxPromoted

Init ==
  /\ mode = "advise" /\ runs = 0 /\ pc = "idle" /\ todo = <<>> /\ kept = <<>>
  /\ before = {} /\ untested = {} /\ tested = {} /\ edits = 0
  /\ disk = [f \in Files |-> {}] /\ git = disk /\ journal = {} /\ orphans = {}
  /\ registry = Registered /\ promoted = 0

\* The command has ended, and what it kept in memory is gone.
Exit ==
  /\ pc' = "idle" /\ mode' = "advise" /\ todo' = <<>> /\ kept' = <<>>
  /\ before' = {} /\ untested' = {} /\ tested' = {}

-----------------------------------------------------------------------------
(* The golden registry, another command's.                                 *)

\* addGoldenTrace: the entry of the session is added or replaced.
AddGoldenTrace(s, verdict) ==
  /\ promoted < MaxPromoted /\ promoted' = promoted + 1
  /\ registry' = [registry EXCEPT ![s] = verdict]
  /\ UNCHANGED <<run, pc, test, files, edits, orphans>>

\* mae golden add; a bad session is only taken with --force.
GoldenAdd(s) ==
  \E verdict \in {"pass", "fail"}, force \in BOOLEAN :
    /\ Fit(Trace[s]) /\ (verdict = "fail" => force)
    /\ AddGoldenTrace(s, verdict)

\* mae golden generate: a session run for the purpose, which has to pass.
GoldenGenerate(s) ==
  /\ registry[s] = "none"
  /\ Fit(Trace[s]) /\ FailedChecks(Trace[s]) = {}
  /\ AddGoldenTrace(s, "pass")

-----------------------------------------------------------------------------
(* What a run proposes.                                                    *)

\* The traces it may learn from: those the user has named, the newest ones,
\* of which some may not load, or those that rank highest of all that load;
\* and the goldens, or the goldens alone.  Which are the newest, and how they
\* rank, is left open.
Limited(S) ==
  {T \in SUBSET S : Cardinality(T) =
     IF Cardinality(S) < TraceLimit THEN Cardinality(S) ELSE TraceLimit}
Loadable(S) == {s \in S : Trace[s].loads}
LoadSelectedTraces == {Loadable(ids) : ids \in SUBSET Sessions \ {{}}}
LoadRecentTraces == {Loadable(newest) : newest \in Limited(Sessions)}
LoadHighSignalTraces == Limited(Loadable(Sessions))
LoadGoldenTraces == {s \in Sessions : registry[s] # "none" /\ Trace[s].loads}

AllTraces ==
  LET chosen == LoadSelectedTraces \cup LoadRecentTraces \cup LoadHighSignalTraces
  IN  chosen \cup {S \cup LoadGoldenTraces : S \in chosen} \cup {LoadGoldenTraces}

\* fallbackSuggestionFromFinding: to look into it.
Investigation ==
  [target |-> "elsewhere", named |-> "elsewhere", field |-> "code", action |-> "investigate"]

\* How many problems evaluateTraces finds.
Findings(traces) == IF traces = {} THEN {0} ELSE 0 .. MaxProposed

\* What proposeConfigMutations answers.
Evolved == UNION {[1 .. n -> Shapes] : n \in 1 .. MaxProposed}

\* The evolver's suggestions, or when it has none one for each finding.
Proposals(traces) ==
  UNION {IF n = 0 THEN {<<>>} ELSE Evolved \cup [1 .. n -> {Investigation}] :
           n \in Findings(traces)}

\* runRalphLoop up to the proposals.
Propose ==
  /\ pc = "idle" /\ runs < MaxRuns /\ runs' = runs + 1
  /\ pc' = "next" /\ mode' \in {"advise", "apply", "try"}
  /\ \E shapes \in UNION {Proposals(traces) : traces \in AllTraces} :
       todo' = [i \in DOMAIN shapes |-> [run |-> runs', n |-> i, shape |-> shapes[i]]]
  /\ UNCHANGED <<kept, test, files, others, orphans>>

-----------------------------------------------------------------------------
(* The mutations, one after the other.                                     *)

Present == Head(todo)
File == Present.shape.target
Done == todo' = Tail(todo)

\* writeJournal, which throws when the entry cannot be written.  Of other
\* entries than an acceptance no more is kept than whether they were written.
Journals(verdict) ==
  journal' = journal \cup
    IF verdict = "accepted" THEN {[mutation |-> Present, tested |-> tested]} ELSE {}
JournalThrows == UNCHANGED journal

\* Without --apply a mutation is only reported.
Suggest ==
  /\ pc = "next" /\ todo # <<>> /\ mode = "advise" /\ Done
  /\ UNCHANGED <<mode, runs, kept, pc, test, files, others, orphans>>

\* selectRatchetGoldens: those that ran the persona, and if they are too few,
\* all that pass.
SelectRatchetGoldens(f) ==
  LET loaded == {s \in Sessions : registry[s] = "pass" /\ Trace[s].loads}
      targeted == {s \in loaded : f \in Trace[s].personas}
  IN  IF Cardinality(targeted) >= MinCoverage THEN targeted ELSE loaded

Covered(f) == Cardinality(SelectRatchetGoldens(f)) >= MinCoverage

\* verifyMutation refuses: no persona's file, too few goldens, or, which may
\* be so with any mutation, nothing that would change, or no persona any more.
Refuse ==
  /\ pc = "next" /\ todo # <<>> /\ mode # "advise"
  /\ \/ Journals("refused") /\ Done /\ UNCHANGED <<mode, kept, pc, test>>
     \/ JournalThrows /\ Exit
  /\ UNCHANGED <<runs, disk, git, others, orphans>>

\* What applyMutation can do to a persona's file.
Supported(shape) ==
  \/ shape.field \in {"system_prompt", "skills"} /\ shape.action \in {"append", "replace", "remove"}
  \/ shape.field = "tools" /\ shape.action \in {"append", "remove"}
  \/ shape.field = "model" /\ shape.action # "investigate"

\* A field is replaced; what a removal takes out of it depends on the text,
\* and here it is all it can be.
Overwrites(shape) == shape.field = "model" \/ shape.action \in {"replace", "remove"}

\* The user edits the prompt.
Field(change) == IF change \in Edit THEN "system_prompt" ELSE change.shape.field

\* applyMutation.
Applied(file) ==
  {Present} \cup {c \in file : Overwrites(Present.shape) => Field(c) # Present.shape.field}

\* A mutant: one snapshot for all mutations of a run.
SnapshotOfRun ==
  IF kept # <<>> /\ Last(kept).shape.target = File THEN before ELSE disk[File]

\* The snapshot of the file.
Snapshot == disk[File]

\* The mutation is written, and the replays begin.
Try ==
  /\ pc = "next" /\ todo # <<>> /\ mode # "advise"
  /\ File \in Files /\ Supported(Present.shape) /\ Covered(File)
  /\ pc' = "replaying"
  /\ before' = Snapshot
  /\ disk' = [disk EXCEPT ![File] = Applied(disk[File])]
  /\ untested' = SelectRatchetGoldens(File) /\ tested' = {}
  /\ UNCHANGED <<run, git, journal, others, orphans>>

-----------------------------------------------------------------------------
(* The replays.                                                            *)

\* The checks a replay must not fail; an unfinished step is not among them.
RequiredDeterministicFailures(t) == FailedChecks(t) \ {"all_steps_executed"}

CostOk(golden, t) == golden.cost = 0 \/ t.cost <= golden.cost * Multiplier

\* judgeRegression: the golden session has no scores, or the replay is judged
\* as well as it, nearly, or worse.
Judgement == {"unscored", "within", "worse"}
JudgeOk(judgement) == judgement = "within" \/ (judgement = "unscored" /\ ~RequireScores)

Passes(golden, t, judgement) ==
  RequiredDeterministicFailures(t) = {} /\ CostOk(golden, t) /\ JudgeOk(judgement)

\* The replay command runs the goal of the golden session with its chain.
Replayable(golden) == golden.loads /\ golden.goal

\* defaultReplayRunner: that command in a process of its own, and the trace of
\* the session it reports.
Replay(golden) == {t \in Replays : Replayable(golden) /\ t.loads}

Replayed(s) ==
  /\ pc = "replaying" /\ s \in untested
  /\ \E t \in Replay(Trace[s]), judgement \in Judgement : Passes(Trace[s], t, judgement)
  /\ untested' = untested \ {s} /\ tested' = tested \cup {s}
  /\ UNCHANGED <<run, pc, before, files, others, orphans>>

\* A mutant: a mutation that fails is left in its file.
RestoredNot == disk

\* The file is what it was, whoever has changed it meanwhile.
Restored == [disk EXCEPT ![File] = before]

\* The catch of verifyMutation.
Reject ==
  /\ pc = "replaying" /\ disk' = Restored
  /\ \/ /\ Journals("rejected") /\ Done /\ pc' = "next" /\ untested' = {} /\ tested' = {}
        /\ UNCHANGED <<mode, kept, before>>
     \/ JournalThrows /\ Exit
  /\ UNCHANGED <<runs, git, others, orphans>>

\* The replay of a golden regresses.
Regresses(s) ==
  /\ s \in untested
  /\ \E t \in Replay(Trace[s]), judgement \in Judgement : ~Passes(Trace[s], t, judgement)
  /\ Reject

\* A replay cannot be run, its trace not loaded, or the judge does not answer;
\* or all have passed and the entry of the acceptance was refused.
Fails == Reject

\* What a passed mutation leaves on the disk.
Kept == IF mode = "try" THEN Restored ELSE disk

\* All goldens have passed; a refused entry is a rejection.
Accept ==
  /\ pc = "replaying" /\ untested = {} /\ pc' = "next" /\ Done
  /\ disk' = Kept /\ tested' = {}
  /\ Journals(IF mode = "try" THEN "dry_run" ELSE "accepted")
  /\ kept' = IF mode = "try" THEN kept ELSE Append(kept, Present)
  /\ UNCHANGED <<mode, runs, before, untested, git, others, orphans>>

-----------------------------------------------------------------------------
\* commitAcceptedMutations, one after the other.  A commit takes the file
\* that is named as it is then, and fails when there is nothing in it.
Finish ==
  /\ pc = "next" /\ todo = <<>>
  /\ IF kept = <<>> THEN Exit ELSE pc' = "committing" /\ UNCHANGED <<mode, todo, kept, test>>
  /\ UNCHANGED <<runs, files, others, orphans>>

Commits(f) == f \in Files /\ git[f] # disk[f]

Commit ==
  /\ pc = "committing" /\ kept # <<>>
  /\ LET f == Head(kept).shape.named IN
     /\ git' = IF Commits(f) THEN [git EXCEPT ![f] = disk[f]] ELSE git
     /\ IF Commits(f) /\ Len(kept) > 1
        THEN kept' = Tail(kept) /\ UNCHANGED <<mode, todo, pc, test>>
        ELSE Exit
  /\ UNCHANGED <<runs, disk, journal, others, orphans>>

\* The process is killed, or a model does not answer; nobody restores the file.
Killed ==
  /\ pc # "idle" /\ Exit
  /\ orphans' = IF pc = "replaying" THEN orphans \cup {Present} ELSE orphans
  /\ UNCHANGED <<runs, files, others>>

UserEdits(f) ==
  /\ edits < MaxEdits /\ edits' = edits + 1
  /\ disk' = [disk EXCEPT ![f] = @ \cup {[edit |-> edits']}]
  /\ UNCHANGED <<run, pc, test, git, journal, registry, promoted, orphans>>

Next ==
  \/ Propose \/ Suggest \/ Refuse \/ Try \/ Fails \/ Accept \/ Finish \/ Commit \/ Killed
  \/ \E s \in Sessions : Replayed(s) \/ Regresses(s) \/ GoldenAdd(s) \/ GoldenGenerate(s)
  \/ \E f \in Files : UserEdits(f)

Spec == Init /\ [][Next]_vars

-----------------------------------------------------------------------------
Accepted(m) == \E e \in journal : e.mutation = m

\* The goldens that were replayed are enough and fit to be goldens.
Ratcheted(m) ==
  \E e \in journal :
    /\ e.mutation = m
    /\ Cardinality(e.tested) >= MinCoverage
    /\ \A s \in e.tested : Fit(Trace[s])

UnderTest(m) == pc = "replaying" /\ m = Present

\* However replays, the journal, the registry and the user interfere, what is
\* in a persona's file, and what is committed, is journalled as accepted with
\* as many replayed goldens as are required, each of them a session that
\* called a model in a chain, except what is under test and what a kill has
\* left there.
FilesAreVerified ==
  \A f \in Files : \A m \in (disk[f] \cup git[f]) \ Edit :
    Ratcheted(m) \/ UnderTest(m) \/ m \in orphans

\* What a file holds when the test of a mutation fails.
Held(f) == IF pc = "replaying" /\ f = File THEN before ELSE disk[f]

\* An accepted change is lost to a later one that overwrites it, and then
\* only if that is accepted too, or was under test in a run that was killed;
\* neither a rejection nor a trial nor a refused entry takes it out.
AcceptedStays ==
  [][\A f \in Files : \A m \in Held(f) \ Edit : Accepted(m) =>
       \/ m \in Held(f)'
       \/ /\ pc = "replaying" /\ f = File /\ Overwrites(Present.shape)
          /\ Present \in orphans' \/ \E e \in journal' : e.mutation = Present]_vars

\* docs/goals/goal-2-ralph-ratchet-and-judge.md:185: applied mutations get a
\* git commit.
AppliedAreCommitted ==
  pc = "committing" => Commits(Head(kept).shape.named)
=============================================================================
