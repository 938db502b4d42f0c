---------------------------- MODULE TeamExecution ----------------------------
(***************************************************************************)
(* A step of parallel teams, engine/team-execution.ts and what it calls:   *)
(* each team has its lead brief the workers, runs them under two limiters  *)
(* one inside the other, merges their worktrees, has the lead review them  *)
(* and runs again those that need rework; a synthesis ends the step.       *)
(*                                                                         *)
(* An action is the code between two awaits that leave the thread.  An     *)
(* agent's work is its outcome: an exception, or a result, which costs one *)
(* unit.  Emitting an event is not an await that matters here; spawning an *)
(* agent is (it posts to the dashboard first), and so is a call of git.    *)
(***************************************************************************)
EXTENDS Limiter, SequencesExt

CONSTANTS
  Teams,         \* the teams of step.parallel
  Members,       \* [Teams -> Seq(workers)]: teamConfig.members
  Stranger,      \* a name in a spawn decision that no member has
  StrictTeams,   \* teams whose workers need a SPAWN_DECISION
  SessionMax,    \* max_concurrent_agents
  TeamMax,       \* max_concurrent_per_team
  ReadOnlySets,  \* which teams may be the review-only ones
  MaxHeals,      \* further attempts of delegateWithHealing
  MaxRetries,    \* step.max_worker_retries
  Verdicts,      \* what a review may say of a worker
  CanStop,       \* the operator may send !stop
  SessionLimit, AgentLimit

B == INSTANCE Budget

Workers == UNION {ToSet(Members[t]) : t \in Teams}
Main == "session"
TeamOf(w) == CHOOSE t \in Teams : w \in ToSet(Members[t])

AllVerdicts == {"PASS", "REWORK", "FIX", "SENIOR", "BARE"}

ASSUME TeamAssumption ==
  /\ IsFiniteSet(Teams) /\ Main \notin Teams /\ Teams \cap Workers = {}
  /\ \A t, u \in Teams : t # u => ToSet(Members[t]) \cap ToSet(Members[u]) = {}
  /\ \A t \in Teams : Members[t] \in Seq(Workers) /\ IsInjective(Members[t])
  /\ Stranger \notin Workers
  /\ SessionMax \in Nat \ {0} /\ TeamMax \in Nat \ {0}
  /\ MaxHeals \in Nat /\ MaxRetries \in Nat
  /\ Verdicts \subseteq AllVerdicts
  /\ ReadOnlySets \subseteq SUBSET Teams
  /\ CanStop \in BOOLEAN
  /\ SessionLimit \in Nat \ {0} /\ AgentLimit \in Nat

VARIABLES
  git,       \* the working directory is a git repository
  readOnly,  \* the teams that only review
  stopped,   \* status error and the abort signal, which copies share
  phase,     \* where runParallelStep stands
  place,     \* where each team's runTeamStep stands
  roster,    \* workerEntries of each team, in order
  at,        \* where each worker's first run stands
  heals,     \* attempts of delegateWithHealing after the first
  trees,     \* worktrees on disk, of workers and of teams
  results,   \* workers whose result is in workerResults
  verdict,   \* the grade and advice of each review, "none" without one
  scope,     \* the workers the current review or retry cycle is about
  todo,      \* those of the cycle not yet taken up
  cycle,     \* attempt: retry cycles begun
  grade,     \* the grade of a team's result
  tracked,   \* agentActivity
  cost,      \* totalCost of the session and of the copies
  sessionLim, teamLim   \* the limiters

teamVars == <<place, roster, results, verdict, scope, todo, cycle, grade>>
workVars == <<at, heals, sessionLim, teamLim>>
setting == <<git, readOnly>>
vars == <<setting, stopped, phase, teamVars, workVars, trees, tracked, cost>>

-----------------------------------------------------------------------------
\* runParallelStep gives each team a worktree and a copy of the session;
\* executeWorkers gives each worker a worktree.
TeamTrees == git /\ Cardinality(Teams) > 1 /\ readOnly = {}
UsesTrees(t) == git /\ t \notin readOnly /\ Len(roster[t]) > 1

\* The session object a team works on.
Purse(t) == IF TeamTrees THEN t ELSE Main

\* Of n costs of one unit, checked and added one after the other, how many
\* are added before one is refused.
Payable(total, n) ==
  CHOOSE m \in 0 .. n : /\ \A k \in 0 .. m - 1 : ~B!Refuses(total + k, 1)
                        /\ m = n \/ B!Refuses(total + m, 1)

Settled(w) == at[w] \in {"returned", "threw"}

\* What a team reports when its step throws, wherever that happens: its lead
\* is neither marked done nor untracked.
Throw(t) == place' = [place EXCEPT ![t] = "threw"]

\* The SPAWN_DECISION blocks that ask for a worker, as parsed from a lead's
\* output: whom, and what is wrong with the rest of the block.
Flaws == {"none", "incomplete", "unsafe", "tool"}
Decisions(t) ==
  UNION {[1 .. n -> [worker : ToSet(Members[t]) \cup {Stranger}, flaw : Flaws]]
          : n \in 0 .. Len(Members[t])}

\* Every field is there, no path is unsafe or covers a forbidden one, and no
\* tool is one the worker does not have.
ValidForExecution(d) == d.flaw \notin {"incomplete", "unsafe", "tool"}

\* What makes executeWorkers throw: no decision at all, one for an unknown
\* worker, a second one for the same, one that does not validate.
Rejected(t, ds) ==
  \/ ds = <<>>
  \/ \E i \in DOMAIN ds : \/ ds[i].worker \notin ToSet(Members[t])
                          \/ ~ValidForExecution(ds[i])
                          \/ \E j \in 1 .. i - 1 : ds[j].worker = ds[i].worker
Authorized(ds) == [i \in DOMAIN ds |-> ds[i].worker]

\* Mutant: workers that failed are not reviewed.
FailedNamesNone(t) == {}

\* The failed workers, named as executeWorkers names them: by their index
\* among the members, which is their index in the roster.
FailedNames(t) ==
  {Members[t][i] : i \in {j \in DOMAIN roster[t] : at[roster[t][j]] = "threw"}}

\* Mutant: only the worktrees of workers that returned are removed.
MergedAwayReturned(t) == {w \in ToSet(roster[t]) : at[w] = "returned"}

\* mergeWorkerWorktrees leaves none of the team's worktrees behind, whether
\* the branch had commits, merged or not, and whether its worker failed.
MergedAway(t) == ToSet(roster[t])

NeedsWork(t, v) == {w \in ToSet(Members[t]) : v[w] \notin {"none", "PASS"}}

-----------------------------------------------------------------------------
Init ==
  /\ git \in BOOLEAN /\ readOnly \in ReadOnlySets
  /\ stopped = FALSE /\ phase = "teams"
  /\ place = [t \in Teams |-> IF TeamTrees THEN "forked" ELSE "ready"]
  /\ roster = [t \in Teams |-> <<>>]
  /\ at = [w \in Workers |-> "idle"] /\ heals = [w \in Workers |-> 0]
  /\ trees = {} /\ results = {} /\ tracked = {}
  /\ verdict = [w \in Workers |-> "none"]
  /\ scope = [t \in Teams |-> {}] /\ todo = [t \in Teams |-> <<>>]
  /\ cycle = [t \in Teams |-> 0] /\ grade = [t \in Teams |-> "none"]
  /\ cost = [p \in Teams \cup {Main} |-> 0]
  /\ sessionLim = NewLimiter /\ teamLim = [t \in Teams |-> NewLimiter]

\* runParallelStep: a worktree for the team's copy, which git may refuse.
Fork(t) ==
  /\ place[t] = "forked"
  /\ \/ trees' = trees \cup {t} /\ place' = [place EXCEPT ![t] = "ready"]
     \/ UNCHANGED trees /\ Throw(t)
  /\ UNCHANGED <<setting, stopped, phase, roster, results, verdict, scope, todo, cycle, grade,
                 workVars, tracked, cost>>

\* runTeamStep up to the await in prepareTeamStep: the last look at the stop
\* before the lead is at work.
StartTeam(t) ==
  /\ place[t] = "ready"
  /\ IF stopped THEN Throw(t) /\ UNCHANGED tracked
                ELSE /\ place' = [place EXCEPT ![t] = "preparing"]
                     /\ tracked' = tracked \cup {t}
  /\ UNCHANGED <<setting, stopped, phase, roster, results, verdict, scope, todo, cycle, grade,
                 workVars, trees, cost>>

LeadBegins(t) ==
  /\ place[t] = "preparing"
  /\ place' = [place EXCEPT ![t] = "leading"]
  /\ UNCHANGED <<setting, stopped, phase, roster, results, verdict, scope, todo, cycle, grade,
                 workVars, trees, tracked, cost>>

\* The roster executeWorkers draws up: in strict mode those the lead has
\* authorized, in the order of the blocks.
DrawUpRoster(t) ==
  IF t \in StrictTeams
    THEN \E ds \in Decisions(t) :
           IF Rejected(t, ds) THEN Throw(t) /\ UNCHANGED roster
             ELSE /\ roster' = [roster EXCEPT ![t] = Authorized(ds)]
                  /\ place' = [place EXCEPT ![t] = "briefed"]
    ELSE /\ roster' = [roster EXCEPT ![t] = Members[t]]
         /\ place' = [place EXCEPT ![t] = "briefed"]

\* delegateToLead from the adapter's answer on, the second look at the stop,
\* and the roster.  A team without members stands for lead-only steps too.
LeadReturns(t) ==
  LET p == Purse(t) IN
  /\ place[t] = "leading"
  /\ \/ Throw(t) /\ UNCHANGED <<cost, tracked, roster, grade>>
     \/ /\ B!Refuses(cost[p], 1)
        /\ Throw(t) /\ UNCHANGED <<cost, tracked, roster, grade>>
     \/ /\ ~B!Refuses(cost[p], 1)
        /\ cost' = [cost EXCEPT ![p] = @ + 1]
        /\ \/ /\ tracked' = tracked \ {t} /\ UNCHANGED roster
              /\ IF stopped THEN Throw(t) /\ UNCHANGED grade
                 ELSE /\ place' = [place EXCEPT ![t] = "returned"]
                      /\ \E g \in {"FAILED"} \cup (IF Members[t] = <<>> THEN {"VERIFIED"} ELSE {}) :
                           grade' = [grade EXCEPT ![t] = g]
           \/ /\ Members[t] # <<>> /\ UNCHANGED <<tracked, grade>>
              /\ IF stopped THEN Throw(t) /\ UNCHANGED roster ELSE DrawUpRoster(t)
  /\ UNCHANGED <<setting, stopped, phase, results, verdict, scope, todo, cycle, workVars, trees>>

\* All workers ask the session's limiter at once, in the roster's order.
SpawnWorkers(t) ==
  /\ place[t] = "briefed"
  /\ place' = [place EXCEPT ![t] = "working"]
  /\ at' = [w \in Workers |-> IF w \in ToSet(roster[t]) THEN "session" ELSE at[w]]
  /\ sessionLim' = AcquireAll(sessionLim, SessionMax, roster[t])
  /\ UNCHANGED <<setting, stopped, phase, roster, results, verdict, scope, todo, cycle, grade,
                 heals, teamLim, trees, tracked, cost>>

-----------------------------------------------------------------------------
\* sessionLimiter.run(() => teamLimiter.run(runWorker)): with a slot of the
\* session in hand, a worker asks its team's limiter.
EnterTeam(w) ==
  /\ at[w] = "session" /\ w \notin ToSet(sessionLim.waiting)
  /\ at' = [at EXCEPT ![w] = "team"]
  /\ teamLim' = [teamLim EXCEPT ![TeamOf(w)] = Acquire(@, TeamMax, w)]
  /\ UNCHANGED <<setting, stopped, phase, teamVars, heals, sessionLim, trees, tracked, cost>>

\* Mutant: the outer finally block is missing.
LeaveHoldsSession(w, how) ==
  /\ at' = [at EXCEPT ![w] = how]
  /\ teamLim' = [teamLim EXCEPT ![TeamOf(w)] = Release(@)]
  /\ UNCHANGED sessionLim
  /\ heals' = [heals EXCEPT ![w] = 0]

\* Both finally blocks, the inner one first.
Leave(w, how) ==
  /\ at' = [at EXCEPT ![w] = how]
  /\ teamLim' = [teamLim EXCEPT ![TeamOf(w)] = Release(@)]
  /\ sessionLim' = Release(sessionLim)
  /\ heals' = [heals EXCEPT ![w] = 0]

StartWorker(w) ==
  /\ at[w] = "team" /\ w \notin ToSet(teamLim[TeamOf(w)].waiting)
  /\ IF stopped THEN Leave(w, "threw") /\ UNCHANGED tracked
       ELSE /\ at' = [at EXCEPT ![w] = "preparing"]
            /\ tracked' = tracked \cup {w}
            /\ UNCHANGED <<heals, sessionLim, teamLim>>
  /\ UNCHANGED <<setting, stopped, phase, teamVars, trees, cost>>

\* The worktree and the post of agentSpawn are awaited before the agent
\* works.  createWorktree is outside the try that would untrack the worker.
WorkerBegins(w) ==
  /\ at[w] = "preparing"
  /\ \/ /\ at' = [at EXCEPT ![w] = "working"]
        /\ trees' = IF UsesTrees(TeamOf(w)) THEN trees \cup {w} ELSE trees
        /\ UNCHANGED <<heals, sessionLim, teamLim>>
     \/ UsesTrees(TeamOf(w)) /\ Leave(w, "threw") /\ UNCHANGED trees
  /\ UNCHANGED <<setting, stopped, phase, teamVars, tracked, cost>>

\* Mutant: the abort signal is not looked at between two attempts.
HealRegardless(w) ==
  /\ at[w] = "working" /\ heals[w] < MaxHeals
  /\ heals' = [heals EXCEPT ![w] = @ + 1]
  /\ UNCHANGED <<setting, stopped, phase, teamVars, at, sessionLim, teamLim, trees, tracked, cost>>

\* delegateWithHealing: an attempt failed and another one is made, with
\* another model, more context or more thinking, unless the run is aborted.
Heal(w) ==
  /\ at[w] = "working" /\ heals[w] < MaxHeals /\ ~stopped
  /\ heals' = [heals EXCEPT ![w] = @ + 1]
  /\ UNCHANGED <<setting, stopped, phase, teamVars, at, sessionLim, teamLim, trees, tracked, cost>>

\* runWorker's try ends, with a result of whatever grade, or its catch.
WorkerEnds(w) ==
  /\ at[w] = "working"
  /\ \E how \in {"returned", "threw"} : Leave(w, how)
  /\ tracked' = tracked \ {w}
  /\ UNCHANGED <<setting, stopped, phase, teamVars, trees, cost>>

-----------------------------------------------------------------------------
\* mergeWorkerWorktrees, the third look at the stop, accumulateWorkerCosts,
\* and the call of leadReviewWorkers.
Settle(t) ==
  LET mine == ToSet(roster[t])
      done == {w \in mine : at[w] = "returned"}
      paid == Payable(cost[Purse(t)], Cardinality(done))
  IN /\ place[t] = "working" /\ \A w \in mine : Settled(w)
     /\ trees' = trees \ MergedAway(t)
     /\ IF stopped THEN Throw(t) /\ UNCHANGED <<cost, results, scope>>
        ELSE /\ cost' = [cost EXCEPT ![Purse(t)] = @ + paid]
             /\ IF paid < Cardinality(done) THEN Throw(t) /\ UNCHANGED <<results, scope>>
                ELSE /\ results' = results \cup done
                     /\ scope' = [scope EXCEPT ![t] = done]
                     /\ place' = [place EXCEPT ![t] = "reviewing"]
     /\ UNCHANGED <<setting, stopped, phase, roster, verdict, todo, cycle, grade, workVars, tracked>>

\* The head of the retry loop: another cycle if some review asks for work and
\* one is left, else buildTeamResult and the end of runTeamStep.
NextCycle(t, v) ==
  LET needs == NeedsWork(t, v) IN
  IF needs # {} /\ cycle[t] < MaxRetries
    THEN /\ cycle' = [cycle EXCEPT ![t] = @ + 1]
         /\ todo' = [todo EXCEPT ![t] = SelectSeq(Members[t], LAMBDA w : w \in needs)]
         /\ scope' = [scope EXCEPT ![t] = needs]
         /\ place' = [place EXCEPT ![t] = "retrying"]
         /\ UNCHANGED <<grade, tracked>>
    ELSE /\ grade' = [grade EXCEPT ![t] = IF needs = {} THEN "VERIFIED" ELSE "FAILED"]
         /\ tracked' = tracked \ {t}
         /\ place' = [place EXCEPT ![t] = "returned"]
         /\ UNCHANGED <<cycle, todo, scope>>

\* leadReviewWorkers answers; its cost is added and not checked.  After the
\* first review the failed workers get a review that asks for a retry.
ReviewReturns(t) ==
  /\ place[t] = "reviewing"
  /\ \/ Throw(t) /\ UNCHANGED <<cost, verdict, todo, scope, cycle, grade, tracked>>
     \/ /\ cost' = [cost EXCEPT ![Purse(t)] = @ + 1]
        /\ \E said \in [scope[t] -> Verdicts] :
             LET failed == IF cycle[t] = 0 THEN FailedNames(t) \ scope[t] ELSE {}
             IN verdict' = [w \in Workers |-> IF w \in scope[t] THEN said[w]
                                              ELSE IF w \in failed THEN "REWORK" ELSE verdict[w]]
        /\ NextCycle(t, verdict')
  /\ UNCHANGED <<setting, stopped, phase, roster, results, workVars, trees>>

\* One review of a cycle: a fix of the lead's own passes at once, but not in a
\* team that only reviews, where the rest of the review is followed; a senior
\* whose domains nobody has passes too; a review without advice is skipped;
\* the others start an agent.
TakeUp(t) ==
  LET w == Head(todo[t]) IN
  /\ place[t] = "retrying" /\ todo[t] # <<>>
  /\ \/ /\ verdict[w] = "FIX" /\ t \in readOnly /\ UNCHANGED <<place, todo>>
        /\ \E v \in {"REWORK", "SENIOR", "BARE"} : verdict' = [verdict EXCEPT ![w] = v]
     \/ /\ \/ verdict[w] = "FIX" /\ t \notin readOnly
           \/ verdict[w] = "SENIOR" /\ ~stopped
        /\ verdict' = [verdict EXCEPT ![w] = "PASS"]
        /\ todo' = [todo EXCEPT ![t] = Tail(@)] /\ UNCHANGED place
     \/ /\ verdict[w] = "BARE" /\ UNCHANGED <<verdict, place>>
        /\ todo' = [todo EXCEPT ![t] = Tail(@)]
     \/ /\ verdict[w] \in {"REWORK", "SENIOR"} /\ UNCHANGED <<verdict, todo>>
        /\ IF stopped THEN Throw(t) ELSE place' = [place EXCEPT ![t] = "reworking"]
  /\ UNCHANGED <<setting, stopped, phase, roster, results, scope, cycle, grade, workVars, trees,
                 tracked, cost>>

\* retryWorker or spawnSenior from the adapter's answer on, into a result that
\* is checked and paid for, or an exception that ends the team.
ReworkReturns(t, kind, after, kept) ==
  LET w == Head(todo[t])
      p == Purse(t)
  IN /\ place[t] = "reworking" /\ verdict[w] = kind
     /\ \/ Throw(t) /\ UNCHANGED <<cost, results, verdict, todo>>
        \/ B!Refuses(cost[p], 1) /\ Throw(t) /\ UNCHANGED <<cost, results, verdict, todo>>
        \/ /\ ~B!Refuses(cost[p], 1)
           /\ cost' = [cost EXCEPT ![p] = @ + 1]
           /\ results' = results \cup kept
           /\ verdict' = [verdict EXCEPT ![w] = after]
           /\ todo' = [todo EXCEPT ![t] = Tail(@)]
           /\ place' = [place EXCEPT ![t] = "retrying"]
     /\ UNCHANGED <<setting, stopped, phase, roster, scope, cycle, grade, workVars, trees, tracked>>

\* A retry's result takes the place of the worker's, or is added.
RetryReturns(t) == ReworkReturns(t, "REWORK", "REWORK", {Head(todo[t])})

\* A senior's takes the place of the worker's, if there is one, and passes
\* without a review.
SeniorReturns(t) == ReworkReturns(t, "SENIOR", "PASS", {})

\* The end of a cycle: those who still need work and have a result are
\* reviewed again, retried or not; with none the loop goes on by itself.
EndCycle(t) ==
  LET again == {w \in scope[t] \cap results : verdict[w] # "PASS"} IN
  /\ place[t] = "retrying" /\ todo[t] = <<>>
  /\ IF again = {}
       THEN NextCycle(t, verdict)
       ELSE /\ IF stopped THEN Throw(t) /\ UNCHANGED scope
               ELSE /\ place' = [place EXCEPT ![t] = "reviewing"]
                    /\ scope' = [scope EXCEPT ![t] = again]
            /\ UNCHANGED <<cycle, todo, grade, tracked>>
  /\ UNCHANGED <<setting, stopped, phase, roster, results, verdict, workVars, trees, cost>>

-----------------------------------------------------------------------------
\* runParallelStep when all teams have settled: their worktrees are merged and
\* removed, the copies' costs added up, and the synthesis prepared.  Nobody
\* looks at the stop.
Join ==
  /\ phase = "teams" /\ \A t \in Teams : place[t] \in {"returned", "threw"}
  /\ phase' = "joined"
  /\ trees' = trees \ Teams
  /\ cost' = IF TeamTrees
               THEN [cost EXCEPT ![Main] = @ + FoldFunctionOnSet(+, 0, cost, Teams)]
               ELSE cost
  /\ UNCHANGED <<setting, stopped, teamVars, workVars, tracked>>

SynthesisBegins ==
  /\ phase = "joined" /\ phase' = "synthesis"
  /\ UNCHANGED <<setting, stopped, teamVars, workVars, trees, tracked, cost>>

SynthesisReturns ==
  /\ phase = "synthesis"
  /\ \/ phase' = "threw" /\ UNCHANGED cost
     \/ /\ ~B!Refuses(cost[Main], 1)
        /\ phase' = "done" /\ cost' = [cost EXCEPT ![Main] = @ + 1]
  /\ UNCHANGED <<setting, stopped, teamVars, workVars, trees, tracked>>

\* Orchestrator's !stop: status error and abort().
Stop ==
  /\ CanStop /\ ~stopped /\ phase \notin {"done", "threw"}
  /\ stopped' = TRUE
  /\ UNCHANGED <<setting, phase, teamVars, workVars, trees, tracked, cost>>

TeamStep(t) ==
  Fork(t) \/ StartTeam(t) \/ LeadBegins(t) \/ LeadReturns(t) \/ SpawnWorkers(t)
  \/ Settle(t) \/ ReviewReturns(t) \/ TakeUp(t) \/ RetryReturns(t) \/ SeniorReturns(t)
  \/ EndCycle(t)
WorkerStep(w) ==
  EnterTeam(w) \/ StartWorker(w) \/ WorkerBegins(w) \/ Heal(w) \/ WorkerEnds(w)
Gather == Join \/ SynthesisBegins \/ SynthesisReturns

Next == (\E t \in Teams : TeamStep(t)) \/ (\E w \in Workers : WorkerStep(w)) \/ Gather \/ Stop

Spec == Init /\ [][Next]_vars

\* Every await is answered: git ends, posts fail in the end, adapters have
\* their timeouts.  The operator owes nothing.
FairSpec ==
  Spec /\ (\A t \in Teams : WF_vars(TeamStep(t)))
       /\ (\A w \in Workers : WF_vars(WorkerStep(w))) /\ WF_vars(Gather)

-----------------------------------------------------------------------------
TypeOK ==
  /\ git \in BOOLEAN /\ readOnly \in ReadOnlySets /\ stopped \in BOOLEAN
  /\ phase \in {"teams", "joined", "synthesis", "done", "threw"}
  /\ place \in [Teams -> {"forked", "ready", "preparing", "leading", "briefed", "working",
                          "reviewing", "retrying", "reworking", "returned", "threw"}]
  /\ \A t \in Teams : /\ ToSet(roster[t]) \subseteq ToSet(Members[t])
                      /\ ToSet(todo[t]) \subseteq scope[t]
                      /\ scope[t] \subseteq ToSet(Members[t])
  /\ at \in [Workers -> {"idle", "session", "team", "preparing", "working", "returned", "threw"}]
  /\ heals \in [Workers -> 0 .. MaxHeals] /\ cycle \in [Teams -> 0 .. MaxRetries]
  /\ results \subseteq Workers
  /\ verdict \in [Workers -> AllVerdicts \cup {"none"}]
  /\ grade \in [Teams -> {"none", "VERIFIED", "FAILED"}]
  /\ tracked \subseteq Teams \cup Workers /\ trees \subseteq Teams \cup Workers
  /\ cost \in [Teams \cup {Main} -> Nat]

\* The workers in their first run; the teams that have an agent of their own
\* at work, a lead, a review, a retry or a senior; and all a team's agents.
Busy == {w \in Workers : at[w] \in {"preparing", "working"}}
Directed == {t \in Teams : place[t] \in {"preparing", "leading", "reviewing", "reworking"}}
AgentsOf(t) == {w \in Busy : TeamOf(w) = t} \cup (Directed \cap {t})
Agents == Busy \cup Directed

\* However the two limiters are nested, and in whatever order workers of
\* several teams wait, start, fail and hand their slots over: a team has no
\* more agents at work than max_concurrent_per_team, those that no limiter
\* counts included, and the session no more first runs than
\* max_concurrent_agents.  Leads, reviews, retries and seniors pass neither
\* limiter; what they add to the session is less than one for each team.
LimitsHeld ==
  /\ \A t \in Teams : Cardinality(AgentsOf(t)) <= TeamMax
  /\ Cardinality(Busy) <= SessionMax
  /\ Agents # {} => Cardinality(Agents) < SessionMax + Cardinality(Teams)

\* "Max agents running at once across all teams" (docs/configuration.md:207):
\* the leads, reviews, retries and seniors of other teams come on top of the
\* workers that hold the session's slots.
AgentsWithinSession == Cardinality(Agents) <= SessionMax

\* Until the teams are joined, what they spend from a session, or from a copy
\* of it, goes over the limit by the reviews alone, the one cost nobody
\* checks: as many as its teams can have.
PurseBounded ==
  LET over == MaxRetries + 1 IN
  IF TeamTrees THEN \A t \in Teams : cost[t] < SessionLimit + over
               ELSE cost[Main] < SessionLimit + over * Cardinality(Teams)

\* And when the copies are added up the session has what they spent at most,
\* each a limit of its own: nobody looks at the sum, and the synthesis is only
\* paid for if it is within the limit.
OverrunBounded ==
  /\ PurseBounded
  /\ TeamTrees => cost[Main] <= Cardinality(Teams) * (SessionLimit + MaxRetries)

\* "Hard limit per session" (docs/configuration.md:194): two copies that
\* stay below it make a session that is beyond it, as reviews do.
SessionLimitIsHard == cost[Main] < SessionLimit

\* A failed worker is named after its index among the members: the names are
\* right if the roster follows the members' order.
InOrder(t) == \A i \in DOMAIN roster[t] : roster[t][i] = Members[t][i]

\* A verified result of a team whose roster follows its members is one to
\* which every worker on the roster has contributed, through its first run, a
\* retry, or a senior in its place, however many have failed in between.
VerifiedCovers ==
  \A t \in Teams : grade[t] = "VERIFIED" /\ InOrder(t) => ToSet(roster[t]) \subseteq results

\* What the failed reviews are for: only workers the lead has authorized are
\* run again.  The prompt of strict mode asks for decisions "only [for] the
\* workers that are needed" (team-execution.ts:263).
RetriesAreAuthorized ==
  \A t \in Teams : place[t] = "reworking" => Head(todo[t]) \in ToSet(roster[t])

\* A worktree exists while somebody works in it and is gone when its team, or
\* the step, has moved on, whoever has failed, thrown or been stopped.
TreesMatchWork ==
  /\ \A t \in Teams :
       /\ place[t] \in {"leading", "working", "reviewing", "reworking"} /\ TeamTrees => t \in trees
       /\ place[t] # "working" => trees \cap ToSet(roster[t]) = {}
  /\ \A w \in Workers : at[w] = "working" /\ UsesTrees(TeamOf(w)) => w \in trees
  /\ phase # "teams" => trees = {}

\* Every agent that has been let through to its work.
LetThrough ==
  {<<"lead", t>> : t \in {u \in Teams : place[u] \in {"preparing", "leading"}}}
  \cup {<<"worker", w, heals[w]>> : w \in Busy}
  \cup {<<"review", t>> : t \in {u \in Teams : place[u] = "reviewing"}}
  \cup {<<"rework", t>> : t \in {u \in Teams : place[u] = "reworking"}}

\* After a stop no lead, worker, further attempt, review, retry or senior is
\* let through; only those whose preparation had begun get to work.  (The
\* synthesis does, whatever happens.)
NothingBeginsAfterStop == [][stopped => LetThrough' \subseteq LetThrough]_vars

\* Workers that wait for one limiter while they hold a slot of the other do
\* not block each other for ever: the step ends.
StepEnds == <>(phase \in {"done", "threw"})
=============================================================================
