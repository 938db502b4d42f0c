-------------------------- MODULE TeamExecutionProofs --------------------------
(***************************************************************************)
(* A step of parallel teams, for any teams, members, limits, numbers of    *)
(* attempts and verdicts: what a stop lets through, the worktrees, and how *)
(* many are at work at a time.                                             *)
(***************************************************************************)
EXTENDS TeamExecution, FiniteSetTheorems, TLAPS

PlaceState == {"forked", "ready", "preparing", "leading", "briefed", "working",
               "reviewing", "retrying", "reworking", "returned", "threw"}
AtState == {"idle", "session", "team", "preparing", "working", "returned", "threw"}

Shape ==
  /\ place \in [Teams -> PlaceState] /\ at \in [Workers -> AtState]
  /\ heals \in [Workers -> Nat] /\ roster = [t \in Teams |-> roster[t]]

-----------------------------------------------------------------------------
(* Lemmas on the teams and on single steps.                                *)

LEMMA MembersAreWorkers ==
  \A t \in Teams : ToSet(Members[t]) \subseteq Workers
  BY DEF Workers

LEMMA TeamOfMember ==
  /\ \A w \in Workers : TeamOf(w) \in Teams /\ w \in ToSet(Members[TeamOf(w)])
  /\ \A t \in Teams : \A w \in ToSet(Members[t]) : TeamOf(w) = t
<1>1. ASSUME NEW w \in Workers
      PROVE  TeamOf(w) \in Teams /\ w \in ToSet(Members[TeamOf(w)])
  <2>1. \E t \in Teams : w \in ToSet(Members[t])
    BY DEF Workers
  <2> QED
    BY <2>1 DEF TeamOf
<1>2. ASSUME NEW t \in Teams, NEW w \in ToSet(Members[t])
      PROVE  TeamOf(w) = t
  <2>1. w \in Workers
    BY MembersAreWorkers
  <2> QED
    BY <1>1, <2>1, TeamAssumption
<1> QED
  BY <1>1, <1>2

\* A team's place after a step of its own; where it may be then.
Moves(t, to) ==
  /\ place' \in [Teams -> PlaceState] /\ place'[t] \in to
  /\ \A u \in Teams \ {t} : place'[u] = place[u]

LEMMA ThrowMoves ==
  ASSUME Shape, NEW t \in Teams, Throw(t)
  PROVE  Moves(t, {"threw"})
  BY DEF Shape, Throw, Moves, PlaceState

\* The roster a lead draws up is of the team's own members.
LEMMA RosterIsOfMembers ==
  ASSUME Shape, NEW t \in Teams, DrawUpRoster(t)
  PROVE  /\ Moves(t, {"briefed", "threw"})
         /\ roster' = [u \in Teams |-> roster'[u]]
         /\ \A u \in Teams \ {t} : roster'[u] = roster[u]
         /\ roster'[t] = roster[t] \/ ToSet(roster'[t]) \subseteq ToSet(Members[t])
<1>1. CASE t \in StrictTeams
  <2>1. PICK ds \in Decisions(t) :
          IF Rejected(t, ds) THEN Throw(t) /\ UNCHANGED roster
            ELSE /\ roster' = [roster EXCEPT ![t] = Authorized(ds)]
                 /\ place' = [place EXCEPT ![t] = "briefed"]
    BY <1>1 DEF DrawUpRoster
  <2>2. CASE Rejected(t, ds)
    BY <2>1, <2>2, ThrowMoves DEF Shape, Moves
  <2>3. CASE ~Rejected(t, ds)
    <3>1. \A i \in DOMAIN ds : ds[i].worker \in ToSet(Members[t])
      BY <2>3 DEF Rejected
    <3>2. ToSet(Authorized(ds)) \subseteq ToSet(Members[t])
      <4>1. ASSUME NEW w \in ToSet(Authorized(ds))
            PROVE  w \in ToSet(Members[t])
        <5>1. PICK i \in DOMAIN ds : w = ds[i].worker
          BY <4>1 DEF Authorized, ToSet
        <5> QED
          BY <3>1, <5>1
      <4> QED
        BY <4>1, Zenon
    <3>3. roster'[t] = Authorized(ds)
      BY <2>1, <2>3 DEF Shape
    <3> QED
      BY <2>1, <2>3, <3>2, <3>3 DEF Shape, Moves, PlaceState
  <2> QED
    BY <2>2, <2>3
<1>2. CASE t \notin StrictTeams
  BY <1>2 DEF DrawUpRoster, Shape, Moves, PlaceState
<1> QED
  BY <1>1, <1>2

LEMMA NextCycleMoves ==
  ASSUME Shape, NEW t \in Teams, NEW v, NextCycle(t, v)
  PROVE  Moves(t, {"retrying", "returned"})
  BY DEF NextCycle, Shape, Moves, PlaceState

\* What a worker leaves behind when it gives its slots back.
LEMMA Leaves ==
  ASSUME Shape, NEW w \in Workers, NEW how \in {"returned", "threw"}, Leave(w, how)
  PROVE  /\ at' \in [Workers -> AtState] /\ heals' \in [Workers -> Nat]
         /\ at'[w] = how
         /\ \A x \in Workers \ {w} : at'[x] = at[x] /\ heals'[x] = heals[x]
  BY DEF Leave, Shape, AtState

\* The steps of a team: from where to where it goes, and which leave the
\* workers, the worktrees and the rosters alone.
LEMMA TeamMoves ==
  ASSUME Shape, NEW t \in Teams, TeamStep(t)
  PROVE  /\ Shape' /\ UNCHANGED <<stopped, phase, setting, heals>>
         /\ \/ Fork(t) /\ place[t] = "forked" /\ Moves(t, {"ready", "threw"})
            \/ /\ StartTeam(t) /\ place[t] = "ready"
               /\ Moves(t, IF stopped THEN {"threw"} ELSE {"preparing"})
            \/ LeadBegins(t) /\ place[t] = "preparing" /\ Moves(t, {"leading"})
            \/ /\ LeadReturns(t) /\ place[t] = "leading"
               /\ Moves(t, {"threw", "returned", "briefed"})
            \/ SpawnWorkers(t) /\ place[t] = "briefed" /\ Moves(t, {"working"})
            \/ /\ Settle(t) /\ place[t] = "working"
               /\ Moves(t, IF stopped THEN {"threw"} ELSE {"threw", "reviewing"})
            \/ /\ place[t] = "reviewing" /\ Moves(t, {"threw", "retrying", "returned"})
               /\ UNCHANGED <<at, trees, roster>>
            \/ /\ place[t] = "retrying" /\ UNCHANGED <<at, trees, roster>>
               /\ Moves(t, IF stopped THEN {"threw", "retrying", "returned"}
                           ELSE {"threw", "retrying", "reworking", "reviewing", "returned"})
            \/ /\ place[t] = "reworking" /\ Moves(t, {"threw", "retrying"})
               /\ UNCHANGED <<at, trees, roster>>
<1> USE DEF workVars, setting
<1>1. CASE Fork(t)
  BY <1>1, ThrowMoves DEF Fork, Shape, Moves, PlaceState
<1>2. CASE StartTeam(t)
  BY <1>2, ThrowMoves DEF StartTeam, Shape, Moves, PlaceState
<1>3. CASE LeadBegins(t)
  BY <1>3 DEF LeadBegins, Shape, Moves, PlaceState
<1>4. CASE LeadReturns(t)
  <2>1. /\ place[t] = "leading" /\ UNCHANGED <<stopped, phase, setting, at, heals>>
    BY <1>4 DEF LeadReturns
  <2>2. \/ Throw(t) /\ UNCHANGED roster
        \/ UNCHANGED roster /\ place' = [place EXCEPT ![t] = "returned"]
        \/ DrawUpRoster(t)
    BY <1>4 DEF LeadReturns
  <2>3. /\ Moves(t, {"threw", "returned", "briefed"})
        /\ roster' = [u \in Teams |-> roster'[u]]
    <3>1. CASE Throw(t) /\ UNCHANGED roster
      BY <3>1, ThrowMoves DEF Shape, Moves
    <3>2. CASE UNCHANGED roster /\ place' = [place EXCEPT ![t] = "returned"]
      BY <3>2 DEF Shape, Moves, PlaceState
    <3>3. CASE DrawUpRoster(t)
      BY <3>3, RosterIsOfMembers DEF Moves
    <3> QED
      BY <2>2, <3>1, <3>2, <3>3
  <2> QED
    BY <1>4, <2>1, <2>3 DEF Shape, Moves
<1>5. CASE SpawnWorkers(t)
  <2>1. /\ UNCHANGED <<stopped, phase, setting, heals, roster>>
        /\ place[t] = "briefed" /\ Moves(t, {"working"})
    BY <1>5 DEF SpawnWorkers, Shape, Moves, PlaceState
  <2>2. at' \in [Workers -> AtState]
    BY <1>5 DEF SpawnWorkers, Shape, AtState
  <2> QED
    BY <1>5, <2>1, <2>2 DEF Shape, Moves
<1>6. CASE Settle(t)
  <2>1. UNCHANGED <<stopped, phase, setting, at, heals, roster>> /\ place[t] = "working"
    BY <1>6 DEF Settle
  <2>2. Moves(t, IF stopped THEN {"threw"} ELSE {"threw", "reviewing"})
    <3>1. \/ Throw(t)
          \/ ~stopped /\ place' = [place EXCEPT ![t] = "reviewing"]
      BY <1>6 DEF Settle
    <3>2. stopped => Throw(t)
      BY <1>6 DEF Settle
    <3> QED
      BY <3>1, <3>2, ThrowMoves DEF Shape, Moves, PlaceState
  <2> QED
    BY <1>6, <2>1, <2>2 DEF Shape, Moves
<1>7. CASE ReviewReturns(t)
  <2>1. /\ UNCHANGED <<stopped, phase, setting, at, heals, roster, trees>>
        /\ place[t] = "reviewing"
        /\ Throw(t) \/ NextCycle(t, verdict')
    BY <1>7 DEF ReviewReturns
  <2>2. Moves(t, {"threw", "retrying", "returned"})
    BY <2>1, ThrowMoves, NextCycleMoves DEF Moves
  <2> QED
    BY <2>1, <2>2 DEF Shape, Moves
<1>8. CASE TakeUp(t)
  <2>1. /\ UNCHANGED <<stopped, phase, setting, at, heals, roster, trees>>
        /\ place[t] = "retrying"
        /\ \/ UNCHANGED place \/ Throw(t)
           \/ ~stopped /\ place' = [place EXCEPT ![t] = "reworking"]
    BY <1>8 DEF TakeUp
  <2>2. Moves(t, IF stopped THEN {"threw", "retrying", "returned"}
                 ELSE {"threw", "retrying", "reworking", "reviewing", "returned"})
    BY <2>1, ThrowMoves DEF Shape, Moves, PlaceState
  <2> QED
    BY <2>1, <2>2 DEF Shape, Moves
<1>9. ASSUME NEW kind, NEW after, NEW kept, ReworkReturns(t, kind, after, kept)
      PROVE  /\ place[t] = "reworking" /\ Moves(t, {"threw", "retrying"})
             /\ UNCHANGED <<stopped, phase, setting, at, heals, roster, trees>>
  <2>1. /\ UNCHANGED <<stopped, phase, setting, at, heals, roster, trees>>
        /\ place[t] = "reworking"
        /\ Throw(t) \/ place' = [place EXCEPT ![t] = "retrying"]
    BY <1>9 DEF ReworkReturns
  <2> QED
    BY <2>1, ThrowMoves DEF Shape, Moves, PlaceState
<1>10. CASE RetryReturns(t) \/ SeniorReturns(t)
  <2>1. /\ place[t] = "reworking" /\ Moves(t, {"threw", "retrying"})
        /\ UNCHANGED <<stopped, phase, setting, at, heals, roster, trees>>
    BY <1>9, <1>10 DEF RetryReturns, SeniorReturns
  <2> QED
    BY <2>1 DEF Shape, Moves
<1>11. CASE EndCycle(t)
  <2>1. /\ UNCHANGED <<stopped, phase, setting, at, heals, roster, trees>>
        /\ place[t] = "retrying"
        /\ \/ NextCycle(t, verdict) \/ Throw(t)
           \/ ~stopped /\ place' = [place EXCEPT ![t] = "reviewing"]
    BY <1>11 DEF EndCycle
  <2>2. Moves(t, IF stopped THEN {"threw", "retrying", "returned"}
                 ELSE {"threw", "retrying", "reworking", "reviewing", "returned"})
    BY <2>1, ThrowMoves, NextCycleMoves DEF Shape, Moves, PlaceState
  <2> QED
    BY <2>1, <2>2 DEF Shape, Moves
<1> QED
  BY <1>1, <1>2, <1>3, <1>4, <1>5, <1>6, <1>7, <1>8, <1>10, <1>11 DEF TeamStep

\* The steps of a worker leave the teams where they are.
LEMMA WorkerMoves ==
  ASSUME Shape, NEW w \in Workers, WorkerStep(w)
  PROVE  /\ Shape' /\ UNCHANGED <<stopped, phase, setting, teamVars>>
         /\ \A x \in Workers \ {w} : at'[x] = at[x] /\ heals'[x] = heals[x]
         /\ \/ /\ at[w] = "session" /\ at'[w] = "team"
               /\ heals' = heals /\ trees' = trees
            \/ /\ at[w] = "team" /\ trees' = trees
               /\ IF stopped THEN at'[w] = "threw" ELSE at'[w] \in {"preparing", "threw"}
            \/ /\ at[w] = "preparing" /\ at'[w] = "working" /\ heals' = heals
               /\ trees' = IF UsesTrees(TeamOf(w)) THEN trees \cup {w} ELSE trees
            \/ at[w] = "preparing" /\ at'[w] = "threw" /\ trees' = trees
            \/ at[w] = "working" /\ ~stopped /\ at' = at /\ trees' = trees
            \/ at[w] = "working" /\ at'[w] \in {"returned", "threw"} /\ trees' = trees
<1> USE DEF teamVars, setting
<1>1. CASE EnterTeam(w)
  BY <1>1 DEF EnterTeam, Shape, AtState, PlaceState
<1>2. CASE StartWorker(w)
  <2>1. /\ UNCHANGED <<stopped, phase, setting, teamVars, trees>> /\ at[w] = "team"
        /\ IF stopped THEN Leave(w, "threw")
           ELSE at' = [at EXCEPT ![w] = "preparing"] /\ heals' = heals
    BY <1>2 DEF StartWorker
  <2>2. CASE stopped
    BY <2>1, <2>2, Leaves DEF Shape
  <2>3. CASE ~stopped
    BY <2>1, <2>3 DEF Shape, AtState
  <2> QED
    BY <2>2, <2>3
<1>3. CASE WorkerBegins(w)
  <2>1. /\ UNCHANGED <<stopped, phase, setting, teamVars>> /\ at[w] = "preparing"
        /\ \/ /\ at' = [at EXCEPT ![w] = "working"] /\ heals' = heals
              /\ trees' = IF UsesTrees(TeamOf(w)) THEN trees \cup {w} ELSE trees
           \/ Leave(w, "threw") /\ trees' = trees
    BY <1>3 DEF WorkerBegins
  <2>2. CASE at' = [at EXCEPT ![w] = "working"] /\ heals' = heals
             /\ trees' = IF UsesTrees(TeamOf(w)) THEN trees \cup {w} ELSE trees
    BY <2>1, <2>2 DEF Shape, AtState
  <2>3. CASE Leave(w, "threw") /\ trees' = trees
    BY <2>1, <2>3, Leaves DEF Shape
  <2> QED
    BY <2>1, <2>2, <2>3
<1>4. CASE Heal(w)
  <2>1. heals' \in [Workers -> Nat] /\ \A x \in Workers \ {w} : heals'[x] = heals[x]
    BY <1>4 DEF Heal, Shape
  <2> QED
    BY <1>4, <2>1 DEF Heal, Shape
<1>5. CASE WorkerEnds(w)
  <2>1. /\ UNCHANGED <<stopped, phase, setting, teamVars, trees>> /\ at[w] = "working"
        /\ \E how \in {"returned", "threw"} : Leave(w, how)
    BY <1>5 DEF WorkerEnds
  <2> QED
    BY <2>1, Leaves DEF Shape
<1> QED
  BY <1>1, <1>2, <1>3, <1>4, <1>5 DEF WorkerStep

LEMMA InitShape == Init => Shape
  BY DEF Init, Shape, PlaceState, AtState

LEMMA NextShape == Shape /\ [Next]_vars => Shape'
<1> SUFFICES ASSUME Shape, [Next]_vars PROVE Shape'
  OBVIOUS
<1>1. ASSUME UNCHANGED <<teamVars, workVars>> PROVE Shape'
  BY <1>1 DEF teamVars, workVars, Shape
<1>2. CASE Gather \/ Stop \/ UNCHANGED vars
  BY <1>1, <1>2 DEF Gather, Join, SynthesisBegins, SynthesisReturns, Stop, vars
<1> QED
  BY <1>2, TeamMoves, WorkerMoves DEF Next

-----------------------------------------------------------------------------
(* What a stop lets through.                                               *)

\* No agent is at work that was not before, and none makes a further attempt.
NoNewcomer ==
  /\ \A t \in Teams :
       /\ place'[t] \in {"preparing", "leading"} => place[t] \in {"preparing", "leading"}
       /\ place'[t] = "reviewing" => place[t] = "reviewing"
       /\ place'[t] = "reworking" => place[t] = "reworking"
  /\ \A w \in Workers : at'[w] \in {"preparing", "working"} =>
       at[w] \in {"preparing", "working"} /\ heals'[w] = heals[w]

LEMMA NewcomersAreLetThrough == NoNewcomer => LetThrough' \subseteq LetThrough
  BY DEF NoNewcomer, LetThrough, Busy

LEMMA StopHolds ==
  ASSUME Shape, [Next]_vars, stopped
  PROVE  NoNewcomer
<1>1. ASSUME NEW t \in Teams, TeamStep(t)
      PROVE  NoNewcomer
  <2>1. \A w \in Workers : at'[w] \in {"preparing", "working"} => at'[w] = at[w]
    <3>1. CASE SpawnWorkers(t)
      BY <3>1 DEF SpawnWorkers
    <3>2. CASE ~SpawnWorkers(t)
      <4>1. at' = at
        BY <1>1, <3>2, TeamMoves DEF Fork, StartTeam, LeadBegins, LeadReturns, Settle, workVars
      <4> QED
        BY <4>1
    <3> QED
      BY <3>1, <3>2
  <2>2. heals' = heals
    BY <1>1, TeamMoves
  <2>3. \A u \in Teams \ {t} : place'[u] = place[u]
    BY <1>1, TeamMoves DEF Moves
  <2>4. /\ place'[t] \in {"preparing", "leading"} => place[t] \in {"preparing", "leading"}
        /\ place'[t] = "reviewing" => place[t] = "reviewing"
        /\ place'[t] = "reworking" => place[t] = "reworking"
    BY <1>1, TeamMoves DEF Moves
  <2> QED
    BY <2>1, <2>2, <2>3, <2>4 DEF NoNewcomer
<1>2. ASSUME NEW w \in Workers, WorkerStep(w)
      PROVE  NoNewcomer
  <2>1. place' = place
    BY <1>2, WorkerMoves DEF teamVars
  <2>2. \A x \in Workers \ {w} : at'[x] = at[x] /\ heals'[x] = heals[x]
    BY <1>2, WorkerMoves
  <2>3. at'[w] \in {"preparing", "working"} => at[w] = "preparing" /\ heals'[w] = heals[w]
    BY <1>2, WorkerMoves
  <2> QED
    BY <2>1, <2>2, <2>3 DEF NoNewcomer
<1>3. CASE Gather \/ Stop \/ UNCHANGED vars
  <2>1. UNCHANGED <<teamVars, workVars>>
    BY <1>3 DEF Gather, Join, SynthesisBegins, SynthesisReturns, Stop, vars
  <2> QED
    BY <2>1 DEF teamVars, workVars, NoNewcomer
<1> QED
  BY <1>1, <1>2, <1>3 DEF Next

\* Once the operator has stopped the session, runTeamStep, runWorker,
\* delegateWithHealing and the review cycle let no further agent through; the
\* windows are the preparations under way.
THEOREM StopIsHeeded == Spec => NothingBeginsAfterStop
<1>1. Shape /\ [Next]_vars => [stopped => LetThrough' \subseteq LetThrough]_vars
  BY StopHolds, NewcomersAreLetThrough
<1> QED
  BY <1>1, InitShape, NextShape, PTL DEF Spec, NothingBeginsAfterStop

-----------------------------------------------------------------------------
(* The worktrees.                                                          *)

\* Where a worker is between its team's spawning it and its end.
Underway == {"session", "team", "preparing", "working"}

Rostered ==
  /\ trees \subseteq Teams \cup Workers
  /\ \A t \in Teams : ToSet(roster[t]) \subseteq ToSet(Members[t])
  /\ \A t \in Teams : \A w \in ToSet(Members[t]) :
       at[w] \in Underway => place[t] = "working" /\ w \in ToSet(roster[t])

TeamsHaveTrees ==
  /\ TeamTrees /\ phase = "teams" =>
       \A t \in Teams : place[t] \notin {"forked", "threw"} => t \in trees
  /\ phase # "teams" => trees = {} /\ \A t \in Teams : place[t] \in {"returned", "threw"}

WorkersHaveTrees ==
  \A t \in Teams :
    /\ place[t] # "working" => trees \cap ToSet(Members[t]) = {}
    /\ trees \cap ToSet(Members[t]) \subseteq ToSet(roster[t])
    /\ \A w \in ToSet(Members[t]) : at[w] = "working" /\ UsesTrees(t) => w \in trees

TreesInv == Shape /\ Rostered /\ TeamsHaveTrees /\ WorkersHaveTrees

\* A team that is neither spawning workers nor waiting for them, and stays so.
LEMMA QuietMove ==
  ASSUME TreesInv, Shape', NEW t \in Teams,
         UNCHANGED <<at, trees, phase, setting>>,
         place[t] \notin {"working", "forked", "threw", "returned"},
         Moves(t, PlaceState \ {"working", "forked"}),
         \A u \in Teams \ {t} : roster'[u] = roster[u],
         ToSet(roster'[t]) \subseteq ToSet(Members[t])
  PROVE  TreesInv'
<1> USE DEF TreesInv, Moves
<1>1. Rostered'
  <2>1. \A u \in Teams : ToSet(roster'[u]) \subseteq ToSet(Members[u])
    BY DEF Rostered
  <2>2. \A u \in Teams : \A w \in ToSet(Members[u]) :
          at'[w] \in Underway => place'[u] = "working" /\ w \in ToSet(roster'[u])
    BY DEF Rostered
  <2> QED
    BY <2>1, <2>2 DEF Rostered
<1>2. TeamsHaveTrees'
  BY DEF TeamsHaveTrees, TeamTrees, setting
<1>3. WorkersHaveTrees'
  <2>1. trees \cap ToSet(Members[t]) = {} /\ \A w \in ToSet(Members[t]) : at[w] # "working"
    BY DEF WorkersHaveTrees, Rostered, Underway
  <2> QED
    BY <2>1 DEF WorkersHaveTrees, UsesTrees, setting
<1> QED
  BY <1>1, <1>2, <1>3

LEMMA TeamsKeepTrees ==
  ASSUME TreesInv, NEW t \in Teams, TeamStep(t)
  PROVE  TreesInv'
<1> USE DEF TreesInv
<1>0. /\ Shape' /\ UNCHANGED <<stopped, phase, setting, heals>>
      /\ \A u \in Teams : ToSet(Members[u]) \subseteq Workers
      /\ \A u \in Teams \ {t} : ToSet(Members[u]) \cap ToSet(Members[t]) = {}
      /\ Teams \cap Workers = {}
  BY TeamMoves, MembersAreWorkers, TeamAssumption
<1>1. CASE Fork(t)
  <2>1. /\ UNCHANGED <<at, roster>> /\ place[t] = "forked" /\ phase = "teams"
        /\ \/ trees' = trees \cup {t} /\ Moves(t, {"ready"})
           \/ trees' = trees /\ Moves(t, {"threw"})
    BY <1>1, ThrowMoves DEF Fork, workVars, TeamsHaveTrees, Shape, Moves, PlaceState
  <2>2. Rostered'
    BY <1>0, <2>1 DEF Rostered, Moves
  <2>3. TeamsHaveTrees'
    BY <1>0, <2>1 DEF TeamsHaveTrees, TeamTrees, setting, Moves
  <2>4. WorkersHaveTrees'
    BY <1>0, <2>1 DEF WorkersHaveTrees, UsesTrees, setting, Moves
  <2> QED
    BY <1>0, <2>2, <2>3, <2>4
<1>2. CASE StartTeam(t)
  <2>1. /\ UNCHANGED <<at, trees, roster>> /\ place[t] = "ready"
        /\ Moves(t, {"threw", "preparing"})
    BY <1>2, ThrowMoves DEF StartTeam, workVars, Shape, Moves, PlaceState
  <2> QED
    BY <1>0, <2>1, QuietMove DEF Rostered, Moves, PlaceState
<1>3. CASE LeadBegins(t)
  <2>1. /\ UNCHANGED <<at, trees, roster>> /\ place[t] = "preparing" /\ Moves(t, {"leading"})
    BY <1>3 DEF LeadBegins, workVars, Shape, Moves, PlaceState
  <2> QED
    BY <1>0, <2>1, QuietMove DEF Rostered, Moves, PlaceState
<1>4. CASE LeadReturns(t)
  <2>1. /\ UNCHANGED <<at, trees>> /\ place[t] = "leading"
        /\ \/ UNCHANGED roster
           \/ DrawUpRoster(t)
    BY <1>4 DEF LeadReturns, workVars
  <2>2. /\ \A u \in Teams \ {t} : roster'[u] = roster[u]
        /\ ToSet(roster'[t]) \subseteq ToSet(Members[t])
    BY <2>1, RosterIsOfMembers DEF Rostered
  <2>3. Moves(t, {"threw", "returned", "briefed"})
    BY <1>4, <2>1, TeamMoves, ThrowMoves, RosterIsOfMembers DEF Moves
  <2> QED
    BY <1>0, <2>1, <2>2, <2>3, QuietMove DEF Moves, PlaceState
<1>5. CASE SpawnWorkers(t)
  <2>1. /\ UNCHANGED <<trees, roster>> /\ place[t] = "briefed" /\ Moves(t, {"working"})
        /\ at' = [w \in Workers |-> IF w \in ToSet(roster[t]) THEN "session" ELSE at[w]]
    BY <1>5 DEF SpawnWorkers, Shape, Moves, PlaceState
  <2>2. Rostered'
    BY <1>0, <2>1 DEF Rostered, Moves
  <2>3. TeamsHaveTrees'
    BY <1>0, <2>1 DEF TeamsHaveTrees, TeamTrees, setting, Moves
  <2>4. WorkersHaveTrees'
    BY <1>0, <2>1 DEF WorkersHaveTrees, UsesTrees, setting, Moves
  <2> QED
    BY <1>0, <2>2, <2>3, <2>4
<1>6. CASE Settle(t)
  <2>1. /\ UNCHANGED <<at, roster>> /\ place[t] = "working"
        /\ Moves(t, {"threw", "reviewing"})
        /\ trees' = trees \ ToSet(roster[t])
        /\ \A w \in ToSet(roster[t]) : at[w] \in {"returned", "threw"}
    <3>1. Moves(t, {"threw", "reviewing"})
      <4>1. \/ Throw(t)
            \/ place' = [place EXCEPT ![t] = "reviewing"]
        BY <1>6 DEF Settle
      <4> QED
        BY <4>1, ThrowMoves DEF Shape, Moves, PlaceState
    <3> QED
      BY <1>6, <3>1 DEF Settle, workVars, MergedAway, Settled
  <2>2. \A w \in ToSet(Members[t]) : at[w] \notin Underway
    BY <2>1 DEF Rostered, Underway
  <2>3. Rostered'
    BY <1>0, <2>1, <2>2 DEF Rostered, Moves
  <2>4. TeamsHaveTrees'
    BY <1>0, <2>1 DEF TeamsHaveTrees, TeamTrees, setting, Moves, Rostered
  <2>5. WorkersHaveTrees'
    BY <1>0, <2>1, <2>2 DEF WorkersHaveTrees, UsesTrees, setting, Moves, Rostered, Underway
  <2> QED
    BY <1>0, <2>3, <2>4, <2>5
<1>7. CASE /\ UNCHANGED <<at, trees, roster>>
           /\ place[t] \in {"reviewing", "retrying", "reworking"}
           /\ Moves(t, {"threw", "retrying", "reworking", "reviewing", "returned"})
  BY <1>0, <1>7, QuietMove DEF Rostered, Moves, PlaceState
<1> QED
  <2>1. \/ Fork(t) \/ StartTeam(t) \/ LeadBegins(t) \/ LeadReturns(t) \/ SpawnWorkers(t)
        \/ Settle(t)
        \/ /\ UNCHANGED <<at, trees, roster>>
           /\ place[t] \in {"reviewing", "retrying", "reworking"}
           /\ Moves(t, {"threw", "retrying", "reworking", "reviewing", "returned"})
    BY TeamMoves DEF Moves
  <2> QED
    BY <1>1, <1>2, <1>3, <1>4, <1>5, <1>6, <1>7, <2>1

LEMMA WorkersKeepTrees ==
  ASSUME TreesInv, NEW w \in Workers, WorkerStep(w)
  PROVE  TreesInv'
<1> USE DEF TreesInv
<1> DEFINE t == TeamOf(w)
<1>1. /\ Shape' /\ UNCHANGED <<phase, setting, place, roster>>
      /\ \A x \in Workers \ {w} : at'[x] = at[x]
      /\ trees' = trees \/ trees' = trees \cup {w}
      /\ at'[w] = "working" => \/ at[w] = "working"
                               \/ trees' = trees \cup {w}
                               \/ ~UsesTrees(t)
      /\ at[w] \in Underway
  BY WorkerMoves DEF teamVars, Underway
<1>2. /\ t \in Teams /\ w \in ToSet(Members[t])
      /\ \A u \in Teams \ {t} : w \notin ToSet(Members[u])
      /\ \A u \in Teams : ToSet(Members[u]) \subseteq Workers
      /\ w \notin Teams
  BY TeamOfMember, MembersAreWorkers, TeamAssumption
<1> HIDE DEF t
<1>3. place[t] = "working" /\ w \in ToSet(roster[t]) /\ phase = "teams"
  BY <1>1, <1>2 DEF Rostered, TeamsHaveTrees
<1>4. Rostered'
  BY <1>1, <1>2, <1>3 DEF Rostered
<1>5. TeamsHaveTrees'
  BY <1>1, <1>3 DEF TeamsHaveTrees, TeamTrees, setting
<1>6. WorkersHaveTrees'
  BY <1>1, <1>2, <1>3 DEF WorkersHaveTrees, UsesTrees, setting
<1> QED
  BY <1>1, <1>4, <1>5, <1>6

LEMMA GatherKeepsTrees ==
  ASSUME TreesInv, Gather \/ Stop \/ UNCHANGED vars
  PROVE  TreesInv'
<1> USE DEF TreesInv
<1>1. UNCHANGED <<setting, teamVars, workVars>> /\ Shape'
  BY DEF Gather, Join, SynthesisBegins, SynthesisReturns, Stop, vars, Shape, teamVars, workVars
<1> USE DEF teamVars, workVars, setting
<1>2. CASE Join
  <2>1. /\ \A u \in Teams : place[u] \in {"returned", "threw"}
        /\ phase' = "joined" /\ trees' = trees \ Teams
    BY <1>2 DEF Join
  <2>2. trees \cap Workers = {}
    BY <2>1, TeamOfMember DEF WorkersHaveTrees
  <2>3. trees' = {}
    BY <2>1, <2>2 DEF Rostered
  <2> QED
    BY <1>1, <2>1, <2>3 DEF Rostered, TeamsHaveTrees, WorkersHaveTrees, UsesTrees
<1>3. CASE ~Join
  <2>1. /\ trees' = trees
        /\ \/ phase' = phase
           \/ phase # "teams" /\ phase' # "teams"
    BY <1>3 DEF Gather, SynthesisBegins, SynthesisReturns, Stop, vars
  <2> QED
    BY <1>1, <2>1 DEF Rostered, TeamsHaveTrees, TeamTrees, WorkersHaveTrees, UsesTrees
<1> QED
  BY <1>2, <1>3

LEMMA InitTrees == Init => TreesInv
<1> SUFFICES ASSUME Init PROVE TreesInv
  OBVIOUS
<1>1. \A t \in Teams : ToSet(roster[t]) = {}
  BY DEF Init, ToSet
<1> QED
  BY <1>1, InitShape, MembersAreWorkers
  DEF Init, TreesInv, Rostered, TeamsHaveTrees, WorkersHaveTrees, Underway

\* Worktrees are there for whoever works in one, and none is left behind by a
\* team or by the step, whichever lead, worker, merge, review or stop has
\* ended it: runWorker, mergeWorkerWorktrees and runParallelStep.
THEOREM TreesFollowWork == Spec => []TreesMatchWork
<1>1. TreesInv /\ [Next]_vars => TreesInv'
  BY TeamsKeepTrees, WorkersKeepTrees, GatherKeepsTrees DEF Next
<1>2. TreesInv => TreesMatchWork
  <2> SUFFICES ASSUME TreesInv PROVE TreesMatchWork
    OBVIOUS
  <2>1. \A t \in Teams :
          /\ place[t] \in {"leading", "working", "reviewing", "reworking"} /\ TeamTrees
               => t \in trees
          /\ place[t] # "working" => trees \cap ToSet(roster[t]) = {}
    BY DEF TreesInv, Rostered, TeamsHaveTrees, WorkersHaveTrees
  <2>2. \A w \in Workers : at[w] = "working" /\ UsesTrees(TeamOf(w)) => w \in trees
    BY TeamOfMember DEF TreesInv, WorkersHaveTrees
  <2> QED
    BY <2>1, <2>2 DEF TreesMatchWork, TreesInv, TeamsHaveTrees
<1> QED
  BY <1>1, <1>2, InitTrees, PTL DEF Spec

-----------------------------------------------------------------------------
(* The two limiters.                                                       *)

\* The state of a limiter fits those who have asked it and not gone: they are
\* in line, each once, or hold one of its slots, and a line means that all
\* slots are held.
Counted(lim, asked, max) ==
  /\ lim = [active |-> lim.active, waiting |-> lim.waiting]
  /\ lim.active \in Nat /\ lim.active <= max
  /\ lim.waiting \in Seq(Workers) /\ IsInjective(lim.waiting)
  /\ ToSet(lim.waiting) \subseteq asked /\ IsFiniteSet(asked)
  /\ Cardinality(asked \ ToSet(lim.waiting)) = lim.active
  /\ lim.waiting # <<>> => lim.active = max

LEMMA JoinedLine ==
  ASSUME NEW s \in Seq(Workers), NEW u \in Seq(Workers)
  PROVE  /\ s \o u \in Seq(Workers) /\ ToSet(s \o u) = ToSet(s) \cup ToSet(u)
         /\ IsInjective(s) /\ IsInjective(u) /\ ToSet(s) \cap ToSet(u) = {} => IsInjective(s \o u)
<1>1. /\ s \o u \in Seq(Workers) /\ DOMAIN s = 1 .. Len(s) /\ DOMAIN u = 1 .. Len(u)
      /\ DOMAIN (s \o u) = 1 .. Len(s) + Len(u)
      /\ Len(s) \in Nat /\ Len(u) \in Nat
      /\ \A i \in 1 .. Len(s) + Len(u) :
           (s \o u)[i] = IF i <= Len(s) THEN s[i] ELSE u[i - Len(s)]
  OBVIOUS
<1>2. ToSet(s \o u) \subseteq ToSet(s) \cup ToSet(u)
  <2>1. ASSUME NEW i \in DOMAIN (s \o u) PROVE (s \o u)[i] \in ToSet(s) \cup ToSet(u)
    BY <1>1 DEF ToSet
  <2> QED
    BY <2>1 DEF ToSet
<1>3. ToSet(s) \subseteq ToSet(s \o u)
  <2>1. ASSUME NEW i \in DOMAIN s PROVE s[i] \in ToSet(s \o u)
    <3>1. i \in DOMAIN (s \o u) /\ (s \o u)[i] = s[i]
      BY <1>1
    <3> QED
      BY <3>1, Zenon DEF ToSet
  <2> QED
    BY <2>1 DEF ToSet
<1>4. ToSet(u) \subseteq ToSet(s \o u)
  <2>1. ASSUME NEW i \in DOMAIN u PROVE u[i] \in ToSet(s \o u)
    <3>1. i + Len(s) \in DOMAIN (s \o u) /\ (s \o u)[i + Len(s)] = u[i]
      BY <1>1
    <3> QED
      BY <3>1, Zenon DEF ToSet
  <2> QED
    BY <2>1 DEF ToSet
<1>5. ASSUME IsInjective(s), IsInjective(u), ToSet(s) \cap ToSet(u) = {}
      PROVE  IsInjective(s \o u)
  <2>1. \A i \in DOMAIN s, j \in DOMAIN u : s[i] # u[j]
    BY <1>5 DEF ToSet
  <2>2. ASSUME NEW i \in DOMAIN (s \o u), NEW j \in DOMAIN (s \o u), (s \o u)[i] = (s \o u)[j]
        PROVE  i = j
    <3> DEFINE k == Len(s)
    <3>1. CASE i <= k /\ j <= k
      BY <1>1, <1>5, <2>2, <3>1 DEF IsInjective
    <3>2. CASE i > k /\ j > k
      <4>1. i - k \in DOMAIN u /\ j - k \in DOMAIN u /\ u[i - k] = u[j - k]
        BY <1>1, <2>2, <3>2
      <4> QED
        BY <1>1, <1>5, <4>1 DEF IsInjective
    <3>3. CASE i <= k /\ j > k
      BY <1>1, <2>1, <2>2, <3>3
    <3>4. CASE i > k /\ j <= k
      BY <1>1, <2>1, <2>2, <3>4
    <3> QED
      BY <1>1, <3>1, <3>2, <3>3, <3>4
  <2> QED
    BY <2>2 DEF IsInjective
<1> QED
  BY <1>1, <1>2, <1>3, <1>4, <1>5

LEMMA TailOfLine ==
  ASSUME NEW s \in Seq(Workers), IsInjective(s), s # <<>>
  PROVE  /\ Tail(s) \in Seq(Workers) /\ IsInjective(Tail(s))
         /\ ToSet(Tail(s)) = ToSet(s) \ {Head(s)} /\ Head(s) \in ToSet(s)
<1>1. /\ Len(s) \in Nat \ {0} /\ DOMAIN s = 1 .. Len(s) /\ Head(s) = s[1]
      /\ Tail(s) \in Seq(Workers) /\ DOMAIN Tail(s) = 1 .. Len(s) - 1
      /\ \A i \in 1 .. Len(s) - 1 : Tail(s)[i] = s[i + 1]
  OBVIOUS
<1>2. IsInjective(Tail(s))
  BY <1>1 DEF IsInjective
<1>3. Head(s) \in ToSet(s)
  BY <1>1 DEF ToSet
<1>4. ToSet(Tail(s)) \subseteq ToSet(s) \ {Head(s)}
  BY <1>1 DEF ToSet, IsInjective
<1>5. ASSUME NEW i \in DOMAIN s, s[i] # Head(s) PROVE s[i] \in ToSet(Tail(s))
  <2>1. i - 1 \in DOMAIN Tail(s) /\ Tail(s)[i - 1] = s[i]
    BY <1>1, <1>5
  <2> QED
    BY <2>1, Zenon DEF ToSet
<1>6. ToSet(s) \ {Head(s)} \subseteq ToSet(Tail(s))
  BY <1>5 DEF ToSet
<1> QED
  BY <1>1, <1>2, <1>3, <1>4, <1>6

\* The first k of a line.
FirstOf(s, k) == {s[i] : i \in 1 .. k}

LEMMA FirstCounted ==
  ASSUME NEW s \in Seq(Workers), IsInjective(s), NEW k \in 0 .. Len(s)
  PROVE  IsFiniteSet(FirstOf(s, k)) /\ Cardinality(FirstOf(s, k)) = k
<1> DEFINE f == [i \in 1 .. k |-> s[i]]
<1>1. 1 .. k \subseteq DOMAIN s
  OBVIOUS
<1>2. f \in Surjection(1 .. k, FirstOf(s, k))
  BY DEF FirstOf, Surjection
<1>3. f \in Injection(1 .. k, FirstOf(s, k))
  BY <1>1 DEF FirstOf, Injection, IsInjective
<1>4. IsFiniteSet(1 .. k) /\ Cardinality(1 .. k) = k
  BY FS_Interval
<1> QED
  BY <1>2, <1>3, <1>4, FS_Surjection

\* Slots for the lucky, n of them, while the rest joins the line.
Grants(lim, asked, max, lucky, n, rest) ==
  /\ max \in Nat /\ Counted(lim, asked, max)
  /\ n \in Nat /\ IsFiniteSet(lucky) /\ Cardinality(lucky) = n
  /\ rest \in Seq(Workers) /\ IsInjective(rest) /\ IsFiniteSet(ToSet(rest))
  /\ lucky \cap asked = {} /\ ToSet(rest) \cap (asked \cup lucky) = {}
  /\ lim.active + n <= max /\ (rest # <<>> => lim.active + n = max)

Granted(lim, n, rest) == [active |-> lim.active + n, waiting |-> lim.waiting \o rest]

LEMMA GrantedCounted ==
  ASSUME NEW lim, NEW asked, NEW max, NEW lucky, NEW n, NEW rest,
         Grants(lim, asked, max, lucky, n, rest)
  PROVE  Counted(Granted(lim, n, rest), asked \cup lucky \cup ToSet(rest), max)
<1> DEFINE new == Granted(lim, n, rest)  all == asked \cup lucky \cup ToSet(rest)
<1>1. /\ max \in Nat /\ Counted(lim, asked, max)
      /\ n \in Nat /\ IsFiniteSet(lucky) /\ Cardinality(lucky) = n
      /\ rest \in Seq(Workers) /\ IsInjective(rest) /\ IsFiniteSet(ToSet(rest))
      /\ lucky \cap asked = {} /\ ToSet(rest) \cap (asked \cup lucky) = {}
      /\ lim.active + n <= max /\ (rest # <<>> => lim.active + n = max)
  BY DEF Grants
<1> DEFINE line == lim.waiting  held == asked \ ToSet(line)
<1>2. /\ lim.active \in Nat /\ line \in Seq(Workers) /\ IsInjective(line)
      /\ ToSet(line) \subseteq asked /\ IsFiniteSet(asked)
      /\ Cardinality(held) = lim.active /\ IsFiniteSet(held)
      /\ line # <<>> => lim.active = max
  BY <1>1, FS_Difference DEF Counted
<1>3. /\ line \o rest \in Seq(Workers) /\ ToSet(line \o rest) = ToSet(line) \cup ToSet(rest)
      /\ IsInjective(line \o rest)
  BY <1>1, <1>2, JoinedLine
<1>4. IsFiniteSet(all) /\ ToSet(line \o rest) \subseteq all
  BY <1>1, <1>2, <1>3, FS_Union
<1>5. all \ ToSet(line \o rest) = held \cup lucky /\ held \cap lucky = {}
  BY <1>1, <1>2, <1>3
<1>6. Cardinality(held \cup lucky) = lim.active + n
  <2>1. Cardinality(held \cup lucky)
          = Cardinality(held) + Cardinality(lucky) - Cardinality(held \cap lucky)
    BY <1>1, <1>2, FS_Union
  <2>2. Cardinality(held \cap lucky) = 0
    BY <1>5, FS_EmptySet
  <2>3. Cardinality(held) = lim.active
    BY <1>2
  <2> DEFINE a == Cardinality(held)  b == Cardinality(lucky)  c == Cardinality(held \cap lucky)
             d == Cardinality(held \cup lucky)
  <2>4. d = a + b - c /\ c = 0 /\ a = lim.active /\ b = n /\ lim.active \in Nat
    BY <1>1, <1>2, <2>1, <2>2, <2>3
  <2> HIDE DEF a, b, c, d
  <2>5. d = lim.active + n
    BY <1>1, <2>4
  <2> QED
    BY <2>5 DEF d
<1>7. line \o rest # <<>> => lim.active + n = max
  <2>1. CASE line = <<>>
    BY <1>1, <1>2, <2>1
  <2>2. CASE line # <<>>
    BY <1>1, <1>2, <2>2
  <2> QED
    BY <2>1, <2>2
<1>8. /\ new.active = lim.active + n /\ new.waiting = line \o rest
      /\ new = [active |-> new.active, waiting |-> new.waiting]
  BY DEF Granted
<1>9. new.active \in Nat /\ new.active <= max
  BY <1>1, <1>2, <1>8
<1> HIDE DEF line, held, new, all
<1>10. Cardinality(all \ ToSet(new.waiting)) = new.active
  BY <1>5, <1>6, <1>8
<1>11. ToSet(new.waiting) = ToSet(line) \cup ToSet(rest)
  BY <1>3, <1>8
<1> QED
  BY <1>3, <1>4, <1>7, <1>8, <1>9, <1>10, <1>11 DEF Counted, line, new, all

LEMMA AcquireAllCounted ==
  ASSUME NEW lim, NEW asked, NEW max \in Nat, Counted(lim, asked, max),
         NEW s \in Seq(Workers), IsInjective(s), ToSet(s) \cap asked = {}
  PROVE  /\ Counted(AcquireAll(lim, max, s), asked \cup ToSet(s), max)
         /\ ToSet(AcquireAll(lim, max, s).waiting) \subseteq ToSet(lim.waiting) \cup ToSet(s)
<1> DEFINE free  == {i \in DOMAIN s : HasSlot([lim EXCEPT !.active = @ + i - 1], max)}
           taken == Cardinality(free)
           rest  == SubSeq(s, taken + 1, Len(s))
           lucky == FirstOf(s, taken)
<1>1. /\ Len(s) \in Nat /\ lim.active \in Nat /\ lim.active <= max
      /\ lim = [active |-> lim.active, waiting |-> lim.waiting]
  BY DEF Counted
<1>2. /\ taken \in 0 .. Len(s) /\ Len(s) \in Nat /\ lim.active \in Nat
      /\ lim.active + taken <= max
      /\ taken < Len(s) => lim.active + taken = max
  <2> DEFINE m == IF Len(s) < max - lim.active THEN Len(s) ELSE max - lim.active
  <2>1. m \in Nat /\ m <= Len(s) /\ m <= max - lim.active
        /\ (m < Len(s) => m = max - lim.active)
    BY <1>1
  <2>2. \A i \in 1 .. Len(s) : HasSlot([lim EXCEPT !.active = @ + i - 1], max) <=> lim.active + i - 1 < max
    BY <1>1 DEF HasSlot
  <2>3. \A i \in 1 .. Len(s) : lim.active + i - 1 < max <=> i \in 1 .. m
    BY <1>1
  <2>4. free = 1 .. m
    <3>1. DOMAIN s = 1 .. Len(s) /\ 1 .. m \subseteq 1 .. Len(s)
      BY <1>1, <2>1
    <3> HIDE DEF m
    <3> QED
      BY <2>2, <2>3, <3>1
  <2> HIDE DEF m, free
  <2>5. taken = m
    <3>1. Cardinality(1 .. m) = IF 1 > m THEN 0 ELSE m - 1 + 1
      BY <2>1, FS_Interval
    <3> QED
      BY <2>1, <2>4, <3>1
  <2> QED
    BY <1>1, <2>1, <2>5
<1>3. AcquireAll(lim, max, s) = [active |-> lim.active + taken, waiting |-> lim.waiting \o rest]
  BY DEF AcquireAll
<1> HIDE DEF taken
<1>4. /\ rest \in Seq(Workers) /\ Len(rest) = Len(s) - taken
      /\ DOMAIN rest = 1 .. Len(s) - taken
      /\ \A i \in 1 .. Len(s) - taken : rest[i] = s[i + taken]
      /\ DOMAIN s = 1 .. Len(s)
  BY <1>2
<1> HIDE DEF rest
<1>5. rest # <<>> => taken < Len(s)
  BY <1>2, <1>4
<1>6. ASSUME NEW i \in DOMAIN rest
      PROVE  /\ i + taken \in DOMAIN s /\ rest[i] = s[i + taken] /\ i \in Nat
             /\ \A j \in 1 .. taken : j \in DOMAIN s /\ j # i + taken
  BY <1>2, <1>4
<1>7. IsInjective(rest)
  <2>1. ASSUME NEW i \in DOMAIN rest, NEW j \in DOMAIN rest, rest[i] = rest[j]
        PROVE  i = j
    <3>1. i + taken = j + taken
      BY <1>6, <2>1 DEF IsInjective
    <3> QED
      BY <1>2, <1>6, <3>1
  <2> QED
    BY <2>1 DEF IsInjective
<1>8. IsFiniteSet(lucky) /\ Cardinality(lucky) = taken
  BY <1>2, FirstCounted
<1>9. ToSet(rest) \cap lucky = {}
  <2>1. ASSUME NEW i \in DOMAIN rest, NEW j \in 1 .. taken PROVE rest[i] # s[j]
    BY <1>6, <2>1 DEF IsInjective
  <2> QED
    BY <2>1 DEF ToSet, FirstOf
<1>10. lucky \cup ToSet(rest) = ToSet(s)
  <2>1. lucky \cup ToSet(rest) \subseteq ToSet(s)
    <3>1. ASSUME NEW i \in DOMAIN rest PROVE rest[i] \in ToSet(s)
      BY <1>6 DEF ToSet
    <3>2. ASSUME NEW i \in 1 .. taken PROVE s[i] \in ToSet(s)
      <4>1. i \in DOMAIN s
        BY <1>2, <1>4
      <4> QED
        BY <4>1 DEF ToSet
    <3>3. ToSet(rest) \subseteq ToSet(s)
      BY <3>1 DEF ToSet
    <3>4. lucky \subseteq ToSet(s)
      BY <3>2 DEF FirstOf
    <3> QED
      BY <3>3, <3>4
  <2>2. ASSUME NEW i \in DOMAIN s PROVE s[i] \in lucky \cup ToSet(rest)
    <3>1. CASE i <= taken
      BY <1>2, <1>4, <3>1 DEF FirstOf
    <3>2. CASE i > taken
      <4>1. i - taken \in DOMAIN rest /\ rest[i - taken] = s[i]
        BY <1>2, <1>4, <3>2
      <4>2. rest[i - taken] \in ToSet(rest)
        BY <4>1, Zenon DEF ToSet
      <4> QED
        BY <4>1, <4>2
    <3> QED
      BY <1>2, <1>4, <3>1, <3>2
  <2> QED
    BY <2>1, <2>2 DEF ToSet
<1>11. IsFiniteSet(ToSet(rest))
  <2>1. ToSet(rest) = FirstOf(rest, Len(rest)) /\ Len(rest) \in 0 .. Len(rest)
    BY <1>2, <1>4 DEF ToSet, FirstOf
  <2> QED
    BY <1>4, <1>7, <2>1, FirstCounted
<1> HIDE DEF lucky
<1>12. /\ lucky \cap asked = {} /\ ToSet(rest) \cap (asked \cup lucky) = {}
       /\ asked \cup ToSet(s) = asked \cup lucky \cup ToSet(rest)
       /\ taken \in Nat
       /\ rest # <<>> => lim.active + taken = max
  BY <1>2, <1>5, <1>9, <1>10
<1>13. AcquireAll(lim, max, s) = Granted(lim, taken, rest)
  BY <1>3 DEF Granted
<1>14. Grants(lim, asked, max, lucky, taken, rest)
  <2>1. rest \in Seq(Workers) /\ lim.active + taken <= max
    BY <1>2, <1>4
  <2> QED
    BY <1>7, <1>8, <1>11, <1>12, <2>1, Zenon DEF Grants
<1>15. Counted(Granted(lim, taken, rest), asked \cup ToSet(s), max)
  <2>1. Counted(Granted(lim, taken, rest), asked \cup lucky \cup ToSet(rest), max)
    BY <1>14, GrantedCounted, Zenon
  <2> QED
    BY <1>12, <2>1, Zenon
<1>16. ToSet(Granted(lim, taken, rest).waiting) = ToSet(lim.waiting) \cup ToSet(rest)
  <2>1. lim.waiting \in Seq(Workers) /\ rest \in Seq(Workers)
    BY <1>4 DEF Counted
  <2> QED
    BY <2>1, JoinedLine DEF Granted
<1> QED
  BY <1>10, <1>13, <1>15, <1>16

LEMMA AcquireCounted ==
  ASSUME NEW lim, NEW asked, NEW max \in Nat, Counted(lim, asked, max),
         NEW w \in Workers \ asked
  PROVE  /\ Counted(Acquire(lim, max, w), asked \cup {w}, max)
         /\ ToSet(Acquire(lim, max, w).waiting) \subseteq ToSet(lim.waiting) \cup {w}
<1>1. /\ lim = [active |-> lim.active, waiting |-> lim.waiting]
      /\ lim.waiting \in Seq(Workers) /\ lim.active \in Nat /\ lim.active <= max
  BY DEF Counted
<1>2. /\ <<w>> \in Seq(Workers) /\ IsInjective(<<w>>) /\ ToSet(<<w>>) = {w}
      /\ DOMAIN <<w>> = {1} /\ Len(<<w>>) = 1
  BY DEF IsInjective, ToSet
<1> DEFINE free == {i \in DOMAIN <<w>> : HasSlot([lim EXCEPT !.active = @ + i - 1], max)}
<1>3. free = IF HasSlot(lim, max) THEN {1} ELSE {}
  BY <1>1, <1>2 DEF HasSlot
<1>4. AcquireAll(lim, max, <<w>>) = [active |-> lim.active + Cardinality(free),
         waiting |-> lim.waiting \o SubSeq(<<w>>, Cardinality(free) + 1, Len(<<w>>))]
  BY DEF AcquireAll
<1> HIDE DEF free
<1>5. Acquire(lim, max, w) = AcquireAll(lim, max, <<w>>)
  <2>1. CASE HasSlot(lim, max)
    <3>1. Cardinality(free) = 1
      BY <1>3, <2>1, FS_Singleton
    <3>2. SubSeq(<<w>>, 1 + 1, Len(<<w>>)) = <<>> /\ lim.waiting \o <<>> = lim.waiting
      BY <1>1, <1>2
    <3>3. Acquire(lim, max, w) = [active |-> lim.active + 1, waiting |-> lim.waiting]
      BY <1>1, <2>1 DEF Acquire
    <3> QED
      BY <1>4, <3>1, <3>2, <3>3
  <2>2. CASE ~HasSlot(lim, max)
    <3>1. Cardinality(free) = 0
      BY <1>3, <2>2, FS_EmptySet
    <3>2. SubSeq(<<w>>, 1, 1) = <<w>>
      <4> DEFINE one == <<w>>  same == SubSeq(one, 1, 1)
      <4>1. one \in Seq(Workers) /\ Len(one) = 1 /\ one[1] = w
        OBVIOUS
      <4> HIDE DEF one
      <4>2. same \in Seq(Workers) /\ Len(same) = 1 /\ same[1] = w
        BY <4>1
      <4> HIDE DEF same
      <4>3. same = [i \in 1 .. 1 |-> same[i]] /\ one = [i \in 1 .. 1 |-> one[i]]
        BY <4>1, <4>2
      <4>4. \A i \in 1 .. 1 : same[i] = one[i]
        BY <4>1, <4>2
      <4> QED
        BY <4>3, <4>4 DEF one, same
    <3>3. lim.waiting \o <<w>> = Append(lim.waiting, w)
      BY <1>1
    <3>4. Acquire(lim, max, w) = [active |-> lim.active, waiting |-> Append(lim.waiting, w)]
      BY <1>1, <2>2 DEF Acquire
    <3>5. lim.active + 0 = lim.active /\ 0 + 1 = 1
      BY <1>1
    <3> QED
      BY <1>2, <1>4, <3>1, <3>2, <3>3, <3>4, <3>5, Zenon
  <2> QED
    BY <2>1, <2>2
<1>6. ToSet(<<w>>) \cap asked = {}
  BY <1>2
<1> DEFINE new == AcquireAll(lim, max, <<w>>)
<1>7. Counted(new, asked \cup ToSet(<<w>>), max)
      /\ ToSet(new.waiting) \subseteq ToSet(lim.waiting) \cup ToSet(<<w>>)
  BY <1>2, <1>6, AcquireAllCounted
<1> QED
  BY <1>2, <1>5, <1>7, Zenon

LEMMA ReleaseCounted ==
  ASSUME NEW lim, NEW asked, NEW max \in Nat, Counted(lim, asked, max),
         NEW w \in asked \ ToSet(lim.waiting)
  PROVE  /\ Counted(Release(lim), asked \ {w}, max)
         /\ ToSet(Release(lim).waiting) \subseteq ToSet(lim.waiting)
<1> DEFINE line == lim.waiting  held == asked \ ToSet(line)  new == Release(lim)
<1>1. /\ lim = [active |-> lim.active, waiting |-> line]
      /\ lim.active \in Nat /\ lim.active <= max /\ line \in Seq(Workers) /\ IsInjective(line)
      /\ ToSet(line) \subseteq asked /\ IsFiniteSet(asked)
      /\ Cardinality(held) = lim.active /\ IsFiniteSet(held)
      /\ line # <<>> => lim.active = max
  BY FS_Difference DEF Counted
<1>2. /\ IsFiniteSet(asked \ {w}) /\ IsFiniteSet(held \ {w})
      /\ Cardinality(held \ {w}) = lim.active - 1
  <2>1. w \in held /\ w \in asked
    OBVIOUS
  <2> HIDE DEF held
  <2>2. IsFiniteSet(held \ {w}) /\ Cardinality(held \ {w}) = Cardinality(held) - 1
    BY <1>1, <2>1, FS_RemoveElement
  <2>3. IsFiniteSet(asked \ {w})
    BY <1>1, <2>1, FS_RemoveElement
  <2> QED
    BY <1>1, <2>2, <2>3
<1>3. Cardinality(held \ {w}) \in Nat
  BY <1>2, FS_CardinalityType
<1>4. CASE line = <<>>
  <2>1. new = [active |-> lim.active - 1, waiting |-> <<>>]
    BY <1>1, <1>4 DEF Release
  <2>2. ToSet(<<>>) = {} /\ IsInjective(<<>>) /\ <<>> \in Seq(Workers)
    BY DEF ToSet, IsInjective
  <2>3. (asked \ {w}) \ {} = held \ {w}
    BY <1>4, <2>2
  <2>4. /\ new.active = lim.active - 1 /\ new.waiting = <<>>
        /\ new = [active |-> new.active, waiting |-> new.waiting]
    BY <2>1
  <2>5. new.active \in Nat /\ new.active <= max
    BY <1>1, <1>2, <1>3, <2>4
  <2>6. Cardinality((asked \ {w}) \ {}) = lim.active - 1
    BY <1>2, <2>3
  <2> HIDE DEF line, held, new
  <2>7. Counted(new, asked \ {w}, max)
    BY <1>2, <2>2, <2>4, <2>5, <2>6 DEF Counted
  <2>8. ToSet(new.waiting) = {}
    BY <2>2, <2>4
  <2> QED
    BY <2>7, <2>8 DEF new
<1>5. CASE line # <<>>
  <2>1. new = [active |-> lim.active, waiting |-> Tail(line)] /\ lim.active = max
    <3>1. (lim.active - 1) + 1 = lim.active /\ lim.active = max
      BY <1>1, <1>5
    <3>2. new = [active |-> (lim.active - 1) + 1, waiting |-> Tail(line)]
      BY <1>5 DEF Release
    <3> QED
      BY <3>1, <3>2, Zenon
  <2>2. /\ Tail(line) \in Seq(Workers) /\ IsInjective(Tail(line))
        /\ ToSet(Tail(line)) = ToSet(line) \ {Head(line)} /\ Head(line) \in ToSet(line)
    BY <1>1, <1>5, TailOfLine
  <2>3. (asked \ {w}) \ ToSet(Tail(line)) = (held \ {w}) \cup {Head(line)}
    BY <1>1, <2>2
  <2>4. Head(line) \notin held \ {w}
    BY <2>2
  <2>5. ToSet(Tail(line)) \subseteq asked \ {w}
    BY <1>1, <2>2
  <2>6. /\ new.active = lim.active /\ new.waiting = Tail(line)
        /\ new = [active |-> new.active, waiting |-> new.waiting]
    BY <2>1
  <2> DEFINE rest == held \ {w}  next == Head(line)
  <2> HIDE DEF rest, next
  <2>7. Cardinality(rest \cup {next}) = Cardinality(rest) + 1
    BY <1>2, <2>4, FS_AddElement DEF rest, next
  <2>8. Cardinality((held \ {w}) \cup {Head(line)}) = lim.active
    BY <1>1, <1>2, <2>7 DEF rest, next
  <2> HIDE DEF line, held, new
  <2>9. Counted(new, asked \ {w}, max)
    BY <1>1, <1>2, <2>1, <2>2, <2>3, <2>5, <2>6, <2>8 DEF Counted
  <2> QED
    BY <2>2, <2>6, <2>9 DEF new, line
<1> QED
  BY <1>4, <1>5

-----------------------------------------------------------------------------
(* Those at work at a time.                                                *)

Asking == {w \in Workers : at[w] \in Underway}
InTeam(t) == {w \in ToSet(Members[t]) : at[w] \in {"team", "preparing", "working"}}

SessionCounted ==
  /\ Counted(sessionLim, Asking, SessionMax)
  /\ \A w \in ToSet(sessionLim.waiting) : at[w] = "session"

TeamsCounted ==
  /\ teamLim = [t \in Teams |-> teamLim[t]]
  /\ \A t \in Teams :
       /\ Counted(teamLim[t], InTeam(t), TeamMax)
       /\ \A w \in ToSet(teamLim[t].waiting) : at[w] = "team"

LinedUp == \A t \in Teams : roster[t] \in Seq(Workers) /\ IsInjective(roster[t])

LimitsInv == TreesInv /\ LinedUp /\ SessionCounted /\ TeamsCounted

LEMMA InitLimits == Init => LimitsInv
<1> SUFFICES ASSUME Init PROVE LimitsInv
  OBVIOUS
<1>1. <<>> \in Seq(Workers) /\ IsInjective(<<>>) /\ ToSet(<<>>) = {}
  BY DEF IsInjective, ToSet
<1>2. Asking = {} /\ \A t \in Teams : InTeam(t) = {}
  BY MembersAreWorkers DEF Init, Asking, InTeam, Underway
<1>3. ASSUME NEW max \in Nat \ {0} PROVE Counted(NewLimiter, {}, max)
  <2>1. IsFiniteSet({}) /\ Cardinality({}) = 0 /\ {} \ {} = {}
    BY FS_EmptySet
  <2>2. /\ NewLimiter.active = 0 /\ NewLimiter.waiting = <<>>
        /\ NewLimiter = [active |-> NewLimiter.active, waiting |-> NewLimiter.waiting]
    BY DEF NewLimiter
  <2>3. 0 \in Nat /\ 0 <= max
    OBVIOUS
  <2> QED
    BY <1>1, <2>1, <2>2, <2>3 DEF Counted
<1>4. ToSet(NewLimiter.waiting) = {}
  BY <1>1 DEF NewLimiter
<1>5. SessionCounted
  BY <1>2, <1>3, <1>4, TeamAssumption DEF Init, SessionCounted
<1>6. TeamsCounted
  <2>1. teamLim = [t \in Teams |-> NewLimiter]
    BY DEF Init
  <2>2. \A t \in Teams : teamLim[t] = NewLimiter
    BY <2>1
  <2>3. teamLim = [t \in Teams |-> teamLim[t]] /\ TeamMax \in Nat \ {0}
    BY <2>1, TeamAssumption
  <2> QED
    BY <1>2, <1>3, <1>4, <2>2, <2>3 DEF TeamsCounted
<1>7. LinedUp
  BY <1>1 DEF Init, LinedUp
<1> QED
  BY <1>5, <1>6, <1>7, InitTrees DEF LimitsInv

\* A roster drawn up is a line: the members, or the authorized, each once.
LEMMA RosterIsLine ==
  ASSUME Shape, LinedUp, NEW t \in Teams, DrawUpRoster(t)
  PROVE  LinedUp'
<1>1. \A u \in Teams \ {t} : roster'[u] = roster[u]
  BY RosterIsOfMembers
<1>2. roster'[t] = roster[t] \/ (roster'[t] \in Seq(Workers) /\ IsInjective(roster'[t]))
  <2>1. CASE t \in StrictTeams
    <3>1. PICK ds \in Decisions(t) :
            IF Rejected(t, ds) THEN Throw(t) /\ UNCHANGED roster
              ELSE /\ roster' = [roster EXCEPT ![t] = Authorized(ds)]
                   /\ place' = [place EXCEPT ![t] = "briefed"]
      BY <2>1 DEF DrawUpRoster
    <3>2. CASE Rejected(t, ds)
      BY <3>1, <3>2
    <3>3. CASE ~Rejected(t, ds)
      <4>1. roster'[t] = Authorized(ds)
        BY <3>1, <3>3 DEF Shape
      <4>2. PICK n \in 0 .. Len(Members[t]) : DOMAIN ds = 1 .. n
        BY DEF Decisions
      <4>3. n \in Nat
        BY <4>2, TeamAssumption
      <4>4. /\ \A i \in 1 .. n : ds[i].worker \in Workers
            /\ \A i \in 1 .. n : \A j \in 1 .. i - 1 : ds[j].worker # ds[i].worker
        BY <3>3, <4>2, MembersAreWorkers DEF Rejected
      <4>5. Authorized(ds) = [i \in 1 .. n |-> ds[i].worker]
        BY <4>2 DEF Authorized
      <4> HIDE DEF Authorized
      <4>6. Authorized(ds) \in Seq(Workers)
        BY <4>3, <4>4, <4>5
      <4>7. ASSUME NEW i \in 1 .. n, NEW j \in 1 .. n, ds[i].worker = ds[j].worker
            PROVE  i = j
        <5>1. ~(i < j) /\ ~(j < i)
          BY <4>3, <4>4, <4>7
        <5> QED
          BY <4>3, <5>1
      <4>8. IsInjective(Authorized(ds))
        BY <4>5, <4>7 DEF IsInjective
      <4> QED
        BY <4>1, <4>6, <4>8
    <3> QED
      BY <3>2, <3>3
  <2>2. CASE t \notin StrictTeams
    BY <2>2, TeamAssumption DEF DrawUpRoster, Shape
  <2> QED
    BY <2>1, <2>2
<1> QED
  BY <1>1, <1>2 DEF LinedUp

LEMMA TeamsKeepLimits ==
  ASSUME LimitsInv, NEW t \in Teams, TeamStep(t)
  PROVE  LinedUp' /\ SessionCounted' /\ TeamsCounted'
<1> USE DEF LimitsInv, TreesInv
<1>1. CASE SpawnWorkers(t)
  <2>1. /\ roster' = roster /\ teamLim' = teamLim /\ place[t] = "briefed"
        /\ sessionLim' = AcquireAll(sessionLim, SessionMax, roster[t])
        /\ at' = [w \in Workers |-> IF w \in ToSet(roster[t]) THEN "session" ELSE at[w]]
    BY <1>1 DEF SpawnWorkers
  <2>2. \A w \in ToSet(roster[t]) : w \in Workers /\ at[w] \notin Underway
    BY <2>1, MembersAreWorkers DEF Rostered
  <2>3. Asking' = Asking \cup ToSet(roster[t]) /\ ToSet(roster[t]) \cap Asking = {}
    BY <2>1, <2>2 DEF Asking, Underway
  <2>4. /\ Counted(sessionLim', Asking', SessionMax)
        /\ ToSet(sessionLim'.waiting) \subseteq ToSet(sessionLim.waiting) \cup ToSet(roster[t])
    <3>1. /\ roster[t] \in Seq(Workers) /\ IsInjective(roster[t]) /\ SessionMax \in Nat
          /\ Counted(sessionLim, Asking, SessionMax)
      BY TeamAssumption DEF LinedUp, SessionCounted
    <3> QED
      BY <2>1, <2>3, <3>1, AcquireAllCounted
  <2>5. \A w \in ToSet(sessionLim'.waiting) : at'[w] = "session"
    <3>1. \A w \in ToSet(sessionLim.waiting) : w \in Workers /\ at[w] = "session"
      BY DEF SessionCounted, Counted, Asking
    <3> QED
      BY <2>1, <2>2, <2>4, <3>1
  <2>6. \A u \in Teams : InTeam(u)' = InTeam(u)
    BY <2>1, <2>2, MembersAreWorkers DEF InTeam, Underway
  <2>7. \A u \in Teams : \A w \in ToSet(teamLim[u].waiting) : at'[w] = "team"
    <3>1. \A u \in Teams : \A w \in ToSet(teamLim[u].waiting) : w \in Workers /\ at[w] = "team"
      BY MembersAreWorkers DEF TeamsCounted, Counted, InTeam
    <3> QED
      BY <2>1, <2>2, <3>1 DEF Underway
  <2> QED
    BY <2>1, <2>4, <2>5, <2>6, <2>7 DEF LinedUp, SessionCounted, TeamsCounted
<1>2. CASE ~SpawnWorkers(t)
  <2>1. UNCHANGED <<at, sessionLim, teamLim>>
    BY <1>2 DEF TeamStep, Fork, StartTeam, LeadBegins, LeadReturns, Settle, ReviewReturns,
       TakeUp, RetryReturns, SeniorReturns, ReworkReturns, EndCycle, workVars
  <2>2. SessionCounted' /\ TeamsCounted'
    BY <2>1 DEF SessionCounted, TeamsCounted, Asking, InTeam
  <2>3. LinedUp'
    <3>1. UNCHANGED roster \/ DrawUpRoster(t)
      BY <1>2 DEF TeamStep, Fork, StartTeam, LeadBegins, LeadReturns, Settle, ReviewReturns,
         TakeUp, RetryReturns, SeniorReturns, ReworkReturns, EndCycle
    <3> QED
      BY <3>1, RosterIsLine DEF LinedUp
  <2> QED
    BY <2>2, <2>3
<1> QED
  BY <1>1, <1>2

\* A worker that leaves gives back the slots it holds.
LEMMA LeavingCounted ==
  ASSUME LimitsInv, NEW w \in Workers, NEW how \in {"returned", "threw"}, Leave(w, how),
         at[w] \in {"team", "preparing", "working"}, w \notin ToSet(teamLim[TeamOf(w)].waiting)
  PROVE  SessionCounted' /\ TeamsCounted'
<1> USE DEF LimitsInv, TreesInv
<1> DEFINE t == TeamOf(w)
<1>1. /\ t \in Teams /\ w \in ToSet(Members[t])
      /\ \A u \in Teams \ {t} : w \notin ToSet(Members[u])
  BY TeamOfMember
<1>2. /\ at' = [at EXCEPT ![w] = how] /\ sessionLim' = Release(sessionLim)
      /\ teamLim' = [teamLim EXCEPT ![t] = Release(@)]
      /\ w \notin ToSet(teamLim[t].waiting) /\ how \notin Underway
  BY DEF Leave, Underway
<1> HIDE DEF t
<1>3. \A x \in Workers : at'[x] = IF x = w THEN how ELSE at[x]
  BY <1>2 DEF Shape
<1>4. Asking' = Asking \ {w} /\ w \in Asking \ ToSet(sessionLim.waiting)
  BY <1>2, <1>3 DEF Asking, SessionCounted, Underway
<1>5. Counted(sessionLim', Asking', SessionMax)
      /\ ToSet(sessionLim'.waiting) \subseteq ToSet(sessionLim.waiting)
  <2>1. SessionMax \in Nat /\ Counted(sessionLim, Asking, SessionMax)
    BY TeamAssumption DEF SessionCounted
  <2> QED
    BY <1>2, <1>4, <2>1, ReleaseCounted
<1>6. SessionCounted'
  <2>1. \A x \in ToSet(sessionLim.waiting) : x \in Workers /\ x # w /\ at[x] = "session"
    BY <1>4 DEF SessionCounted, Counted, Asking
  <2> QED
    BY <1>3, <1>5, <2>1 DEF SessionCounted
<1>7. /\ InTeam(t)' = InTeam(t) \ {w} /\ w \in InTeam(t)
      /\ \A u \in Teams \ {t} : InTeam(u)' = InTeam(u)
  BY <1>1, <1>2, <1>3, MembersAreWorkers DEF InTeam, Underway
<1>8. Counted(Release(teamLim[t]), InTeam(t)', TeamMax)
      /\ ToSet(Release(teamLim[t]).waiting) \subseteq ToSet(teamLim[t].waiting)
  <2>1. TeamMax \in Nat /\ Counted(teamLim[t], InTeam(t), TeamMax)
    BY <1>1, TeamAssumption DEF TeamsCounted
  <2> QED
    BY <1>2, <1>7, <2>1, ReleaseCounted
<1>9. /\ teamLim'[t] = Release(teamLim[t])
      /\ \A u \in Teams \ {t} : teamLim'[u] = teamLim[u]
      /\ teamLim' = [u \in Teams |-> teamLim'[u]]
  BY <1>1, <1>2 DEF TeamsCounted
<1>10. ASSUME NEW u \in Teams, NEW x \in ToSet(teamLim[u].waiting)
       PROVE  x \in Workers /\ x # w /\ at[x] = "team"
  <2>1. x \in InTeam(u) /\ at[x] = "team"
    BY DEF TeamsCounted, Counted
  <2>2. x \in ToSet(Members[u])
    BY <2>1 DEF InTeam
  <2> QED
    BY <1>1, <1>2, <2>1, <2>2, MembersAreWorkers
<1>11. TeamsCounted'
  <2>1. ASSUME NEW u \in Teams
        PROVE  /\ Counted(teamLim'[u], InTeam(u)', TeamMax)
               /\ \A x \in ToSet(teamLim'[u].waiting) : at'[x] = "team"
    <3>1. CASE u = t
      BY <1>3, <1>8, <1>9, <1>10, <3>1
    <3>2. CASE u # t
      BY <1>3, <1>7, <1>9, <1>10, <3>2 DEF TeamsCounted
    <3> QED
      BY <3>1, <3>2
  <2> QED
    BY <1>9, <2>1 DEF TeamsCounted
<1> QED
  BY <1>6, <1>11

\* A worker that goes on keeps them.
LEMMA GoingOnCounted ==
  ASSUME LimitsInv, NEW w \in Workers, NEW to \in {"preparing", "working"},
         at' = [at EXCEPT ![w] = to], UNCHANGED <<sessionLim, teamLim>>,
         at[w] \in {"team", "preparing", "working"}, w \notin ToSet(teamLim[TeamOf(w)].waiting)
  PROVE  SessionCounted' /\ TeamsCounted'
<1> USE DEF LimitsInv, TreesInv
<1>1. \A x \in Workers : at'[x] = IF x = w THEN to ELSE at[x]
  BY DEF Shape
<1>2. Asking' = Asking /\ \A t \in Teams : InTeam(t)' = InTeam(t)
  <2>1. Asking' = Asking
    BY <1>1 DEF Asking, Underway
  <2>2. ASSUME NEW t \in Teams PROVE InTeam(t)' = InTeam(t)
    <3>1. \A x \in ToSet(Members[t]) : at'[x] = IF x = w THEN to ELSE at[x]
      BY <1>1, MembersAreWorkers
    <3> QED
      BY <3>1 DEF InTeam
  <2> QED
    BY <2>1, <2>2
<1>3. \A x \in ToSet(sessionLim.waiting) : x \in Workers /\ x # w
  BY DEF SessionCounted, Counted, Asking
<1>4. ASSUME NEW t \in Teams, NEW x \in ToSet(teamLim[t].waiting)
      PROVE  x \in Workers /\ x # w
  <2>1. x \in InTeam(t)
    BY DEF TeamsCounted, Counted
  <2>2. x \in ToSet(Members[t])
    BY <2>1 DEF InTeam
  <2> QED
    BY <2>2, TeamOfMember, MembersAreWorkers
<1> QED
  BY <1>1, <1>2, <1>3, <1>4 DEF SessionCounted, TeamsCounted

LEMMA WorkersKeepLimits ==
  ASSUME LimitsInv, NEW w \in Workers, WorkerStep(w)
  PROVE  LinedUp' /\ SessionCounted' /\ TeamsCounted'
<1> USE DEF LimitsInv, TreesInv
<1> DEFINE t == TeamOf(w)
<1>1. /\ t \in Teams /\ w \in ToSet(Members[t])
      /\ \A u \in Teams \ {t} : w \notin ToSet(Members[u])
  BY TeamOfMember
<1>2. LinedUp'
  BY WorkerMoves DEF teamVars, LinedUp
<1>3. \A x \in ToSet(teamLim[t].waiting) : at[x] = "team"
  BY <1>1 DEF TeamsCounted
<1>4. CASE EnterTeam(w)
  <2>1. /\ at[w] = "session" /\ w \notin ToSet(sessionLim.waiting) /\ sessionLim' = sessionLim
        /\ at' = [at EXCEPT ![w] = "team"]
        /\ teamLim' = [teamLim EXCEPT ![t] = Acquire(@, TeamMax, w)]
    BY <1>4 DEF EnterTeam
  <2> HIDE DEF t
  <2>2. \A x \in Workers : at'[x] = IF x = w THEN "team" ELSE at[x]
    BY <2>1 DEF Shape
  <2>3. Asking' = Asking
    BY <2>1, <2>2 DEF Asking, Underway
  <2>4. SessionCounted'
    <3>1. \A x \in ToSet(sessionLim.waiting) : x \in Workers /\ x # w
      BY <2>1 DEF SessionCounted, Counted, Asking
    <3> QED
      BY <2>1, <2>2, <2>3, <3>1 DEF SessionCounted
  <2>5. /\ InTeam(t)' = InTeam(t) \cup {w} /\ w \in Workers \ InTeam(t)
        /\ \A u \in Teams \ {t} : InTeam(u)' = InTeam(u)
    BY <1>1, <2>1, <2>2, MembersAreWorkers DEF InTeam
  <2>6. /\ Counted(Acquire(teamLim[t], TeamMax, w), InTeam(t)', TeamMax)
        /\ ToSet(Acquire(teamLim[t], TeamMax, w).waiting) \subseteq ToSet(teamLim[t].waiting) \cup {w}
    <3>1. TeamMax \in Nat /\ Counted(teamLim[t], InTeam(t), TeamMax)
      BY <1>1, TeamAssumption DEF TeamsCounted
    <3> QED
      BY <2>5, <3>1, AcquireCounted
  <2>7. /\ teamLim'[t] = Acquire(teamLim[t], TeamMax, w)
        /\ \A u \in Teams \ {t} : teamLim'[u] = teamLim[u]
        /\ teamLim' = [u \in Teams |-> teamLim'[u]]
    BY <1>1, <2>1 DEF TeamsCounted
  <2>8. \A u \in Teams : \A x \in ToSet(teamLim[u].waiting) : x \in Workers /\ at[x] = "team"
    BY MembersAreWorkers DEF TeamsCounted, Counted, InTeam
  <2>9. ASSUME NEW u \in Teams
        PROVE  /\ Counted(teamLim'[u], InTeam(u)', TeamMax)
               /\ \A x \in ToSet(teamLim'[u].waiting) : at'[x] = "team"
    <3>1. CASE u = t
      BY <2>2, <2>6, <2>7, <2>8, <3>1
    <3>2. CASE u # t
      BY <2>2, <2>5, <2>7, <2>8, <3>2 DEF TeamsCounted
    <3> QED
      BY <3>1, <3>2
  <2> QED
    BY <1>2, <2>4, <2>7, <2>9 DEF TeamsCounted
<1>5. CASE StartWorker(w)
  BY <1>2, <1>5, LeavingCounted, GoingOnCounted DEF StartWorker
<1>6. CASE WorkerBegins(w)
  BY <1>2, <1>3, <1>6, LeavingCounted, GoingOnCounted DEF WorkerBegins
<1>7. CASE Heal(w)
  BY <1>2, <1>7 DEF Heal, SessionCounted, TeamsCounted, Asking, InTeam
<1>8. CASE WorkerEnds(w)
  BY <1>2, <1>3, <1>8, LeavingCounted DEF WorkerEnds
<1> QED
  BY <1>4, <1>5, <1>6, <1>7, <1>8 DEF WorkerStep

LEMMA NextLimits == LimitsInv /\ [Next]_vars => LimitsInv'
<1> SUFFICES ASSUME LimitsInv, [Next]_vars PROVE LimitsInv'
  OBVIOUS
<1>1. TreesInv'
  BY TeamsKeepTrees, WorkersKeepTrees, GatherKeepsTrees DEF Next, LimitsInv
<1>2. CASE Gather \/ Stop \/ UNCHANGED vars
  <2>1. UNCHANGED <<roster, at, sessionLim, teamLim>>
    BY <1>2 DEF Gather, Join, SynthesisBegins, SynthesisReturns, Stop, vars, teamVars, workVars
  <2> QED
    BY <1>1, <2>1 DEF LimitsInv, LinedUp, SessionCounted, TeamsCounted, Asking, InTeam
<1> QED
  BY <1>1, <1>2, TeamsKeepLimits, WorkersKeepLimits DEF Next, LimitsInv

\* Workers of any number of teams that wait at the session's limiter and then,
\* with its slot in hand, at their team's, that start, fail before or in their
\* work and hand both slots over, are never more at work than max_concurrent_agents
\* and, of one team and with its lead, reviews, retries and seniors, than
\* max_concurrent_per_team: runTeamStep's sessionLimiter.run(() =>
\* teamLimiter.run(...)).  The agents outside the limiters are at work only in
\* teams whose workers are not, so they are less than the teams in number.
THEOREM LimitsHold == Spec => []LimitsHeld
<1>1. LimitsInv => LimitsHeld
  <2> SUFFICES ASSUME LimitsInv PROVE LimitsHeld
    OBVIOUS
  <2>1. /\ Counted(sessionLim, Asking, SessionMax)
        /\ \A t \in Teams : Counted(teamLim[t], InTeam(t), TeamMax)
    BY DEF LimitsInv, SessionCounted, TeamsCounted
  <2>2. ASSUME NEW lim, NEW asked, NEW max \in Nat, Counted(lim, asked, max),
               NEW some, some \subseteq asked \ ToSet(lim.waiting)
        PROVE  Cardinality(some) <= max
    <3>1. IsFiniteSet(asked \ ToSet(lim.waiting))
      BY <2>2, FS_Difference DEF Counted
    <3>2. /\ Cardinality(some) <= Cardinality(asked \ ToSet(lim.waiting))
          /\ IsFiniteSet(some)
      BY <2>2, <3>1, FS_Subset
    <3>3. Cardinality(some) \in Nat
      BY <3>2, FS_CardinalityType
    <3> QED
      BY <2>2, <3>2, <3>3 DEF Counted
  <2>3. Busy \subseteq Asking \ ToSet(sessionLim.waiting)
    BY DEF LimitsInv, SessionCounted, Asking, Busy, Underway
  <2>4. ASSUME NEW t \in Teams
        PROVE  {w \in Busy : TeamOf(w) = t} \subseteq InTeam(t) \ ToSet(teamLim[t].waiting)
    BY TeamOfMember DEF LimitsInv, TeamsCounted, InTeam, Busy
  <2>5. SessionMax \in Nat /\ TeamMax \in Nat
    BY TeamAssumption
  <2>6. Cardinality(Busy) <= SessionMax
    BY <2>1, <2>2, <2>3, <2>5
  <2>7. \A t \in Teams : Cardinality({w \in Busy : TeamOf(w) = t}) <= TeamMax
    BY <2>1, <2>2, <2>4, <2>5
  <2>8. /\ Directed \subseteq Teams /\ Busy \subseteq Workers /\ Teams \cap Workers = {}
        /\ \A w \in Busy : TeamOf(w) \in Teams \ Directed
    BY TeamOfMember, TeamAssumption
    DEF Directed, Busy, LimitsInv, TreesInv, Rostered, Underway
  <2>9. ASSUME NEW t \in Teams PROVE Cardinality(AgentsOf(t)) <= TeamMax
    <3>1. CASE t \in Directed
      <4>1. AgentsOf(t) = {t}
        BY <2>8, <3>1 DEF AgentsOf
      <4>2. Cardinality({t}) = 1
        BY FS_Singleton
      <4>3. 1 <= TeamMax
        BY TeamAssumption
      <4> QED
        BY <4>1, <4>2, <4>3
    <3>2. CASE t \notin Directed
      <4>1. AgentsOf(t) = {w \in Busy : TeamOf(w) = t}
        BY <3>2 DEF AgentsOf
      <4> QED
        BY <2>7, <4>1
    <3> QED
      BY <3>1, <3>2
  <2>10. /\ IsFiniteSet(Teams) /\ Cardinality(Teams) \in Nat
         /\ IsFiniteSet(Directed) /\ Cardinality(Directed) \in Nat
         /\ Cardinality(Directed) <= Cardinality(Teams)
    BY <2>8, TeamAssumption, FS_Subset, FS_CardinalityType
  <2>11. /\ IsFiniteSet(Busy) /\ Cardinality(Busy) \in Nat
    <3>1. IsFiniteSet(Asking)
      BY <2>1 DEF Counted
    <3>2. Busy \subseteq Asking
      BY <2>3
    <3> QED
      BY <3>1, <3>2, FS_Subset, FS_CardinalityType
  <2>12. ASSUME Agents # {} PROVE Cardinality(Agents) < SessionMax + Cardinality(Teams)
    <3>1. CASE Busy = {}
      <4>1. Agents = Directed
        BY <3>1 DEF Agents
      <4> QED
        BY <2>10, <4>1, TeamAssumption
    <3>2. CASE Busy # {}
      <4>1. PICK w \in Busy : TRUE
        BY <3>2
      <4> DEFINE t == TeamOf(w)
      <4>2. t \in Teams /\ Directed \subseteq Teams \ {t}
        BY <2>8, <4>1
      <4> HIDE DEF t
      <4>3. /\ Cardinality(Teams \ {t}) = Cardinality(Teams) - 1
            /\ IsFiniteSet(Teams \ {t})
        BY <2>10, <4>2, FS_RemoveElement
      <4>4. Cardinality(Directed) <= Cardinality(Teams) - 1
        BY <4>2, <4>3, FS_Subset
      <4>5. Cardinality(Agents) = Cardinality(Busy) + Cardinality(Directed)
                                  - Cardinality(Busy \cap Directed)
        BY <2>10, <2>11, FS_Union DEF Agents
      <4>6. Busy \cap Directed = {} /\ Cardinality({}) = 0
        BY <2>8, FS_EmptySet
      <4> DEFINE a == Cardinality(Agents)  b == Cardinality(Busy)  d == Cardinality(Directed)
                 e == Cardinality(Busy \cap Directed)  n == Cardinality(Teams)
      <4>7. /\ a = b + d - e /\ e = 0 /\ b <= SessionMax /\ d <= n - 1
            /\ b \in Nat /\ d \in Nat /\ n \in Nat /\ SessionMax \in Nat
        BY <2>5, <2>6, <2>10, <2>11, <4>4, <4>5, <4>6
      <4> HIDE DEF a, b, d, e, n
      <4>8. a < SessionMax + n
        BY <4>7
      <4> QED
        BY <4>8 DEF a, n
    <3> QED
      BY <3>1, <3>2
  <2> QED
    BY <2>6, <2>9, <2>12 DEF LimitsHeld
<1> QED
  BY <1>1, InitLimits, NextLimits, PTL DEF Spec

-----------------------------------------------------------------------------
(* What is spent.                                                          *)

Over == MaxRetries + 1
Purses == IF TeamTrees THEN Teams ELSE {Main}

\* The reviews a team has had at most, and those paid from one purse.
Reviews(t) == IF place[t] = "returned" THEN cycle[t] + 1 ELSE cycle[t]
Reviewed(p) == {x \in Teams \X (1 .. Over) : Purse(x[1]) = p /\ x[2] <= Reviews(x[1])}

CyclesCounted ==
  /\ cycle = [t \in Teams |-> cycle[t]]
  /\ \A t \in Teams : cycle[t] \in 0 .. MaxRetries

PaidFor ==
  /\ cost = [p \in Teams \cup {Main} |-> cost[p]]
  /\ \A p \in Purses : cost[p] \in Nat /\ cost[p] < SessionLimit + Cardinality(Reviewed(p))

CostsInv == LimitsInv /\ CyclesCounted /\ PaidFor

LEMMA PairsAreFinite == IsFiniteSet(Teams \X (1 .. Over))
<1>1. Over \in Int /\ 1 \in Int
  BY TeamAssumption DEF Over
<1>2. IsFiniteSet(1 .. Over)
  BY <1>1, FS_Interval
<1> QED
  BY <1>2, TeamAssumption, FS_Product

LEMMA ReviewedIsFinite ==
  \A p : IsFiniteSet(Reviewed(p)) /\ Cardinality(Reviewed(p)) \in Nat
<1>1. IsFiniteSet(Teams \X (1 .. Over))
  BY PairsAreFinite
<1>2. \A p : Reviewed(p) \subseteq Teams \X (1 .. Over)
  BY DEF Reviewed
<1>3. \A p : IsFiniteSet(Reviewed(p))
  BY <1>1, <1>2, FS_Subset
<1> QED
  BY <1>3, FS_CardinalityType

LEMMA PursesOfTeams ==
  \A t \in Teams : Purse(t) \in Purses /\ Purse(t) \in Teams \cup {Main}
  BY DEF Purse, Purses

\* Of n costs, those that are added keep the total below the limit.
LEMMA PayableIsBelow ==
  ASSUME NEW total \in Nat, NEW n \in Nat
  PROVE  /\ Payable(total, n) \in 0 .. n
         /\ Payable(total, n) = 0 \/ total + Payable(total, n) < SessionLimit
<1> DEFINE Ends(m) == /\ \A k \in 0 .. m - 1 : ~B!Refuses(total + k, 1)
                      /\ m = n \/ B!Refuses(total + m, 1)
<1>1. \A m \in 0 .. n : B!Refuses(total + m, 1) <=> 1 > AgentLimit \/ total + m + 1 >= SessionLimit
  BY DEF B!Refuses
<1>2. SessionLimit \in Nat \ {0} /\ AgentLimit \in Nat
  BY TeamAssumption
<1>3. \E m \in 0 .. n : Ends(m)
  <2>1. CASE 1 > AgentLimit \/ total + 1 >= SessionLimit
    <3>1. 0 \in 0 .. n /\ B!Refuses(total + 0, 1)
      BY <1>1, <1>2, <2>1
    <3>2. Ends(0)
      BY <3>1
    <3> QED
      BY <3>1, <3>2
  <2>2. CASE ~(1 > AgentLimit) /\ total + 1 < SessionLimit
    <3> DEFINE room == SessionLimit - 1 - total
    <3>1. CASE n <= room
      <4>1. n \in 0 .. n
        OBVIOUS
      <4>2. \A k \in 0 .. n - 1 : ~B!Refuses(total + k, 1)
        <5>1. \A k \in 0 .. n - 1 : k \in 0 .. n /\ ~(total + k + 1 >= SessionLimit)
          BY <1>2, <3>1
        <5> QED
          BY <1>1, <2>2, <5>1
      <4> QED
        BY <4>1, <4>2
    <3>2. CASE room < n
      <4>1. room \in 0 .. n
        BY <1>2, <2>2, <3>2
      <4>2. \A k \in 0 .. room - 1 : ~B!Refuses(total + k, 1)
        <5>1. \A k \in 0 .. room - 1 : k \in 0 .. n /\ ~(total + k + 1 >= SessionLimit)
          BY <1>2, <3>2
        <5> QED
          BY <1>1, <2>2, <5>1
      <4>3. B!Refuses(total + room, 1)
        <5>1. total + room + 1 >= SessionLimit
          BY <1>2
        <5> QED
          BY <1>1, <4>1, <5>1
      <4> QED
        BY <4>1, <4>2, <4>3
    <3> QED
      BY <1>2, <3>1, <3>2
  <2> QED
    BY <1>2, <2>1, <2>2
<1> DEFINE m == CHOOSE i \in 0 .. n : Ends(i)
<1>4. m \in 0 .. n /\ Ends(m)
  <2> HIDE DEF Ends
  <2> QED
    BY <1>3
<1>5. Payable(total, n) = m
  BY DEF Payable
<1> HIDE DEF m
<1>6. m = 0 \/ total + m < SessionLimit
  <2>1. CASE m > 0
    <3>1. m - 1 \in 0 .. m - 1 /\ m - 1 \in 0 .. n
      BY <1>4, <2>1
    <3>2. ~B!Refuses(total + (m - 1), 1)
      BY <1>4, <3>1
    <3>3. ~(total + (m - 1) + 1 >= SessionLimit)
      BY <1>1, <3>1, <3>2
    <3> QED
      BY <1>2, <1>4, <3>3
  <2> QED
    BY <1>4, <2>1
<1> QED
  BY <1>4, <1>5, <1>6

LEMMA InitCosts == Init => CostsInv
<1> SUFFICES ASSUME Init PROVE CostsInv
  OBVIOUS
<1>1. CyclesCounted
  BY TeamAssumption DEF Init, CyclesCounted
<1>2. cost = [p \in Teams \cup {Main} |-> 0] /\ SessionLimit \in Nat \ {0}
  BY TeamAssumption DEF Init
<1>3. \A p \in Purses : p \in Teams \cup {Main}
  BY DEF Purses
<1>4. PaidFor
  BY <1>2, <1>3, ReviewedIsFinite DEF PaidFor
<1> QED
  BY <1>1, <1>4, InitLimits DEF CostsInv

\* The teams' reviews never become fewer, and a cost that was looked at is
\* below the limit.
LEMMA PaidForKept ==
  ASSUME CostsInv, UNCHANGED setting, NEW q \in Teams \cup {Main}, NEW n \in Nat,
         \A t \in Teams : Reviews(t) \in Nat /\ Reviews(t)' \in Nat /\ Reviews(t) <= Reviews(t)',
         cost' = [cost EXCEPT ![q] = @ + n],
         q \in Purses => n = 0 \/ cost[q] + n < SessionLimit
  PROVE  PaidFor'
<1> USE DEF CostsInv
<1>1. Purses' = Purses /\ \A t \in Teams : Purse(t)' = Purse(t)
  BY DEF Purses, Purse, TeamTrees, setting
<1>2. cost = [p \in Teams \cup {Main} |-> cost[p]]
  BY DEF PaidFor
<1>3. \A p \in Teams \cup {Main} : cost'[p] = IF p = q THEN cost[q] + n ELSE cost[p]
  BY <1>2
<1>4. ASSUME NEW p \in Purses
      PROVE  cost'[p] \in Nat /\ cost'[p] < SessionLimit + Cardinality(Reviewed(p)')
  <2>1. Reviewed(p) \subseteq Reviewed(p)'
    <3>1. ASSUME NEW x \in Reviewed(p) PROVE x \in Reviewed(p)'
      <4>1. /\ x \in Teams \X (1 .. Over) /\ Purse(x[1]) = p /\ x[2] <= Reviews(x[1])
            /\ x[1] \in Teams /\ x[2] \in 1 .. Over
        BY DEF Reviewed
      <4>2. x[2] <= Reviews(x[1])'
        BY <4>1
      <4> QED
        BY <1>1, <4>1, <4>2 DEF Reviewed
    <3> QED
      BY <3>1
  <2>2. IsFiniteSet(Reviewed(p)')
    <3>1. Reviewed(p)' \subseteq Teams \X (1 .. Over)
      BY DEF Reviewed
    <3> QED
      BY <3>1, PairsAreFinite, FS_Subset
  <2>3. /\ Cardinality(Reviewed(p)) <= Cardinality(Reviewed(p)')
        /\ Cardinality(Reviewed(p)) \in Nat /\ Cardinality(Reviewed(p)') \in Nat
    BY <2>1, <2>2, ReviewedIsFinite, FS_Subset, FS_CardinalityType
  <2>4. /\ cost[p] \in Nat /\ cost[p] < SessionLimit + Cardinality(Reviewed(p))
        /\ p \in Teams \cup {Main} /\ SessionLimit \in Nat
    BY TeamAssumption DEF PaidFor, Purses
  <2>5. CASE p = q
    BY <1>3, <2>3, <2>4, <2>5
  <2>6. CASE p # q
    BY <1>3, <2>3, <2>4, <2>6
  <2> QED
    BY <2>5, <2>6
<1>5. cost' = [p \in Teams \cup {Main} |-> cost'[p]]
  BY <1>2
<1> QED
  BY <1>1, <1>4, <1>5 DEF PaidFor

\* A review is paid for, and counted.
LEMMA PaidForReviewed ==
  ASSUME CostsInv, UNCHANGED setting, NEW t \in Teams,
         \A u \in Teams : Reviews(u) \in Nat /\ Reviews(u)' \in Nat,
         \A u \in Teams \ {t} : Reviews(u)' = Reviews(u),
         Reviews(t)' = Reviews(t) + 1, Reviews(t) + 1 <= Over,
         cost' = [cost EXCEPT ![Purse(t)] = @ + 1]
  PROVE  PaidFor'
<1> USE DEF CostsInv
<1> DEFINE q == Purse(t)  new == <<t, Reviews(t) + 1>>
<1>1. Purses' = Purses /\ \A u \in Teams : Purse(u)' = Purse(u)
  BY DEF Purses, Purse, TeamTrees, setting
<1>2. cost = [p \in Teams \cup {Main} |-> cost[p]] /\ q \in Teams \cup {Main}
  BY PursesOfTeams DEF PaidFor
<1> HIDE DEF q
<1>3. \A p \in Teams \cup {Main} : cost'[p] = IF p = q THEN cost[q] + 1 ELSE cost[p]
  BY <1>2 DEF q
<1>4. ASSUME NEW x \in Teams \X (1 .. Over)
      PROVE  x[2] <= Reviews(x[1])' <=> x[2] <= Reviews(x[1]) \/ x = new
  <2>1. x[1] \in Teams /\ x[2] \in Nat /\ x = <<x[1], x[2]>>
    OBVIOUS
  <2>2. CASE x[1] # t
    <3>1. Reviews(x[1])' = Reviews(x[1]) /\ x # new
      BY <2>1, <2>2
    <3> QED
      BY <3>1
  <2>3. CASE x[1] = t
    <3>1. x = new <=> x[2] = Reviews(t) + 1
      BY <2>1, <2>3
    <3>2. Reviews(t) \in Nat /\ Reviews(t)' = Reviews(t) + 1
      OBVIOUS
    <3>3. x[2] <= Reviews(t) + 1 <=> x[2] <= Reviews(t) \/ x[2] = Reviews(t) + 1
      BY <2>1, <3>2
    <3> QED
      BY <2>3, <3>1, <3>2, <3>3
  <2> QED
    BY <2>2, <2>3
<1>5. new \in Teams \X (1 .. Over) /\ new \notin Reviewed(q) /\ new[1] = t
  <2>1. Reviews(t) + 1 \in 1 .. Over /\ ~(Reviews(t) + 1 <= Reviews(t))
    BY TeamAssumption DEF Over
  <2> QED
    BY <2>1 DEF Reviewed
<1> HIDE DEF new
<1>6. ASSUME NEW p \in Purses
      PROVE  cost'[p] \in Nat /\ cost'[p] < SessionLimit + Cardinality(Reviewed(p)')
  <2>1. /\ cost[p] \in Nat /\ cost[p] < SessionLimit + Cardinality(Reviewed(p))
        /\ p \in Teams \cup {Main} /\ SessionLimit \in Nat
        /\ IsFiniteSet(Reviewed(p)) /\ Cardinality(Reviewed(p)) \in Nat
    BY TeamAssumption, ReviewedIsFinite DEF PaidFor, Purses
  <2>2. CASE p = q
    <3>1. Reviewed(p)' = Reviewed(p) \cup {new}
      BY <1>1, <1>4, <1>5, <2>2 DEF Reviewed, q
    <3>2. Cardinality(Reviewed(p)') = Cardinality(Reviewed(p)) + 1
      BY <1>5, <2>1, <2>2, <3>1, FS_AddElement
    <3> QED
      BY <1>3, <2>1, <2>2, <3>2
  <2>3. CASE p # q
    <3>1. Reviewed(p)' = Reviewed(p)
      BY <1>1, <1>4, <1>5, <2>3 DEF Reviewed, q
    <3> QED
      BY <1>3, <2>1, <2>3, <3>1
  <2> QED
    BY <2>2, <2>3
<1>7. cost' = [p \in Teams \cup {Main} |-> cost'[p]]
  BY <1>2
<1> QED
  BY <1>1, <1>6, <1>7 DEF PaidFor

LEMMA TeamsAreCounted ==
  ASSUME LimitsInv, NEW t \in Teams
  PROVE  /\ \A S \in SUBSET ToSet(roster[t]) : IsFiniteSet(S) /\ Cardinality(S) \in Nat
<1>1. roster[t] \in Seq(Workers) /\ IsInjective(roster[t])
  BY DEF LimitsInv, LinedUp
<1>2. Len(roster[t]) \in 0 .. Len(roster[t]) /\ ToSet(roster[t]) = FirstOf(roster[t], Len(roster[t]))
  BY <1>1 DEF ToSet, FirstOf
<1>3. IsFiniteSet(ToSet(roster[t]))
  BY <1>1, <1>2, FirstCounted
<1> QED
  BY <1>3, FS_Subset, FS_CardinalityType

LEMMA NextCycleCounts ==
  ASSUME LimitsInv, CyclesCounted, NEW t \in Teams, NEW v, NextCycle(t, v),
         place[t] \notin {"returned", "threw"}
  PROVE  /\ CyclesCounted' /\ \A u \in Teams \ {t} : cycle'[u] = cycle[u]
         /\ Reviews(t)' = cycle[t] + 1
<1>1. place \in [Teams -> PlaceState] /\ cycle[t] \in 0 .. MaxRetries /\ MaxRetries \in Nat
      /\ cycle = [u \in Teams |-> cycle[u]]
  BY TeamAssumption DEF LimitsInv, TreesInv, Shape, CyclesCounted
<1>2. \/ /\ cycle[t] < MaxRetries /\ cycle' = [cycle EXCEPT ![t] = @ + 1]
         /\ place' = [place EXCEPT ![t] = "retrying"]
      \/ cycle' = cycle /\ place' = [place EXCEPT ![t] = "returned"]
  BY DEF NextCycle
<1>3. CASE /\ cycle[t] < MaxRetries /\ cycle' = [cycle EXCEPT ![t] = @ + 1]
           /\ place' = [place EXCEPT ![t] = "retrying"]
  <2>1. /\ cycle'[t] = cycle[t] + 1 /\ \A u \in Teams \ {t} : cycle'[u] = cycle[u]
        /\ cycle' = [u \in Teams |-> cycle'[u]] /\ place'[t] = "retrying"
    BY <1>1, <1>3
  <2>2. cycle[t] + 1 \in 0 .. MaxRetries
    BY <1>1, <1>3
  <2> QED
    BY <2>1, <2>2 DEF CyclesCounted, Reviews
<1>4. CASE cycle' = cycle /\ place' = [place EXCEPT ![t] = "returned"]
  <2>1. place'[t] = "returned"
    BY <1>1, <1>4
  <2> QED
    BY <1>4, <2>1 DEF CyclesCounted, Reviews
<1> QED
  BY <1>2, <1>3, <1>4

\* What a step of a team costs: nothing, or what was looked at first, or a review.
LEMMA TeamSpends ==
  ASSUME CostsInv, NEW t \in Teams, TeamStep(t)
  PROVE  /\ CyclesCounted' /\ \A u \in Teams \ {t} : cycle'[u] = cycle[u]
         /\ Reviews(t)' \in {cycle[t], cycle[t] + 1}
         /\ \/ cost' = cost
            \/ \E n \in Nat : /\ cost' = [cost EXCEPT ![Purse(t)] = @ + n]
                              /\ n = 0 \/ cost[Purse(t)] + n < SessionLimit
            \/ cost' = [cost EXCEPT ![Purse(t)] = @ + 1] /\ Reviews(t)' = cycle[t] + 1
<1> USE DEF CostsInv
<1>1. /\ cost[Purse(t)] \in Nat /\ SessionLimit \in Nat \ {0} /\ cycle[t] \in Nat
      /\ place[t] \notin {"returned", "threw"} /\ 1 \in Nat
      /\ \A u \in Teams \ {t} : place'[u] = place[u]
  <2>1. cost[Purse(t)] \in Nat
    BY PursesOfTeams DEF PaidFor
  <2>2. SessionLimit \in Nat \ {0} /\ cycle[t] \in Nat
    BY TeamAssumption DEF CyclesCounted
  <2>3. place[t] \notin {"returned", "threw"} /\ \A u \in Teams \ {t} : place'[u] = place[u]
    BY TeamMoves DEF LimitsInv, TreesInv, Moves
  <2> QED
    BY <2>1, <2>2, <2>3
<1>2. ~B!Refuses(cost[Purse(t)], 1) => cost[Purse(t)] + 1 < SessionLimit
  BY <1>1 DEF B!Refuses
<1>3. ASSUME cycle' = cycle
      PROVE  /\ CyclesCounted' /\ \A u \in Teams \ {t} : cycle'[u] = cycle[u]
             /\ Reviews(t)' \in {cycle[t], cycle[t] + 1}
  BY <1>3 DEF CyclesCounted, Reviews
<1>4. CASE Fork(t) \/ StartTeam(t) \/ LeadBegins(t) \/ SpawnWorkers(t) \/ TakeUp(t)
  BY <1>3, <1>4 DEF Fork, StartTeam, LeadBegins, SpawnWorkers, TakeUp
<1>5. CASE LeadReturns(t)
  <2>1. /\ cycle' = cycle
        /\ \/ cost' = cost
           \/ ~B!Refuses(cost[Purse(t)], 1) /\ cost' = [cost EXCEPT ![Purse(t)] = @ + 1]
    BY <1>5 DEF LeadReturns
  <2> QED
    BY <1>1, <1>2, <1>3, <2>1
<1>6. CASE Settle(t)
  <2> DEFINE done == {w \in ToSet(roster[t]) : at[w] = "returned"}
             paid == Payable(cost[Purse(t)], Cardinality(done))
  <2>1. cycle' = cycle /\ (cost' = cost \/ cost' = [cost EXCEPT ![Purse(t)] = @ + paid])
    BY <1>6 DEF Settle
  <2>2. Cardinality(done) \in Nat
    BY TeamsAreCounted
  <2> HIDE DEF done
  <2>3. paid \in Nat /\ (paid = 0 \/ cost[Purse(t)] + paid < SessionLimit)
    BY <1>1, <2>2, PayableIsBelow
  <2> HIDE DEF paid
  <2> QED
    BY <1>3, <2>1, <2>3
<1>7. CASE ReviewReturns(t)
  <2>1. \/ cycle' = cycle /\ cost' = cost
        \/ cost' = [cost EXCEPT ![Purse(t)] = @ + 1] /\ NextCycle(t, verdict')
    BY <1>7 DEF ReviewReturns
  <2> QED
    BY <1>1, <1>3, <2>1, NextCycleCounts
<1>8. CASE RetryReturns(t) \/ SeniorReturns(t)
  <2>1. /\ cycle' = cycle
        /\ \/ cost' = cost
           \/ ~B!Refuses(cost[Purse(t)], 1) /\ cost' = [cost EXCEPT ![Purse(t)] = @ + 1]
    BY <1>8 DEF RetryReturns, SeniorReturns, ReworkReturns
  <2> QED
    BY <1>1, <1>2, <1>3, <2>1
<1>9. CASE EndCycle(t)
  <2>1. cost' = cost /\ (cycle' = cycle \/ NextCycle(t, verdict))
    BY <1>9 DEF EndCycle
  <2> QED
    BY <1>1, <1>3, <2>1, NextCycleCounts
<1> QED
  BY <1>4, <1>5, <1>6, <1>7, <1>8, <1>9 DEF TeamStep

LEMMA TeamsKeepCosts ==
  ASSUME CostsInv, NEW t \in Teams, TeamStep(t)
  PROVE  CyclesCounted' /\ PaidFor'
<1>1. /\ UNCHANGED setting /\ \A u \in Teams \ {t} : place'[u] = place[u]
      /\ place[t] # "returned" /\ MaxRetries \in Nat
      /\ Purse(t) \in Purses /\ Purse(t) \in Teams \cup {Main}
  BY TeamMoves, TeamAssumption, PursesOfTeams DEF CostsInv, LimitsInv, TreesInv, Moves
<1>2. /\ CyclesCounted /\ CyclesCounted' /\ \A u \in Teams \ {t} : cycle'[u] = cycle[u]
      /\ Reviews(t)' \in {cycle[t], cycle[t] + 1}
  BY TeamSpends DEF CostsInv
<1>3. \A u \in Teams : cycle[u] \in Nat /\ cycle[u] + 1 <= Over
  BY <1>1, <1>2 DEF CyclesCounted, Over
<1>4. /\ \A u \in Teams \ {t} : Reviews(u)' = Reviews(u)
      /\ Reviews(t) = cycle[t]
  BY <1>1, <1>2 DEF Reviews
<1>5. \A u \in Teams : Reviews(u) \in Nat
  BY <1>3 DEF Reviews
<1>6. \A u \in Teams : Reviews(u)' \in Nat /\ Reviews(u) <= Reviews(u)'
  BY <1>2, <1>3, <1>4, <1>5
<1>7. CASE cost' = cost
  <2>1. cost' = [cost EXCEPT ![Purse(t)] = @ + 0]
    <3>1. cost[Purse(t)] \in Nat /\ cost = [p \in Teams \cup {Main} |-> cost[p]]
      BY <1>1 DEF CostsInv, PaidFor
    <3> DEFINE q == Purse(t)  all == Teams \cup {Main}
    <3>2. cost[q] + 0 = cost[q] /\ q \in all
      BY <1>1, <3>1
    <3> HIDE DEF q, all
    <3>3. cost = [cost EXCEPT ![q] = cost[q]]
      BY <3>1, <3>2 DEF all
    <3> QED
      BY <1>7, <3>2, <3>3 DEF q
  <2> QED
    BY <1>1, <1>2, <1>5, <1>6, <2>1, PaidForKept
<1>8. CASE \E n \in Nat : /\ cost' = [cost EXCEPT ![Purse(t)] = @ + n]
                          /\ n = 0 \/ cost[Purse(t)] + n < SessionLimit
  BY <1>1, <1>2, <1>5, <1>6, <1>8, PaidForKept
<1>9. CASE cost' = [cost EXCEPT ![Purse(t)] = @ + 1] /\ Reviews(t)' = cycle[t] + 1
  <2>1. Reviews(t)' = Reviews(t) + 1 /\ Reviews(t) + 1 <= Over
    BY <1>3, <1>4, <1>9
  <2> QED
    BY <1>1, <1>2, <1>4, <1>5, <1>6, <1>9, <2>1, PaidForReviewed
<1> QED
  BY <1>7, <1>8, <1>9, TeamSpends

\* Nothing else costs more than what it has looked at, and the join adds to the
\* session what its copies have spent when no team will spend any more.
LEMMA OthersKeepCosts ==
  ASSUME CostsInv, \/ \E w \in Workers : WorkerStep(w)
                   \/ Gather \/ Stop \/ UNCHANGED vars
  PROVE  CyclesCounted' /\ PaidFor'
<1> USE DEF CostsInv
<1>1. UNCHANGED <<setting, teamVars>>
  <2>1. CASE \E w \in Workers : WorkerStep(w)
    BY <2>1, WorkerMoves DEF LimitsInv, TreesInv
  <2>2. CASE Gather \/ Stop \/ UNCHANGED vars
    BY <2>2 DEF Gather, Join, SynthesisBegins, SynthesisReturns, Stop, vars, setting
  <2> QED
    BY <2>1, <2>2
<1>2. /\ CyclesCounted' /\ Purses' = Purses /\ Main \in Teams \cup {Main} /\ Main \notin Teams
      /\ \A p : Reviewed(p)' = Reviewed(p)
  BY <1>1, TeamAssumption
  DEF teamVars, setting, CyclesCounted, Purses, Reviewed, Purse, Reviews, TeamTrees
<1>3. \A u \in Teams : Reviews(u) \in Nat /\ Reviews(u)' \in Nat /\ Reviews(u) <= Reviews(u)'
  <2>1. \A u \in Teams : Reviews(u)' = Reviews(u) /\ cycle[u] \in Nat
    BY <1>1, TeamAssumption DEF teamVars, Reviews, CyclesCounted
  <2> QED
    BY <2>1 DEF Reviews
<1>4. CASE UNCHANGED cost
  BY <1>2, <1>4 DEF PaidFor
<1>5. CASE SynthesisReturns
  <2>1. \/ cost' = cost
        \/ ~B!Refuses(cost[Main], 1) /\ cost' = [cost EXCEPT ![Main] = @ + 1]
    BY <1>5 DEF SynthesisReturns
  <2>2. CASE ~B!Refuses(cost[Main], 1) /\ cost' = [cost EXCEPT ![Main] = @ + 1]
    <3>1. Main \in Purses => cost[Main] + 1 < SessionLimit
      <4>1. Main \in Purses => cost[Main] \in Nat
        BY DEF PaidFor
      <4> QED
        BY <2>2, <4>1, TeamAssumption DEF B!Refuses
    <3> QED
      BY <1>1, <1>2, <1>3, <2>2, <3>1, PaidForKept
  <2> QED
    BY <1>4, <2>1, <2>2
<1>6. CASE Join
  <2>1. CASE ~TeamTrees
    BY <1>4, <1>6, <2>1 DEF Join
  <2>2. CASE TeamTrees
    <3>1. /\ cost = [p \in Teams \cup {Main} |-> cost[p]] /\ Purses = Teams
          /\ cost' = [cost EXCEPT ![Main] = cost[Main] + FoldFunctionOnSet(+, 0, cost, Teams)]
      BY <1>6, <2>2 DEF Join, PaidFor, Purses
    <3>2. /\ cost' = [p \in Teams \cup {Main} |-> cost'[p]]
          /\ \A p \in Purses : cost'[p] = cost[p]
      BY <1>2, <3>1
    <3> QED
      BY <1>2, <3>2 DEF PaidFor
  <2> QED
    BY <2>1, <2>2
<1> QED
  <2>1. UNCHANGED cost \/ SynthesisReturns \/ Join
    BY DEF WorkerStep, EnterTeam, StartWorker, WorkerBegins, Heal, WorkerEnds, Gather,
       SynthesisBegins, Stop, vars
  <2> QED
    BY <1>4, <1>5, <1>6, <2>1

\* Until its teams are joined, a session, or the copy a team works on, never
\* spends its limit's worth more than the reviews nobody checks: one for each
\* team and cycle, whatever the leads, workers, retries and seniors cost, in
\* whatever order checkBudget is asked: checkBudget and leadReviewWorkers.
\* What the copies come to when they are added up is the run's to check.
THEOREM PursesAreBounded == Spec => []PurseBounded
<1>1. CostsInv /\ [Next]_vars => CostsInv'
  BY NextLimits, TeamsKeepCosts, OthersKeepCosts DEF Next, CostsInv
<1>2. CostsInv => PurseBounded
  <2> SUFFICES ASSUME CostsInv PROVE PurseBounded
    OBVIOUS
  <2>1. MaxRetries \in Nat /\ SessionLimit \in Nat /\ Over \in Nat /\ Over = MaxRetries + 1
        /\ Cardinality(1 .. Over) = Over /\ IsFiniteSet(1 .. Over)
    <3>1. MaxRetries \in Nat /\ SessionLimit \in Nat /\ Over \in Nat /\ Over = MaxRetries + 1
      BY TeamAssumption DEF Over
    <3>2. /\ Cardinality(1 .. Over) = IF 1 > Over THEN 0 ELSE Over - 1 + 1
          /\ IsFiniteSet(1 .. Over)
      BY <3>1, FS_Interval
    <3> QED
      BY <3>1, <3>2
  <2>2. CASE TeamTrees
    <3>1. ASSUME NEW t \in Teams PROVE cost[t] < SessionLimit + Over
      <4>1. cost[t] \in Nat /\ cost[t] < SessionLimit + Cardinality(Reviewed(t))
        BY <2>2 DEF CostsInv, PaidFor, Purses
      <4>2. Reviewed(t) \subseteq {t} \X (1 .. Over)
        BY <2>2 DEF Reviewed, Purse
      <4>3. /\ IsFiniteSet({t} \X (1 .. Over))
            /\ Cardinality({t} \X (1 .. Over)) = Cardinality({t}) * Cardinality(1 .. Over)
            /\ Cardinality({t}) = 1
        BY <2>1, FS_Singleton, FS_Product
      <4>4. Cardinality(Reviewed(t)) <= Cardinality({t} \X (1 .. Over))
        BY <4>2, <4>3, FS_Subset
      <4>5. Cardinality({t} \X (1 .. Over)) = Over
        BY <2>1, <4>3
      <4> QED
        BY <2>1, <4>1, <4>4, <4>5, ReviewedIsFinite
    <3> QED
      BY <2>1, <2>2, <3>1 DEF PurseBounded
  <2>3. CASE ~TeamTrees
    <3>1. cost[Main] \in Nat /\ cost[Main] < SessionLimit + Cardinality(Reviewed(Main))
      BY <2>3 DEF CostsInv, PaidFor, Purses
    <3>2. Reviewed(Main) \subseteq Teams \X (1 .. Over)
      BY DEF Reviewed
    <3>3. /\ Cardinality(Teams \X (1 .. Over)) = Cardinality(Teams) * Over
          /\ Cardinality(Teams) \in Nat
      BY <2>1, TeamAssumption, FS_Product, FS_CardinalityType
    <3>4. Cardinality(Reviewed(Main)) <= Cardinality(Teams \X (1 .. Over))
      BY <3>2, PairsAreFinite, FS_Subset
    <3> DEFINE n == Cardinality(Teams)  k == Over * n
    <3>5. k \in Nat /\ n * Over = k
      BY <2>1, <3>3
    <3> HIDE DEF n, k
    <3>6. cost[Main] < SessionLimit + k
      BY <2>1, <3>1, <3>3, <3>4, <3>5, ReviewedIsFinite DEF n
    <3> QED
      BY <2>1, <2>3, <3>6 DEF PurseBounded, n, k
  <2> QED
    BY <2>2, <2>3
<1> QED
  BY <1>1, <1>2, InitCosts, PTL DEF Spec

-----------------------------------------------------------------------------
(* What a verified result covers.                                          *)

Reports ==
  /\ verdict = [w \in Workers |-> verdict[w]]
  /\ scope = [t \in Teams |-> scope[t]] /\ grade = [t \in Teams |-> grade[t]]
  /\ \A t \in Teams : scope[t] \subseteq ToSet(Members[t])

\* A team on its way through the reviews: the worker without a result is one
\* that failed, and has been told to work again.
Covering(t) ==
  /\ place[t] \in {"forked", "ready", "preparing", "leading", "briefed", "working"} => cycle[t] = 0
  /\ place[t] \in {"retrying", "reworking"} => cycle[t] > 0
  /\ place[t] = "reviewing" =>
       /\ scope[t] \subseteq results
       /\ cycle[t] = 0 => \A w \in ToSet(roster[t]) :
                            at[w] = "threw" \/ (at[w] = "returned" /\ w \in results)
  /\ place[t] \in {"reviewing", "retrying", "reworking"} /\ cycle[t] > 0 /\ InOrder(t) =>
       \A w \in ToSet(roster[t]) \ results : verdict[w] = "REWORK"
  /\ grade[t] = "VERIFIED" =>
       place[t] = "returned" /\ (InOrder(t) => ToSet(roster[t]) \subseteq results)

CoverInv == CostsInv /\ Reports /\ \A t \in Teams : Covering(t)

\* A step that is not the team's own: results stay, those told to work again
\* are still told so, and nobody who has ended begins again.
LEMMA CoveringKept ==
  ASSUME NEW t \in Teams, Covering(t),
         place'[t] = place[t], cycle'[t] = cycle[t], roster'[t] = roster[t],
         scope'[t] = scope[t], grade'[t] = grade[t], results \subseteq results',
         \A w \in ToSet(roster[t]) : /\ at[w] \in {"returned", "threw"} => at'[w] = at[w]
                                     /\ verdict[w] = "REWORK" => verdict'[w] = "REWORK"
  PROVE  Covering(t)'
<1>1. InOrder(t)' = InOrder(t)
  BY DEF InOrder
<1>2. /\ place'[t] \in {"forked", "ready", "preparing", "leading", "briefed", "working"}
           => cycle'[t] = 0
      /\ place'[t] \in {"retrying", "reworking"} => cycle'[t] > 0
  BY DEF Covering
<1>3. place'[t] = "reviewing" =>
        /\ scope'[t] \subseteq results'
        /\ cycle'[t] = 0 => \A w \in ToSet(roster'[t]) :
                              at'[w] = "threw" \/ (at'[w] = "returned" /\ w \in results')
  BY DEF Covering
<1>4. place'[t] \in {"reviewing", "retrying", "reworking"} /\ cycle'[t] > 0 /\ InOrder(t)' =>
        \A w \in ToSet(roster'[t]) \ results' : verdict'[w] = "REWORK"
  BY <1>1 DEF Covering
<1>5. grade'[t] = "VERIFIED" =>
        place'[t] = "returned" /\ (InOrder(t)' => ToSet(roster'[t]) \subseteq results')
  BY <1>1 DEF Covering
<1> QED
  BY <1>2, <1>3, <1>4, <1>5 DEF Covering

\* One team's scope and grade have changed.
ReportsOn(t) ==
  /\ \A u \in Teams \ {t} : scope'[u] = scope[u] /\ grade'[u] = grade[u]
  /\ scope' = [u \in Teams |-> scope'[u]] /\ grade' = [u \in Teams |-> grade'[u]]
  /\ scope'[t] \subseteq ToSet(Members[t])

LEMMA NextCycleCovers ==
  ASSUME CoverInv, NEW t \in Teams, NextCycle(t, verdict'), roster' = roster, results' = results,
         place[t] \notin {"returned", "threw"},
         InOrder(t) => \A w \in ToSet(roster[t]) \ results : verdict'[w] = "REWORK"
  PROVE  Covering(t)' /\ ReportsOn(t)
<1> DEFINE needs == NeedsWork(t, verdict')
<1>1. /\ scope = [u \in Teams |-> scope[u]] /\ grade = [u \in Teams |-> grade[u]]
      /\ cycle = [u \in Teams |-> cycle[u]] /\ cycle[t] \in Nat
      /\ place \in [Teams -> PlaceState] /\ scope[t] \subseteq ToSet(Members[t])
      /\ ToSet(roster[t]) \subseteq ToSet(Members[t]) /\ grade[t] # "VERIFIED"
  BY TeamAssumption
  DEF CoverInv, Reports, CostsInv, CyclesCounted, LimitsInv, TreesInv, Shape, Rostered, Covering
<1>2. needs \subseteq ToSet(Members[t]) /\ InOrder(t)' = InOrder(t)
  BY DEF NeedsWork, InOrder
<1>3. needs = {} /\ InOrder(t) => ToSet(roster[t]) \subseteq results
  BY <1>1 DEF NeedsWork
<1> HIDE DEF needs
<1>4. CASE needs # {} /\ cycle[t] < MaxRetries
  <2>1. /\ cycle' = [cycle EXCEPT ![t] = @ + 1] /\ scope' = [scope EXCEPT ![t] = needs]
        /\ place' = [place EXCEPT ![t] = "retrying"] /\ grade' = grade
    BY <1>4 DEF NextCycle, needs
  <2>2. cycle'[t] > 0 /\ place'[t] = "retrying" /\ scope'[t] = needs
    BY <1>1, <2>1
  <2> QED
    BY <1>1, <1>2, <2>1, <2>2 DEF Covering, ReportsOn
<1>5. CASE ~(needs # {} /\ cycle[t] < MaxRetries)
  <2>1. /\ grade' = [grade EXCEPT ![t] = IF needs = {} THEN "VERIFIED" ELSE "FAILED"]
        /\ place' = [place EXCEPT ![t] = "returned"] /\ scope' = scope
    BY <1>5 DEF NextCycle, needs
  <2>2. place'[t] = "returned" /\ (grade'[t] = "VERIFIED" => needs = {})
    BY <1>1, <2>1
  <2> QED
    BY <1>1, <1>2, <1>3, <2>1, <2>2 DEF Covering, ReportsOn
<1> QED
  BY <1>4, <1>5

\* What a team's step leaves alone of the others' reports.
Aside(t) ==
  /\ Reports' /\ results \subseteq results'
  /\ \A u \in Teams \ {t} : scope'[u] = scope[u] /\ grade'[u] = grade[u] /\ roster'[u] = roster[u]
  /\ \A w \in Workers \ ToSet(Members[t]) :
       at'[w] = at[w] /\ (verdict[w] = "REWORK" => verdict'[w] = "REWORK")

\* A step that leaves a team no report, or none that is verified.
LEMMA ElsewhereCovers ==
  ASSUME NEW t \in Teams, place'[t] \notin {"reviewing", "retrying", "reworking"},
         grade'[t] # "VERIFIED", cycle'[t] = 0 \/ place'[t] \in {"threw", "returned"}
  PROVE  Covering(t)'
  BY DEF Covering

LEMMA TeamsCover ==
  ASSUME CoverInv, NEW t \in Teams, TeamStep(t)
  PROVE  Covering(t)' /\ Aside(t)
<1> USE DEF CoverInv
<1>1. /\ verdict = [w \in Workers |-> verdict[w]]
      /\ scope = [u \in Teams |-> scope[u]] /\ grade = [u \in Teams |-> grade[u]]
      /\ \A u \in Teams : scope[u] \subseteq ToSet(Members[u])
      /\ cycle[t] \in Nat /\ \A u \in Teams : ToSet(Members[u]) \subseteq Workers
      /\ ToSet(roster[t]) \subseteq ToSet(Members[t])
      /\ Shape /\ place \in [Teams -> PlaceState]
  BY MembersAreWorkers, TeamAssumption
  DEF Reports, CostsInv, CyclesCounted, LimitsInv, TreesInv, Rostered, Shape
<1>2. place[t] # "returned" => grade[t] # "VERIFIED"
  BY DEF Covering
<1>3. ASSUME UNCHANGED <<scope, grade, verdict, results, roster, at>> PROVE Aside(t)
  BY <1>3 DEF Aside, Reports
<1>4. CASE Fork(t) \/ StartTeam(t) \/ LeadBegins(t) \/ SpawnWorkers(t)
  <2>1. /\ place[t] \in {"forked", "ready", "preparing", "briefed"}
        /\ place'[t] \in {"ready", "threw", "preparing", "leading", "working"}
        /\ UNCHANGED <<scope, grade, verdict, results, roster, cycle>>
    <3>1. /\ place[t] \in {"forked", "ready", "preparing", "briefed"}
          /\ UNCHANGED <<scope, grade, verdict, results, roster, cycle>>
      BY <1>4 DEF Fork, StartTeam, LeadBegins, SpawnWorkers
    <3>2. place'[t] \in {"ready", "threw", "preparing", "leading", "working"}
      BY <1>1, <1>4 DEF Fork, StartTeam, LeadBegins, SpawnWorkers, Throw
    <3> QED
      BY <3>1, <3>2
  <2>2. \A w \in Workers \ ToSet(Members[t]) : at'[w] = at[w]
    BY <1>1, <1>4 DEF Fork, StartTeam, LeadBegins, SpawnWorkers, workVars
  <2>3. cycle'[t] = 0
    BY <2>1 DEF Covering
  <2>4. Aside(t)
    BY <2>1, <2>2 DEF Aside, Reports
  <2> QED
    BY <1>2, <2>1, <2>3, <2>4, ElsewhereCovers
<1>5. CASE LeadReturns(t)
  <2>1. /\ UNCHANGED <<scope, verdict, results, at, cycle>> /\ place[t] = "leading"
        /\ \/ UNCHANGED <<roster, grade>>
           \/ /\ UNCHANGED roster /\ place' = [place EXCEPT ![t] = "returned"]
              /\ \E g \in {"FAILED"} \cup (IF Members[t] = <<>> THEN {"VERIFIED"} ELSE {}) :
                   grade' = [grade EXCEPT ![t] = g]
           \/ DrawUpRoster(t) /\ UNCHANGED grade
    BY <1>5 DEF LeadReturns, workVars
  <2>2. place'[t] \in {"threw", "returned", "briefed"}
    BY <1>1, <1>5, <2>1, TeamMoves DEF Moves
  <2>3. cycle'[t] = 0
    BY <2>1 DEF Covering
  <2>4. CASE UNCHANGED <<roster, grade>>
    BY <1>2, <1>3, <2>1, <2>2, <2>3, <2>4, ElsewhereCovers
  <2>6. CASE DrawUpRoster(t) /\ UNCHANGED grade
    BY <1>1, <1>2, <2>1, <2>2, <2>3, <2>6, ElsewhereCovers, RosterIsOfMembers DEF Aside, Reports
  <2>5. CASE /\ UNCHANGED roster /\ place' = [place EXCEPT ![t] = "returned"]
             /\ \E g \in {"FAILED"} \cup (IF Members[t] = <<>> THEN {"VERIFIED"} ELSE {}) :
                  grade' = [grade EXCEPT ![t] = g]
    <3>1. /\ place'[t] = "returned" /\ grade' = [u \in Teams |-> grade'[u]]
          /\ \A u \in Teams \ {t} : grade'[u] = grade[u]
          /\ grade'[t] = "VERIFIED" => Members[t] = <<>>
      BY <1>1, <2>5
    <3>2. Members[t] = <<>> => ToSet(roster[t]) = {}
      <4>1. ToSet(<<>>) = {}
        BY DEF ToSet
      <4> QED
        BY <1>1, <4>1, Zenon
    <3>3. Covering(t)'
      BY <2>5, <3>1, <3>2 DEF Covering
    <3> QED
      BY <1>1, <2>1, <2>5, <3>1, <3>3 DEF Aside, Reports
  <2> QED
    BY <2>1, <2>4, <2>5, <2>6
<1>6. CASE Settle(t)
  <2> DEFINE done == {w \in ToSet(roster[t]) : at[w] = "returned"}
  <2>1. /\ UNCHANGED <<verdict, grade, roster, at, cycle>> /\ place[t] = "working"
        /\ \A w \in ToSet(roster[t]) : at[w] \in {"returned", "threw"}
        /\ \/ Throw(t) /\ UNCHANGED <<results, scope>>
           \/ /\ results' = results \cup done /\ scope' = [scope EXCEPT ![t] = done]
              /\ place' = [place EXCEPT ![t] = "reviewing"]
    BY <1>6 DEF Settle, workVars, Settled
  <2>2. CASE Throw(t) /\ UNCHANGED <<results, scope>>
    <3>1. place'[t] = "threw"
      BY <1>1, <2>2 DEF Throw
    <3> QED
      BY <1>2, <1>3, <2>1, <2>2, <3>1, ElsewhereCovers
  <2>3. CASE /\ results' = results \cup done /\ scope' = [scope EXCEPT ![t] = done]
             /\ place' = [place EXCEPT ![t] = "reviewing"]
    <3>1. /\ place'[t] = "reviewing" /\ scope'[t] = done /\ scope' = [u \in Teams |-> scope'[u]]
          /\ \A u \in Teams \ {t} : scope'[u] = scope[u]
      BY <1>1, <2>3
    <3>2. done \subseteq ToSet(Members[t]) /\ done \subseteq results'
      BY <1>1, <2>3
    <3>3. Aside(t)
      BY <1>1, <2>1, <2>3, <3>1, <3>2 DEF Aside, Reports
    <3>4. cycle[t] = 0
      BY <2>1 DEF Covering
    <3>5. Covering(t)'
      BY <1>2, <2>1, <2>3, <3>1, <3>2, <3>4 DEF Covering
    <3> QED
      BY <3>3, <3>5
  <2> QED
    BY <2>1, <2>2, <2>3
<1>7. CASE ReviewReturns(t)
  <2> DEFINE failed == IF cycle[t] = 0 THEN FailedNames(t) \ scope[t] ELSE {}
  <2>1. /\ UNCHANGED <<results, roster, at>> /\ place[t] = "reviewing"
        /\ \/ Throw(t) /\ UNCHANGED <<verdict, scope, grade>>
           \/ /\ \E said \in [scope[t] -> Verdicts] :
                   verdict' = [w \in Workers |-> IF w \in scope[t] THEN said[w]
                                 ELSE IF w \in failed THEN "REWORK" ELSE verdict[w]]
              /\ NextCycle(t, verdict')
    BY <1>7 DEF ReviewReturns, workVars
  <2>2. CASE Throw(t) /\ UNCHANGED <<verdict, scope, grade>>
    <3>1. place'[t] = "threw"
      BY <1>1, <2>2 DEF Throw
    <3> QED
      BY <1>2, <1>3, <2>1, <2>2, <3>1, ElsewhereCovers
  <2>3. CASE /\ \E said \in [scope[t] -> Verdicts] :
                  verdict' = [w \in Workers |-> IF w \in scope[t] THEN said[w]
                                ELSE IF w \in failed THEN "REWORK" ELSE verdict[w]]
             /\ NextCycle(t, verdict')
    <3>1. /\ verdict' = [w \in Workers |-> verdict'[w]]
          /\ \A w \in Workers \ scope[t] : w \in failed => verdict'[w] = "REWORK"
          /\ \A w \in Workers \ scope[t] : w \notin failed => verdict'[w] = verdict[w]
          /\ scope[t] \subseteq results
      BY <2>1, <2>3 DEF Covering
    <3> HIDE DEF failed
    <3>2. ASSUME InOrder(t), NEW w \in ToSet(roster[t]) \ results
          PROVE  verdict'[w] = "REWORK"
      <4>1. w \in Workers \ scope[t]
        BY <1>1, <3>1
      <4>2. CASE cycle[t] = 0
        <5>1. at[w] = "threw"
          BY <2>1, <3>2, <4>2 DEF Covering
        <5>2. PICK i \in DOMAIN roster[t] : roster[t][i] = w
          BY <3>2 DEF ToSet
        <5>3. Members[t][i] = w
          BY <3>2, <5>2 DEF InOrder
        <5>4. w \in FailedNames(t)
          BY <5>1, <5>2, <5>3 DEF FailedNames
        <5> QED
          BY <3>1, <4>1, <4>2, <5>4 DEF failed
      <4>3. CASE cycle[t] # 0
        <5>1. cycle[t] > 0
          BY <1>1, <4>3
        <5>2. verdict[w] = "REWORK"
          BY <2>1, <3>2, <5>1 DEF Covering
        <5> QED
          BY <3>1, <4>1, <5>2
      <4> QED
        BY <4>2, <4>3
    <3>3. Covering(t)' /\ ReportsOn(t)
      <4>1. NextCycle(t, verdict') /\ place[t] \notin {"returned", "threw"}
            /\ roster' = roster /\ results' = results
        BY <2>1, <2>3
      <4> QED
        BY <3>2, <4>1, NextCycleCovers
    <3>4. \A w \in Workers \ ToSet(Members[t]) : verdict[w] = "REWORK" => verdict'[w] = "REWORK"
      BY <1>1, <3>1
    <3> QED
      BY <1>1, <2>1, <3>1, <3>3, <3>4 DEF Aside, Reports, ReportsOn
  <2> QED
    BY <2>1, <2>2, <2>3
<1>8. ASSUME NEW w, NEW v, verdict' = [verdict EXCEPT ![w] = v],
             verdict[w] # "REWORK" \/ v = "REWORK",
             place[t] \in {"retrying", "reworking"}, place'[t] \in {"retrying", "reworking", "threw"},
             UNCHANGED <<scope, grade, roster, at, cycle>>, results \subseteq results'
      PROVE  Covering(t)' /\ Aside(t)
  <2>1. /\ verdict' = [x \in Workers |-> verdict'[x]]
        /\ \A x \in Workers : verdict[x] = "REWORK" => verdict'[x] = "REWORK"
    BY <1>1, <1>8
  <2>2. cycle[t] > 0 /\ InOrder(t)' = InOrder(t) /\ grade'[t] # "VERIFIED"
    BY <1>2, <1>8 DEF Covering, InOrder
  <2>3. InOrder(t) => \A x \in ToSet(roster[t]) \ results' : verdict'[x] = "REWORK"
    BY <1>1, <1>8, <2>1, <2>2 DEF Covering
  <2>4. Covering(t)'
    BY <1>8, <2>2, <2>3 DEF Covering
  <2> QED
    BY <1>8, <2>1, <2>4 DEF Aside, Reports
<1>9. ASSUME UNCHANGED <<verdict, scope, grade, roster, at, cycle, results>>,
             place[t] \in {"retrying", "reworking"}, place'[t] \in {"retrying", "reworking", "threw"}
      PROVE  Covering(t)' /\ Aside(t)
  <2>1. cycle[t] > 0 /\ InOrder(t)' = InOrder(t) /\ grade'[t] # "VERIFIED"
    BY <1>2, <1>9 DEF Covering, InOrder
  <2>2. InOrder(t) => \A x \in ToSet(roster[t]) \ results : verdict[x] = "REWORK"
    BY <1>9, <2>1 DEF Covering
  <2> QED
    BY <1>3, <1>9, <2>1, <2>2 DEF Covering
<1>10. CASE TakeUp(t)
  <2>1. /\ place[t] = "retrying" /\ UNCHANGED <<scope, grade, roster, at, cycle, results>>
        /\ \/ UNCHANGED verdict
           \/ \E v : /\ verdict' = [verdict EXCEPT ![Head(todo[t])] = v]
                     /\ verdict[Head(todo[t])] \in {"FIX", "SENIOR"}
    BY <1>10 DEF TakeUp, workVars
  <2>2. place'[t] \in {"retrying", "reworking", "threw"}
    BY <1>1, <1>10 DEF TakeUp, Throw
  <2> QED
    BY <1>8, <1>9, <2>1, <2>2
<1>11. CASE RetryReturns(t) \/ SeniorReturns(t)
  <2>1. /\ place[t] = "reworking" /\ UNCHANGED <<scope, grade, roster, at, cycle>>
        /\ \/ UNCHANGED <<verdict, results>>
           \/ /\ results \subseteq results'
              /\ \E v : /\ verdict' = [verdict EXCEPT ![Head(todo[t])] = v]
                        /\ verdict[Head(todo[t])] = "SENIOR" \/ v = "REWORK"
    BY <1>11 DEF RetryReturns, SeniorReturns, ReworkReturns, workVars
  <2>2. place'[t] \in {"retrying", "reworking", "threw"}
    BY <1>1, <1>11 DEF RetryReturns, SeniorReturns, ReworkReturns, Throw
  <2> QED
    BY <1>8, <1>9, <2>1, <2>2
<1>12. CASE EndCycle(t)
  <2> DEFINE again == {w \in scope[t] \cap results : verdict[w] # "PASS"}
  <2>1. /\ place[t] = "retrying" /\ UNCHANGED <<verdict, roster, at, results>>
        /\ \/ NextCycle(t, verdict)
           \/ Throw(t) /\ UNCHANGED <<scope, grade>>
           \/ /\ place' = [place EXCEPT ![t] = "reviewing"] /\ UNCHANGED <<grade, cycle>>
              /\ scope' = [scope EXCEPT ![t] = again]
    BY <1>12 DEF EndCycle, workVars
  <2>2. cycle[t] > 0 /\ InOrder(t)' = InOrder(t)
        /\ (InOrder(t) => \A x \in ToSet(roster[t]) \ results : verdict[x] = "REWORK")
    BY <2>1 DEF Covering, InOrder
  <2>3. CASE NextCycle(t, verdict)
    <3>1. NextCycle(t, verdict') /\ place[t] \notin {"returned", "threw"}
          /\ roster' = roster /\ results' = results
          /\ (InOrder(t) => \A x \in ToSet(roster[t]) \ results : verdict'[x] = "REWORK")
      BY <2>1, <2>2, <2>3
    <3>2. Covering(t)' /\ ReportsOn(t)
      BY <3>1, NextCycleCovers
    <3> QED
      BY <1>1, <2>1, <3>2 DEF Aside, Reports, ReportsOn
  <2>4. CASE Throw(t) /\ UNCHANGED <<scope, grade>>
    <3>1. place'[t] = "threw"
      BY <1>1, <2>4 DEF Throw
    <3> QED
      BY <1>2, <1>3, <2>1, <2>4, <3>1, ElsewhereCovers
  <2>5. CASE /\ place' = [place EXCEPT ![t] = "reviewing"] /\ UNCHANGED <<grade, cycle>>
             /\ scope' = [scope EXCEPT ![t] = again]
    <3>1. /\ place'[t] = "reviewing" /\ scope'[t] = again /\ scope' = [u \in Teams |-> scope'[u]]
          /\ \A u \in Teams \ {t} : scope'[u] = scope[u]
          /\ again \subseteq ToSet(Members[t]) /\ again \subseteq results /\ grade[t] # "VERIFIED"
      BY <1>1, <1>2, <2>1, <2>5
    <3> HIDE DEF again
    <3>2. Covering(t)'
      BY <2>1, <2>2, <2>5, <3>1 DEF Covering
    <3> QED
      BY <1>1, <2>1, <2>5, <3>1, <3>2 DEF Aside, Reports
  <2> QED
    BY <2>1, <2>3, <2>4, <2>5
<1> QED
  BY <1>4, <1>5, <1>6, <1>7, <1>10, <1>11, <1>12 DEF TeamStep

LEMMA InitCovers == Init => CoverInv
<1> SUFFICES ASSUME Init PROVE CoverInv
  OBVIOUS
<1>1. Reports
  BY DEF Init, Reports
<1>2. ASSUME NEW t \in Teams PROVE Covering(t)
  BY DEF Init, Covering
<1> QED
  BY <1>1, <1>2, InitCosts DEF CoverInv

LEMMA NextCovers == CoverInv /\ [Next]_vars => CoverInv'
<1> SUFFICES ASSUME CoverInv, [Next]_vars PROVE CoverInv'
  OBVIOUS
<1> USE DEF CoverInv
<1>1. CostsInv'
  BY NextLimits, TeamsKeepCosts, OthersKeepCosts DEF Next, CostsInv
<1>2. \A u \in Teams : ToSet(Members[u]) \subseteq Workers /\ ToSet(roster[u]) \subseteq ToSet(Members[u])
  BY MembersAreWorkers DEF CostsInv, LimitsInv, TreesInv, Rostered
<1>3. ASSUME NEW t \in Teams, TeamStep(t)
      PROVE  Reports' /\ \A u \in Teams : Covering(u)'
  <2>1. Covering(t)' /\ Aside(t)
    BY <1>3, TeamsCover
  <2>2. ASSUME NEW u \in Teams \ {t} PROVE Covering(u)'
    <3>1. place'[u] = place[u] /\ cycle'[u] = cycle[u]
      BY <1>3, TeamMoves, TeamSpends DEF CostsInv, LimitsInv, TreesInv, Moves
    <3>2. \A w \in ToSet(roster[u]) : w \in Workers \ ToSet(Members[t])
      BY <1>2, TeamAssumption
    <3> QED
      BY <2>1, <3>1, <3>2, CoveringKept DEF Aside
  <2> QED
    BY <2>1, <2>2 DEF Aside
<1>4. CASE \/ \E w \in Workers : WorkerStep(w)
           \/ Gather \/ Stop \/ UNCHANGED vars
  <2>1. /\ UNCHANGED teamVars
        /\ \A x \in Workers : at[x] \in {"returned", "threw"} => at'[x] = at[x]
    <3>1. ASSUME NEW w \in Workers, WorkerStep(w)
          PROVE  /\ UNCHANGED teamVars
                 /\ \A x \in Workers : at[x] \in {"returned", "threw"} => at'[x] = at[x]
      BY <3>1, WorkerMoves DEF CostsInv, LimitsInv, TreesInv
    <3>2. CASE Gather \/ Stop \/ UNCHANGED vars
      BY <3>2 DEF Gather, Join, SynthesisBegins, SynthesisReturns, Stop, vars, workVars
    <3> QED
      BY <1>4, <3>1, <3>2
  <2>2. Reports'
    BY <2>1 DEF teamVars, Reports
  <2>3. ASSUME NEW u \in Teams PROVE Covering(u)'
    BY <1>2, <2>1, CoveringKept DEF teamVars
  <2> QED
    BY <1>1, <2>2, <2>3
<1> QED
  BY <1>1, <1>3, <1>4 DEF Next

\* Whatever the reviews say, however many workers have failed and whichever
\* retries, fixes and seniors follow, a team whose roster follows its members
\* is verified only when every worker on the roster has contributed:
\* executeWorkers' failed reviews and the retry loop.
THEOREM VerifiedIsCovered == Spec => []VerifiedCovers
<1>1. CoverInv => VerifiedCovers
  BY DEF CoverInv, Covering, VerifiedCovers
<1> QED
  BY <1>1, InitCovers, NextCovers, PTL DEF Spec
=============================================================================
