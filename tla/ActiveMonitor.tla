---------------------------- MODULE ActiveMonitor ----------------------------
(***************************************************************************)
(* The monitor of a run (engine/active-monitor.ts, nudge.ts,               *)
(* monitoring.ts): on every tick it looks for agents that have been silent *)
(* too long and nudges them, with a fixed text first and with the help of  *)
(* a model or a search later.                                              *)
(*                                                                         *)
(* A nudge with a fixed text is sent and counted before anything else      *)
(* runs.  One that asks the model or searches counts itself when it is     *)
(* done, on the NudgeState object it began with: ticks may have taken that *)
(* object out of the map meanwhile.                                        *)
(***************************************************************************)
EXTENDS Naturals, FiniteSets, SequencesExt

CONSTANTS
  Agents,      \* agents, by their id
  RuleBased    \* how many nudges are rule-based before one escalates (3)

ASSUME MonitorAssumption == IsFiniteSet(Agents) /\ RuleBased \in Nat \ {0}

VARIABLES
  watching,  \* the monitor's interval runs
  entries,   \* the keys of agentActivity, oldest first
  seen,      \* [Agents -> Seen]
  nudges,    \* [Agents -> nudgeCount], NoState without a NudgeState
  flying,    \* the nudges that wait for the model or a search
  asking,    \* llmNudgeInFlight
  said       \* [Agents -> fixed texts sent since the agent last acted], a history

monitorVars == <<watching, entries, seen, nudges, flying, asking, said>>

\* An agent has acted since the last tick ("new"), has been found active by
\* one ("fresh"), or has been silent for longer than IDLE_WARN_MS.  A tick
\* comes sooner than that, so it finds an agent fresh before it is idle again.
Seen == {"new", "fresh", "idle"}

\* One nudge that would escalate after another makes no difference.
Escalated == RuleBased + 1
NoState == RuleBased + 2
OneMore(n) == IF n < Escalated THEN n + 1 ELSE n
Say(n) == IF n < RuleBased THEN n + 1 ELSE n

\* A nudge that waits: for whom, and whether its NudgeState is still in the map.
Nudge == [for : Agents, current : BOOLEAN]

MonitorTypeOK ==
  /\ watching \in BOOLEAN /\ asking \in BOOLEAN
  /\ entries \in Seq(Agents) /\ seen \in [Agents -> Seen]
  /\ nudges \in [Agents -> 0 .. NoState] /\ said \in [Agents -> 0 .. RuleBased]
  /\ flying \subseteq Nudge

MonitorInit ==
  /\ watching = TRUE /\ asking = FALSE /\ entries = <<>>
  /\ seen = [a \in Agents |-> "new"]
  /\ nudges = [a \in Agents |-> NoState] /\ said = [a \in Agents |-> 0]
  /\ flying = {}

-----------------------------------------------------------------------------
\* trackActivity, and trackToolCall for an agent that is in the map.
AgentActs(a) ==
  /\ entries' = IF a \in ToSet(entries) THEN entries ELSE Append(entries, a)
  /\ seen' = [seen EXCEPT ![a] = "new"] /\ said' = [said EXCEPT ![a] = 0]
  /\ UNCHANGED <<watching, nudges, flying, asking>>

\* untrackActivity leaves the NudgeState behind.
AgentGone(a) ==
  /\ \E i \in DOMAIN entries : entries[i] = a /\ entries' = RemoveAt(entries, i)
  /\ UNCHANGED <<watching, seen, nudges, flying, asking, said>>

GrowsIdle(a) ==
  /\ a \in ToSet(entries) /\ seen[a] = "fresh" /\ seen' = [seen EXCEPT ![a] = "idle"]
  /\ UNCHANGED <<watching, entries, nudges, flying, asking, said>>

-----------------------------------------------------------------------------
\* needsLLM of triggerNudge.
NeedsLLM(a) == nudges[a] \in RuleBased .. Escalated

\* The idle agents for which a tick calls triggerNudge, in the map's order:
\* none after the first one that needs the model, even if that one turns out
\* to be nudged too recently.
Tried ==
  IF asking THEN {}
  ELSE {entries[i] : i \in
         {j \in DOMAIN entries :
            /\ seen[entries[j]] = "idle"
            /\ \A k \in 1 .. j - 1 :
                 seen[entries[k]] = "idle" => ~NeedsLLM(entries[k])}}

\* Mutant: the state of an agent that works again is kept.
OutgrownNone == {}

\* Agents a tick finds active: their NudgeState is thrown away.
Outgrown == {a \in ToSet(entries) : seen[a] # "idle"}

\* The nudges that wait when the states of some agents leave the map.
Detached(gone) ==
  {IF n.for \in gone THEN [n EXCEPT !.current = FALSE] ELSE n : n \in flying}

\* checkStalls of onTick.  ask: there is an adapter for nudges, or a search
\* that finds something; cool: whom a nudge has been counted for less than
\* NUDGE_COOLDOWN_MS ago.
CheckStalls(ask, cool) ==
  LET tried == Tried
      gone == Outgrown
      asked == IF ask THEN {a \in tried \ cool : NeedsLLM(a)} ELSE {}
      told == (tried \ cool) \ asked
      Count(a) == IF a \in tried /\ nudges[a] = NoState THEN 0 ELSE nudges[a] IN
  /\ flying' = Detached(gone) \cup [for : asked, current : {TRUE}]
  /\ asking' = (asking \/ asked # {})
  /\ said' = [a \in Agents |-> IF a \in told THEN Say(said[a]) ELSE said[a]]
  /\ nudges' = [a \in Agents |-> IF a \in gone THEN NoState
                                 ELSE IF a \in told THEN OneMore(Count(a))
                                 ELSE Count(a)]
  /\ seen' = [a \in Agents |-> IF a \in ToSet(entries) /\ seen[a] = "new"
                               THEN "fresh" ELSE seen[a]]
  /\ UNCHANGED <<watching, entries>>

Tick ==
  /\ watching
  /\ \E ask \in BOOLEAN, cool \in SUBSET {a \in Tried : nudges[a] \in 1 .. Escalated} :
       CheckStalls(ask, cool)

\* Mutant: the flag is kept.
StillAsking == TRUE

\* The finally of triggerNudge.
AskingAfter == FALSE

\* The model or the search answers, fails, or times out: a text is sent in
\* any case, to an agent that may work again by now.
NudgeDone(n) ==
  /\ flying' = flying \ {n}
  /\ nudges' = IF n.current THEN [nudges EXCEPT ![n.for] = OneMore(@)] ELSE nudges
  /\ asking' = AskingAfter
  /\ UNCHANGED <<watching, entries, seen, said>>

\* stop() empties both maps; what is under way goes on with objects no map
\* holds.
StopMonitor ==
  /\ watching' = FALSE /\ entries' = <<>>
  /\ nudges' = [a \in Agents |-> NoState]
  /\ flying' = Detached(Agents)
  /\ UNCHANGED <<seen, asking, said>>

MonitorStep ==
  \E a \in Agents : AgentActs(a) \/ AgentGone(a) \/ GrowsIdle(a)
NudgeStep == \E n \in flying : NudgeDone(n)
=============================================================================
