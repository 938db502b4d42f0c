--------------------------- MODULE SupervisionProofs ---------------------------
(***************************************************************************)
(* The drain of the reasoning loop and the escalation of the nudges, for   *)
(* any agents, costs, limits and number of rule-based nudges.              *)
(***************************************************************************)
EXTENDS Supervision, FiniteSetTheorems, TLAPS

-----------------------------------------------------------------------------
(* Types.                                                                  *)

LEMMA StatusFacts ==
  /\ \A from, to \in SessionStatus : Transition(from, to) \in SessionStatus
  /\ {"active", "paused", "error"} \subseteq SessionStatus
  /\ Terminal \subseteq SessionStatus
  BY DEF Transition, CanTransition, ValidTransitions, SessionStatus, Terminal

LEMMA CostsAreNat == \A c \in Costs : c \in Nat
  BY CostsAssumption

LEMMA InitTyped == Init => TypeOK
<1> SUFFICES ASSUME Init PROVE TypeOK
  OBVIOUS
<1>1. LoopTypeOK
  BY StatusFacts DEF Init, LoopInit, LoopTypeOK
<1>2. MonitorTypeOK
  <2>1. <<>> \in Seq(Agents) /\ {} \subseteq Nudge /\ NoState \in 0 .. NoState
        /\ 0 \in 0 .. RuleBased
    BY MonitorAssumption DEF NoState
  <2> QED
    BY <2>1 DEF Init, MonitorInit, MonitorTypeOK, Seen
<1> QED
  BY <1>1, <1>2 DEF Init, TypeOK

LEMMA LoopTyped ==
  ASSUME LoopTypeOK, LoopStep
  PROVE  LoopTypeOK'
<1> USE DEF LoopTypeOK, sessionVars, loopVars, Reason, Heard
<1>1. CASE Interval
  BY <1>1 DEF Interval
<1>2. CASE Trigger
  BY <1>2 DEF Trigger
<1>3. CASE HandleUserMessage
  BY <1>3 DEF HandleUserMessage
<1>4. CASE ThinkingFails
  BY <1>4 DEF ThinkingFails, FinishCycle
<1>5. CASE Answers
  BY <1>5 DEF Answers
<1>6. CASE CycleEnds
  BY <1>6 DEF CycleEnds, FinishCycle
<1>7. ASSUME NEW c \in Costs, BudgetThrows(c)
      PROVE  LoopTypeOK'
  BY <1>7 DEF BudgetThrows, FinishCycle
<1>8. ASSUME NEW c \in Costs, Bill(c)
      PROVE  LoopTypeOK'
  BY <1>8, CostsAreNat DEF Bill
<1> QED
  BY <1>1, <1>2, <1>3, <1>4, <1>5, <1>6, <1>7, <1>8 DEF LoopStep, CycleStep

LEMMA SessionTyped ==
  ASSUME LoopTypeOK,
         \/ \E c \in Costs : AgentPaid(c)
         \/ \E to \in SessionStatus : Steer(to)
         \/ DrainTimesOut \/ StopLoop \/ \E to \in Terminal : EndRun(to)
  PROVE  LoopTypeOK'
<1> USE DEF LoopTypeOK, sessionVars, loopVars
<1>1. ASSUME NEW c \in Costs, AgentPaid(c) PROVE LoopTypeOK'
  BY <1>1, CostsAreNat DEF AgentPaid
<1>2. ASSUME NEW to \in SessionStatus, Steer(to) PROVE LoopTypeOK'
  BY <1>2 DEF Steer
<1>3. CASE DrainTimesOut
  BY <1>3 DEF DrainTimesOut
<1>4. CASE StopLoop
  BY <1>4, StatusFacts DEF StopLoop
<1>5. ASSUME NEW to \in Terminal, EndRun(to) PROVE LoopTypeOK'
  BY <1>5, StatusFacts DEF EndRun
<1> QED
  BY <1>1, <1>2, <1>3, <1>4, <1>5

LEMMA AppendFacts ==
  ASSUME NEW s \in Seq(Agents), NEW a \in Agents
  PROVE  Append(s, a) \in Seq(Agents) /\ ToSet(Append(s, a)) = ToSet(s) \cup {a}
<1>1. /\ Append(s, a) \in Seq(Agents)
      /\ Append(s, a)[Len(s) + 1] = a /\ Len(s) + 1 \in DOMAIN Append(s, a)
      /\ \A i \in DOMAIN s : Append(s, a)[i] = s[i] /\ i \in DOMAIN Append(s, a)
      /\ \A i \in DOMAIN Append(s, a) : i \in DOMAIN s \/ i = Len(s) + 1
  OBVIOUS
<1> QED
  BY <1>1 DEF ToSet

LEMMA RemoveAtFacts ==
  ASSUME NEW s \in Seq(Agents), NEW i \in DOMAIN s
  PROVE  RemoveAt(s, i) \in Seq(Agents) /\ ToSet(RemoveAt(s, i)) \subseteq ToSet(s)
<1>1. /\ SubSeq(s, 1, i - 1) \in Seq(Agents) /\ SubSeq(s, i + 1, Len(s)) \in Seq(Agents)
      /\ \A j \in DOMAIN SubSeq(s, 1, i - 1) :
           j \in DOMAIN s /\ SubSeq(s, 1, i - 1)[j] = s[j]
      /\ \A j \in DOMAIN SubSeq(s, i + 1, Len(s)) :
           j + i \in DOMAIN s /\ SubSeq(s, i + 1, Len(s))[j] = s[j + i]
  OBVIOUS
<1>2. ASSUME NEW u \in Seq(Agents), NEW v \in Seq(Agents)
      PROVE  u \o v \in Seq(Agents) /\ ToSet(u \o v) \subseteq ToSet(u) \cup ToSet(v)
  <2>1. /\ u \o v \in Seq(Agents)
        /\ \A j \in DOMAIN (u \o v) :
             \/ j \in DOMAIN u /\ (u \o v)[j] = u[j]
             \/ j - Len(u) \in DOMAIN v /\ (u \o v)[j] = v[j - Len(u)]
    OBVIOUS
  <2> QED
    BY <2>1 DEF ToSet
<1>3. /\ ToSet(SubSeq(s, 1, i - 1)) \subseteq ToSet(s)
      /\ ToSet(SubSeq(s, i + 1, Len(s))) \subseteq ToSet(s)
  BY <1>1 DEF ToSet
<1> DEFINE u == SubSeq(s, 1, i - 1)
           v == SubSeq(s, i + 1, Len(s))
<1>4. /\ RemoveAt(s, i) = u \o v /\ u \in Seq(Agents) /\ v \in Seq(Agents)
      /\ ToSet(u) \subseteq ToSet(s) /\ ToSet(v) \subseteq ToSet(s)
  BY <1>1, <1>3 DEF RemoveAt
<1> HIDE DEF u, v
<1> QED
  BY <1>2, <1>4

LEMMA ToSetTyped == MonitorTypeOK => ToSet(entries) \subseteq Agents
  BY DEF MonitorTypeOK, ToSet

\* A tick tries agents of the map that are idle.
LEMMA TriedAreIdle ==
  \A a \in Tried : a \in ToSet(entries) /\ seen[a] = "idle"
  BY DEF Tried, ToSet

LEMMA CountsTyped ==
  ASSUME NEW n \in 0 .. NoState
  PROVE  OneMore(n) \in 0 .. NoState
  BY MonitorAssumption DEF OneMore, Escalated, NoState

LEMMA DetachedTyped ==
  ASSUME flying \subseteq Nudge, NEW gone
  PROVE  Detached(gone) \subseteq Nudge
  BY DEF Detached, Nudge

LEMMA ActsTyped ==
  ASSUME MonitorTypeOK, NEW a \in Agents, AgentActs(a) \/ AgentGone(a) \/ GrowsIdle(a)
  PROVE  MonitorTypeOK'
<1>1. "new" \in Seen /\ "idle" \in Seen /\ 0 \in 0 .. RuleBased
  BY MonitorAssumption DEF Seen
<1>2. CASE AgentActs(a)
  <2>1. entries' \in Seq(Agents)
    BY <1>2, AppendFacts DEF AgentActs, MonitorTypeOK
  <2> QED
    BY <1>1, <1>2, <2>1 DEF AgentActs, MonitorTypeOK
<1>3. CASE AgentGone(a)
  <2>1. entries' \in Seq(Agents)
    BY <1>3, RemoveAtFacts DEF AgentGone, MonitorTypeOK
  <2> QED
    BY <1>3, <2>1 DEF AgentGone, MonitorTypeOK
<1>4. CASE GrowsIdle(a)
  BY <1>1, <1>4 DEF GrowsIdle, MonitorTypeOK
<1> QED
  BY <1>2, <1>3, <1>4

LEMMA StallsTyped ==
  ASSUME MonitorTypeOK, NEW ask \in BOOLEAN, NEW cool, CheckStalls(ask, cool)
  PROVE  MonitorTypeOK'
<1> DEFINE tried == Tried
           gone == Outgrown
           asked == IF ask THEN {a \in tried \ cool : NeedsLLM(a)} ELSE {}
           told == (tried \ cool) \ asked
           Count(a) == IF a \in tried /\ nudges[a] = NoState THEN 0 ELSE nudges[a]
<1>1. /\ flying' = Detached(gone) \cup [for : asked, current : {TRUE}]
      /\ asking' = (asking \/ asked # {})
      /\ said' = [a \in Agents |-> IF a \in told THEN Say(said[a]) ELSE said[a]]
      /\ nudges' = [a \in Agents |-> IF a \in gone THEN NoState
                                     ELSE IF a \in told THEN OneMore(Count(a))
                                     ELSE Count(a)]
      /\ seen' = [a \in Agents |-> IF a \in ToSet(entries) /\ seen[a] = "new"
                                   THEN "fresh" ELSE seen[a]]
      /\ UNCHANGED <<watching, entries>>
  BY DEF CheckStalls
<1>2. asked \subseteq Agents
  BY TriedAreIdle, ToSetTyped
<1>3. flying' \subseteq Nudge
  BY <1>1, <1>2, DetachedTyped DEF MonitorTypeOK, Nudge
<1>4. \A a \in Agents : Count(a) \in 0 .. NoState /\ NoState \in 0 .. NoState
  BY MonitorAssumption DEF MonitorTypeOK, NoState
<1>5. nudges' \in [Agents -> 0 .. NoState]
  <2> HIDE DEF Count, told, tried, gone
  <2> QED
    BY <1>1, <1>4, CountsTyped
<1>6. said' \in [Agents -> 0 .. RuleBased]
  <2> HIDE DEF told
  <2>1. \A a \in Agents : Say(said[a]) \in 0 .. RuleBased
    BY MonitorAssumption DEF MonitorTypeOK, Say
  <2> QED
    BY <1>1, <2>1 DEF MonitorTypeOK
<1>7. seen' \in [Agents -> Seen]
  BY <1>1 DEF MonitorTypeOK, Seen
<1>8. asking' \in BOOLEAN /\ watching' \in BOOLEAN /\ entries' \in Seq(Agents)
  BY <1>1 DEF MonitorTypeOK
<1> QED
  BY <1>3, <1>5, <1>6, <1>7, <1>8 DEF MonitorTypeOK

LEMMA DoneTyped ==
  ASSUME MonitorTypeOK, NEW n \in flying, NudgeDone(n)
  PROVE  MonitorTypeOK'
<1>1. n.for \in Agents
  BY DEF MonitorTypeOK, Nudge
<1>2. nudges' \in [Agents -> 0 .. NoState]
  BY <1>1, CountsTyped DEF NudgeDone, MonitorTypeOK
<1> QED
  BY <1>2 DEF NudgeDone, MonitorTypeOK, AskingAfter

LEMMA StopTyped ==
  ASSUME MonitorTypeOK, StopMonitor
  PROVE  MonitorTypeOK'
<1>1. <<>> \in Seq(Agents) /\ NoState \in 0 .. NoState
  BY MonitorAssumption DEF NoState
<1> QED
  BY <1>1, DetachedTyped DEF StopMonitor, MonitorTypeOK

LEMMA NextTyped == TypeOK /\ [Next]_vars => TypeOK'
<1> SUFFICES ASSUME TypeOK, [Next]_vars PROVE TypeOK'
  OBVIOUS
<1> USE DEF TypeOK
<1>1. CASE MonitorTicks
  <2>1. MonitorTypeOK'
    BY <1>1, StallsTyped DEF MonitorTicks, Tick
  <2>2. LoopTypeOK' /\ autoPauseFired' \in BOOLEAN
    <3>1. status' \in SessionStatus /\ autoPauseFired' \in BOOLEAN
      BY <1>1, StatusFacts DEF MonitorTicks, CheckBudgetProjection, LoopTypeOK
    <3> QED
      BY <1>1, <3>1 DEF MonitorTicks, LoopTypeOK, loopVars
  <2> QED
    BY <2>1, <2>2
<1>2. ASSUME UNCHANGED <<monitorVars, autoPauseFired>>
      PROVE  MonitorTypeOK' /\ autoPauseFired' \in BOOLEAN
  BY <1>2 DEF monitorVars, MonitorTypeOK
<1>3. ASSUME UNCHANGED <<sessionVars, loopVars>>
      PROVE  LoopTypeOK'
  BY <1>3 DEF sessionVars, loopVars, LoopTypeOK
<1>4. CASE LoopSteps
  BY <1>2, <1>4, LoopTyped DEF LoopSteps
<1>5. CASE AgentsStep
  BY <1>3, <1>5, ActsTyped DEF AgentsStep, MonitorStep
<1>6. CASE NudgeSteps
  BY <1>3, <1>6, DoneTyped DEF NudgeSteps, NudgeStep
<1>7. CASE SessionSteps
  BY <1>2, <1>7, SessionTyped DEF SessionSteps
<1>8. CASE Stops
  BY <1>8, StopTyped, SessionTyped DEF Stops
<1>9. CASE UNCHANGED vars
  BY <1>2, <1>3, <1>9 DEF vars
<1> QED
  BY <1>1, <1>4, <1>5, <1>6, <1>7, <1>8, <1>9 DEF Next

\* The types, whatever the constants: a nudge in flight is for an agent, the
\* map's keys are agents, the costs add up to a number.
THEOREM TypeCorrect == Spec => []TypeOK
  BY InitTyped, NextTyped, PTL DEF Spec

-----------------------------------------------------------------------------
(* The drain.                                                              *)

\* Once run has ended the chain, nothing begins a cycle: that is what makes
\* the report of a drain final.
DrainInv ==
  /\ closing # "running" => ~timer
  /\ DrainedIsFinal

LEMMA InitDrain == Init => DrainInv
  BY DEF Init, LoopInit, DrainInv, DrainedIsFinal

LEMMA NextDrain == DrainInv /\ [Next]_vars => DrainInv'
<1> SUFFICES ASSUME DrainInv, [Next]_vars PROVE DrainInv'
  OBVIOUS
<1> USE DEF DrainInv, DrainedIsFinal, sessionVars, loopVars
<1>1. ASSUME UNCHANGED <<closing, loopVars>>
      PROVE  DrainInv'
  BY <1>1
<1>2. CASE MonitorTicks \/ AgentsStep \/ NudgeSteps \/ UNCHANGED vars
  BY <1>1, <1>2 DEF MonitorTicks, AgentsStep, NudgeSteps, vars
<1>3. CASE LoopSteps
  <2>1. CASE Interval
    BY <2>1 DEF Interval
  <2>2. CASE Trigger
    BY <2>2 DEF Trigger
  <2>3. CASE HandleUserMessage
    BY <2>3 DEF HandleUserMessage
  <2>4. CASE ThinkingFails
    BY <2>4 DEF ThinkingFails, FinishCycle
  <2>5. CASE Answers
    BY <2>5 DEF Answers
  <2>6. CASE CycleEnds
    BY <2>6 DEF CycleEnds, FinishCycle
  <2>7. ASSUME NEW c \in Costs, BudgetThrows(c) PROVE DrainInv'
    BY <2>7 DEF BudgetThrows, FinishCycle
  <2>8. ASSUME NEW c \in Costs, Bill(c) PROVE DrainInv'
    BY <2>8 DEF Bill
  <2> QED
    BY <1>3, <2>1, <2>2, <2>3, <2>4, <2>5, <2>6, <2>7, <2>8
    DEF LoopSteps, LoopStep, CycleStep
<1>4. CASE SessionSteps
  <2>1. ASSUME NEW c \in Costs, AgentPaid(c) PROVE DrainInv'
    BY <1>1, <2>1 DEF AgentPaid
  <2>2. ASSUME NEW to \in SessionStatus, Steer(to) PROVE DrainInv'
    BY <1>1, <2>2 DEF Steer
  <2>3. CASE DrainTimesOut
    BY <2>3 DEF DrainTimesOut
  <2> QED
    BY <1>4, <2>1, <2>2, <2>3 DEF SessionSteps
<1>5. CASE Stops
  <2>1. CASE StopLoop
    BY <2>1 DEF StopLoop
  <2>2. ASSUME NEW to \in Terminal, EndRun(to) PROVE DrainInv'
    BY <2>2 DEF EndRun
  <2> QED
    BY <1>5, <2>1, <2>2 DEF Stops
<1> QED
  BY <1>2, <1>3, <1>4, <1>5 DEF Next

\* What stopAndDrain has reported stays true, whatever triggers, user messages
\* and ticks of the interval come while run closes (orchestrator-loop.ts's
\* stopAndDrain and the finally block of its cycle).
THEOREM DrainIsFinal == Spec => []DrainedIsFinal
  BY InitDrain, NextDrain, PTL DEF Spec, DrainInv

-----------------------------------------------------------------------------
(* The nudges.                                                             *)

\* The NudgeState of an agent that works has gone with the tick that found it
\* working, so that the count of a silent agent is the number of texts it has
\* been sent in this stall, up to the escalation; a nudge in flight counts on
\* a state of this stall only if it escalated in it.
NudgeInv ==
  /\ \A a \in Agents : seen[a] = "new" => said[a] = 0
  /\ \A a \in ToSet(entries) :
       seen[a] = "fresh" =>
         /\ nudges[a] = NoState /\ said[a] = 0
         /\ \A n \in flying : n.for = a => ~n.current
  /\ \A a \in ToSet(entries) :
       seen[a] = "idle" =>
         /\ nudges[a] = NoState => said[a] = 0
         /\ nudges[a] <= RuleBased => said[a] = nudges[a]
         /\ nudges[a] = Escalated => said[a] = RuleBased
         /\ \A n \in flying : n.for = a /\ n.current => NeedsLLM(a)

LEMMA Numbers ==
  /\ RuleBased \in Nat /\ RuleBased >= 1
  /\ Escalated = RuleBased + 1 /\ NoState = RuleBased + 2
  BY MonitorAssumption DEF Escalated, NoState

LEMMA InitNudge == Init => NudgeInv
<1> SUFFICES ASSUME Init PROVE NudgeInv
  OBVIOUS
<1>1. entries = <<>> /\ ToSet(<<>>) = {} /\ \A a \in Agents : said[a] = 0
  BY DEF Init, MonitorInit, ToSet
<1> QED
  BY <1>1 DEF NudgeInv

LEMMA ActsNudge ==
  ASSUME MonitorTypeOK, NudgeInv, NEW a \in Agents,
         AgentActs(a) \/ AgentGone(a) \/ GrowsIdle(a)
  PROVE  NudgeInv'
<1>1. CASE AgentActs(a)
  <2>1. ToSet(entries') \subseteq ToSet(entries) \cup {a}
    BY <1>1, AppendFacts DEF AgentActs, MonitorTypeOK
  <2>2. /\ seen'[a] = "new" /\ said'[a] = 0
        /\ \A b \in Agents \ {a} : seen'[b] = seen[b] /\ said'[b] = said[b]
        /\ UNCHANGED <<nudges, flying>>
    BY <1>1 DEF AgentActs, MonitorTypeOK
  <2> QED
    BY <2>1, <2>2, ToSetTyped DEF NudgeInv, NeedsLLM
<1>2. CASE AgentGone(a)
  <2>1. ToSet(entries') \subseteq ToSet(entries)
    BY <1>2, RemoveAtFacts DEF AgentGone, MonitorTypeOK
  <2> QED
    BY <1>2, <2>1 DEF AgentGone, NudgeInv, NeedsLLM
<1>3. CASE GrowsIdle(a)
  <2>1. /\ a \in ToSet(entries) /\ seen[a] = "fresh" /\ seen'[a] = "idle"
        /\ \A b \in Agents \ {a} : seen'[b] = seen[b]
        /\ UNCHANGED <<entries, nudges, flying, said>>
    BY <1>3 DEF GrowsIdle, MonitorTypeOK
  <2> QED
    BY <2>1, ToSetTyped, Numbers DEF NudgeInv, NeedsLLM
<1> QED
  BY <1>1, <1>2, <1>3

LEMMA StallsNudge ==
  ASSUME MonitorTypeOK, NudgeInv, NEW ask \in BOOLEAN,
         NEW cool \in SUBSET {a \in Tried : nudges[a] \in 1 .. Escalated},
         CheckStalls(ask, cool)
  PROVE  NudgeInv'
<1> DEFINE tried == Tried
           gone == Outgrown
           asked == IF ask THEN {a \in tried \ cool : NeedsLLM(a)} ELSE {}
           told == (tried \ cool) \ asked
           Count(a) == IF a \in tried /\ nudges[a] = NoState THEN 0 ELSE nudges[a]
<1>1. /\ flying' = Detached(gone) \cup [for : asked, current : {TRUE}]
      /\ said' = [a \in Agents |-> IF a \in told THEN Say(said[a]) ELSE said[a]]
      /\ nudges' = [a \in Agents |-> IF a \in gone THEN NoState
                                     ELSE IF a \in told THEN OneMore(Count(a))
                                     ELSE Count(a)]
      /\ seen' = [a \in Agents |-> IF a \in ToSet(entries) /\ seen[a] = "new"
                                   THEN "fresh" ELSE seen[a]]
      /\ UNCHANGED <<watching, entries>>
  BY DEF CheckStalls
<1>2. /\ \A a \in tried : a \in ToSet(entries) /\ seen[a] = "idle"
      /\ ToSet(entries) \subseteq Agents /\ tried \subseteq Agents
      /\ \A a \in ToSet(entries) : a \in gone <=> seen[a] # "idle"
      /\ \A a \in gone : a \in ToSet(entries) /\ seen[a] # "idle"
      /\ told \subseteq tried /\ asked \subseteq tried
      /\ \A a \in asked : NeedsLLM(a)
  BY TriedAreIdle, ToSetTyped DEF Outgrown
<1>3. \A n \in flying' :
        \/ n.for \in asked
        \/ \E m \in flying : n.for = m.for /\ (n.current => m.current /\ m.for \notin gone)
  <2> SUFFICES ASSUME NEW n \in flying', ~(n.for \in asked)
               PROVE  \E m \in flying :
                        n.for = m.for /\ (n.current => m.current /\ m.for \notin gone)
    OBVIOUS
  <2>1. n \in Detached(gone)
    BY <1>1
  <2>2. PICK m \in flying :
          n = IF m.for \in gone THEN [m EXCEPT !.current = FALSE] ELSE m
    BY <2>1 DEF Detached
  <2>3. m \in Nudge
    BY DEF MonitorTypeOK
  <2> QED
    BY <2>2, <2>3 DEF Nudge
<1>4. \A a \in Agents : seen'[a] = "new" => said'[a] = 0
  BY <1>1, <1>2 DEF NudgeInv
<1>5. ASSUME NEW a \in ToSet(entries'), seen'[a] = "fresh"
      PROVE  /\ nudges'[a] = NoState /\ said'[a] = 0
             /\ \A n \in flying' : n.for = a => ~n.current
  <2>1. a \in Agents /\ a \in ToSet(entries) /\ seen[a] # "idle" /\ a \in gone
        /\ seen[a] \in {"new", "fresh"}
    BY <1>1, <1>2, <1>5
  <2>2. a \notin asked /\ a \notin told
    BY <1>2, <2>1
  <2> HIDE DEF gone, told, asked
  <2>3. nudges'[a] = NoState /\ said'[a] = 0
    BY <1>1, <2>1, <2>2 DEF NudgeInv
  <2>4. \A n \in flying' : n.for = a => ~n.current
    BY <1>3, <2>1, <2>2
  <2> QED
    BY <2>3, <2>4
<1>6. ASSUME NEW a \in ToSet(entries'), seen'[a] = "idle"
      PROVE  /\ nudges'[a] = NoState => said'[a] = 0
             /\ nudges'[a] <= RuleBased => said'[a] = nudges'[a]
             /\ nudges'[a] = Escalated => said'[a] = RuleBased
             /\ \A n \in flying' : n.for = a /\ n.current => NeedsLLM(a)'
  <2>1. /\ a \in Agents /\ a \in ToSet(entries) /\ seen[a] = "idle" /\ a \notin gone
        /\ nudges[a] \in 0 .. NoState
    BY <1>1, <1>2, <1>6 DEF MonitorTypeOK
  <2>2. /\ nudges[a] = NoState => said[a] = 0
        /\ nudges[a] <= RuleBased => said[a] = nudges[a]
        /\ nudges[a] = Escalated => said[a] = RuleBased
        /\ \A n \in flying : n.for = a /\ n.current => NeedsLLM(a)
    BY <2>1 DEF NudgeInv
  <2>3. CASE a \in told
    <3>1. nudges'[a] = OneMore(Count(a)) /\ said'[a] = Say(said[a])
      BY <1>1, <2>1, <2>3
    <3>2. a \in tried /\ a \notin asked
      BY <2>3
    <3>3. CASE nudges[a] = NoState
      <4>1. nudges'[a] = 1 /\ said'[a] = 1 /\ ~NeedsLLM(a)
        BY <2>2, <3>1, <3>2, <3>3, Numbers DEF OneMore, Say, NeedsLLM
      <4>2. \A n \in flying' : n.for = a => ~n.current
        BY <1>3, <2>2, <3>2, <4>1
      <4> QED
        BY <4>1, <4>2, Numbers
    <3>4. CASE nudges[a] # NoState
      <4>1. Count(a) = nudges[a]
        BY <3>4
      <4>2. /\ nudges'[a] = NoState => said'[a] = 0
            /\ nudges'[a] <= RuleBased => said'[a] = nudges'[a]
            /\ nudges'[a] = Escalated => said'[a] = RuleBased
        BY <2>1, <2>2, <3>1, <3>4, <4>1, Numbers DEF OneMore, Say
      <4>3. NeedsLLM(a) => NeedsLLM(a)'
        BY <3>1, <4>1, Numbers DEF NeedsLLM, OneMore
      <4>4. \A n \in flying' : n.for = a /\ n.current => NeedsLLM(a)
        BY <1>3, <2>2, <3>2
      <4> QED
        BY <4>2, <4>3, <4>4
    <3> QED
      BY <3>3, <3>4
  <2>4. CASE a \notin told
    <3>1. nudges[a] = NoState => a \notin tried
      <4> SUFFICES ASSUME nudges[a] = NoState, a \in tried PROVE FALSE
        OBVIOUS
      <4>1. a \notin cool /\ ~NeedsLLM(a)
        BY Numbers DEF NeedsLLM
      <4> QED
        BY <2>4, <4>1
    <3>2. nudges'[a] = nudges[a] /\ said'[a] = said[a]
      BY <1>1, <2>1, <2>4, <3>1
    <3>3. \A n \in flying' : n.for = a /\ n.current => NeedsLLM(a)
      BY <1>2, <1>3, <2>2
    <3> QED
      BY <2>2, <3>2, <3>3 DEF NeedsLLM
  <2> QED
    BY <2>3, <2>4
<1> QED
  BY <1>4, <1>5, <1>6 DEF NudgeInv

LEMMA DoneNudge ==
  ASSUME MonitorTypeOK, NudgeInv, NEW n \in flying, NudgeDone(n)
  PROVE  NudgeInv'
<1>1. n.for \in Agents /\ flying' \subseteq flying /\ UNCHANGED <<entries, seen, said>>
  BY DEF NudgeDone, MonitorTypeOK, Nudge
<1>2. CASE ~n.current
  BY <1>1, <1>2 DEF NudgeDone, NudgeInv, NeedsLLM
<1>3. CASE n.current
  <2>1. /\ nudges'[n.for] = OneMore(nudges[n.for])
        /\ \A b \in Agents \ {n.for} : nudges'[b] = nudges[b]
    BY <1>1, <1>3 DEF NudgeDone, MonitorTypeOK
  <2>2. ASSUME n.for \in ToSet(entries)
        PROVE  /\ seen[n.for] # "fresh"
               /\ seen[n.for] = "idle" =>
                    nudges'[n.for] = Escalated /\ said[n.for] = RuleBased
    <3>1. seen[n.for] # "fresh"
      BY <1>3, <2>2 DEF NudgeInv
    <3>2. ASSUME seen[n.for] = "idle"
          PROVE  nudges'[n.for] = Escalated /\ said[n.for] = RuleBased
      <4>1. nudges[n.for] \in RuleBased .. Escalated
        BY <1>3, <2>2, <3>2 DEF NudgeInv, NeedsLLM
      <4>2. said[n.for] = RuleBased
        BY <2>2, <3>2, <4>1, Numbers DEF NudgeInv
      <4> QED
        BY <2>1, <4>1, <4>2, Numbers DEF OneMore
    <3> QED
      BY <3>1, <3>2
  <2>3. \A b \in ToSet(entries) : b \in Agents
    BY ToSetTyped
  <2>4. \A b \in ToSet(entries') : seen'[b] = "fresh" =>
          /\ nudges'[b] = NoState /\ said'[b] = 0
          /\ \A m \in flying' : m.for = b => ~m.current
    BY <1>1, <2>1, <2>2, <2>3 DEF NudgeInv
  <2>5. ASSUME NEW b \in ToSet(entries'), seen'[b] = "idle"
        PROVE  /\ nudges'[b] = NoState => said'[b] = 0
               /\ nudges'[b] <= RuleBased => said'[b] = nudges'[b]
               /\ nudges'[b] = Escalated => said'[b] = RuleBased
               /\ \A m \in flying' : m.for = b /\ m.current => NeedsLLM(b)'
    <3>1. CASE b = n.for
      BY <1>1, <2>2, <2>5, <3>1, Numbers DEF NeedsLLM
    <3>2. CASE b # n.for
      <4>1. nudges'[b] = nudges[b] /\ b \in ToSet(entries) /\ seen[b] = "idle"
        BY <1>1, <2>1, <2>3, <2>5, <3>2
      <4> QED
        BY <1>1, <4>1 DEF NudgeInv, NeedsLLM
    <3> QED
      BY <3>1, <3>2
  <2> QED
    BY <1>1, <2>4, <2>5 DEF NudgeInv
<1> QED
  BY <1>2, <1>3

LEMMA StopNudge ==
  ASSUME NudgeInv, StopMonitor
  PROVE  NudgeInv'
<1>1. ToSet(entries') = {} /\ UNCHANGED <<seen, said>>
  BY DEF StopMonitor, ToSet
<1> QED
  BY <1>1 DEF NudgeInv

LEMMA NextNudge == TypeOK /\ NudgeInv /\ [Next]_vars => NudgeInv'
<1> SUFFICES ASSUME TypeOK, NudgeInv, [Next]_vars PROVE NudgeInv'
  OBVIOUS
<1> USE DEF TypeOK
<1>1. CASE MonitorTicks
  BY <1>1, StallsNudge DEF MonitorTicks, Tick
<1>2. CASE AgentsStep
  BY <1>2, ActsNudge DEF AgentsStep, MonitorStep
<1>3. CASE NudgeSteps
  BY <1>3, DoneNudge DEF NudgeSteps, NudgeStep
<1>4. CASE Stops
  BY <1>4, StopNudge DEF Stops
<1>5. CASE LoopSteps \/ SessionSteps \/ UNCHANGED vars
  BY <1>5 DEF LoopSteps, SessionSteps, vars, monitorVars, NudgeInv, NeedsLLM
<1> QED
  BY <1>1, <1>2, <1>3, <1>4, <1>5 DEF Next

\* The model is asked about an agent only after it has been sent the rule-based
\* nudges in the same stall, for any number of agents and any RuleBased, with
\* nudges of earlier stalls still in flight (nudge.ts's triggerNudge and the
\* delete in active-monitor.ts's checkStalls).
THEOREM EscalatesEarned == Spec => []EscalationIsEarned
<1>1. Init => TypeOK /\ NudgeInv
  BY InitTyped, InitNudge
<1>2. (TypeOK /\ NudgeInv) /\ [Next]_vars => (TypeOK /\ NudgeInv)'
  BY NextTyped, NextNudge
<1>3. TypeOK /\ NudgeInv => EscalationIsEarned
  BY Numbers DEF NudgeInv, EscalationIsEarned, NeedsLLM, TypeOK, MonitorTypeOK
<1> QED
  BY <1>1, <1>2, <1>3, PTL DEF Spec
=============================================================================
