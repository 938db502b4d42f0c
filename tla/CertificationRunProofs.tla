------------------------ MODULE CertificationRunProofs ------------------------
(***************************************************************************)
(* What the certification validator's verdict is worth, for any leads and  *)
(* workers, any outcomes of theirs and any number of inputs of the         *)
(* operator: what the trace holds of a run, and what the checks make of it.*)
(***************************************************************************)
EXTENDS CertificationRun, SequenceTheorems, TLAPS

-----------------------------------------------------------------------------
(* The invariant: how the trace follows the run.                           *)

Line == [type : {"agent.end", "agent.start", "spawn.decision", "participant.start",
                 "steer.action", "participant.end"},
         id : Leads \cup Workers \cup {Synth} \cup Nat,
         what : Grades \cup {"message", "pause", "resume", "stop", "none"},
         text : Kinds \cup {"none"}]

TypeOK ==
  /\ leadOnly \in BOOLEAN
  /\ phase \in {"leads", "synthesis", "concluded", "failed", "ended", "killed"}
  /\ team \in [Leads -> {"briefing", "workers", "over"}]
  /\ grade \in [Leads -> Grades \cup {"none", "threw"}]
  /\ worker \in [Workers -> {"idle", "decided", "running", "done"}]
  /\ status \in SessionStatus
  /\ trace.lines \in Seq(Line)
  /\ steers \in Seq({"message", "pause", "resume", "stop"})

At(i) == trace.lines[i]

\* Where the teams, their workers and the step stand.
StagesAgree ==
  /\ \A l \in Leads :
       /\ team[l] = "over" <=> grade[l] # "none"
       /\ team[l] = "workers" => ~leadOnly /\ \E w \in Workers : LeadOf[w] = l
  /\ \A w \in Workers : worker[w] # "idle" => ~leadOnly
  /\ phase \notin {"leads", "killed"} => \A l \in Leads : team[l] = "over"
  /\ phase = "concluded" => \A l \in Leads : grade[l] \notin {"FAILED", "threw"}

\* The one end of l in the trace is its team's result, or workers of the team
\* have run before its last.
GradeTraced(l) ==
  \E i \in AgentEnds(trace) :
    /\ At(i).id = l
    /\ \/ At(i).what = grade[l] /\ \A j \in AgentEnds(trace) : At(j).id = l => j = i
       \/ \E w \in Workers : LeadOf[w] = l /\ worker[w] = "done"

EndsTraced ==
  /\ \A i \in AgentEnds(trace) : At(i).id \in Leads => team[At(i).id] # "briefing"
  /\ \A l \in Leads : grade[l] \notin {"none", "threw"} => GradeTraced(l)

SynthesisTraced ==
  /\ \A i, j \in AgentEnds(trace) : At(i).id = Synth /\ At(j).id = Synth => i = j
  /\ (\E i \in AgentEnds(trace) : At(i).id = Synth) => phase \notin Running
  /\ phase = "concluded" \/ status = "completed" =>
       \E i \in AgentEnds(trace) : At(i).id = Synth

SpawnsTraced ==
  /\ \A d \in Of(trace, "spawn.decision") : At(d).id \in Workers /\ worker[At(d).id] # "idle"
  /\ \A c, d \in Of(trace, "spawn.decision") : At(c).id = At(d).id => c = d
  /\ \A w \in Workers : worker[w] # "idle" => \E d \in Of(trace, "spawn.decision") : At(d).id = w
  /\ \A s \in Of(trace, "agent.start") :
       /\ At(s).id \in Workers /\ worker[At(s).id] \notin {"idle", "decided"}
       /\ \E d \in Of(trace, "spawn.decision") : d < s /\ At(d).id = At(s).id
  /\ \A w \in Workers :
       worker[w] \notin {"idle", "decided"} => \E s \in Of(trace, "agent.start") : At(s).id = w

\* A steer action is of the operator's, and stands in its brackets.
SteersTraced ==
  /\ \A i \in Steers(trace) : /\ Bracketed(trace, i)
                              /\ \E k \in DOMAIN steers : steers[k] = At(i).what
  /\ heeded # {} => Steers(trace) # {}
  /\ "stop" \in heeded => status = "error"

OutcomesNoted ==
  /\ \A l \in Leads : grade[l] \notin {"none", "threw"} =>
       \E e \in Noted(trace, "participant.closed") : e.id = l
  /\ \A e \in Noted(trace, "participant.stale") : e.id \in Leads
  /\ phase # "ended" => Noted(trace, "session.end") = {} /\ status # "completed"
  /\ phase = "ended" =>
       \/ /\ status = "error"
          /\ \E e \in Noted(trace, "session.end") : e.what # "completed"
       \/ /\ Noted(trace, "session.end") # {}
          /\ \A e \in Noted(trace, "session.end") : e.what = status
          /\ \A l \in Leads : grade[l] \notin {"FAILED", "threw"}

RunInv ==
  /\ TypeOK /\ StagesAgree /\ EndsTraced /\ SynthesisTraced /\ SpawnsTraced
  /\ SteersTraced /\ OutcomesNoted

\* Once the synthesis is spawned, or has left its end in the trace of a process
\* that is gone, every team is over, and one that threw is noted.
Settled ==
  phase \notin {"leads", "killed"} \/ (\E i \in AgentEnds(trace) : At(i).id = Synth) =>
    \A l \in Leads : /\ team[l] = "over"
                     /\ grade[l] = "threw" => Noted(trace, "agent.error") # {}

-----------------------------------------------------------------------------
(* What the recorder appends.                                              *)

LEMMA EventFields ==
  ASSUME NEW type, NEW id, NEW what, NEW text
  PROVE  /\ Event(type, id, what, text).type = type /\ Event(type, id, what, text).id = id
         /\ Event(type, id, what, text).what = what /\ Event(type, id, what, text).text = text
  BY DEF Event

LEMMA EndIsLine ==
  ASSUME NEW id \in Leads \cup Workers \cup {Synth}, NEW out \in Outcome
  PROVE  \E e \in Line : /\ Ended(id, out) = <<e>> /\ e.type = "agent.end"
                         /\ e.id = id /\ e.what = out[1]
<1>1. out[1] \in Grades /\ out[2] \in Kinds
  BY DEF Outcome
<1>2. PICK e : e = Event("agent.end", id, out[1], out[2])
  OBVIOUS
<1>3. e \in Line /\ e.type = "agent.end" /\ e.id = id /\ e.what = out[1]
  BY <1>1, <1>2 DEF Event, Line
<1> QED
  BY <1>2, <1>3 DEF Ended

LEMMA WorkerLine ==
  ASSUME NEW w \in Workers, NEW type \in {"spawn.decision", "agent.start"}
  PROVE  \E e \in Line : e = Event(type, w, "none", "none") /\ e.type = type /\ e.id = w
<1>1. PICK e : e = Event(type, w, "none", "none")
  OBVIOUS
<1>2. e \in Line /\ e.type = type /\ e.id = w
  BY <1>1 DEF Event, Line
<1> QED
  BY <1>1, <1>2

LEMMA NotesOf ==
  ASSUME NEW loose, trace'.loose = trace.loose \cup loose
  PROVE  \A type : Noted(trace', type) = Noted(trace, type) \cup {e \in loose : e.type = type}
  BY DEF Noted

LEMMA CallsAndCloses ==
  ASSUME NEW id, NEW out
  PROVE  /\ \A e \in Called(id, out) : e.type = "tool.call"
         /\ \A e \in Closed(id) : e.type = "participant.closed" /\ e.id = id
         /\ Closed(id) # {}
  BY DEF Called, Closed, Event

LEMMA Appended ==
  ASSUME TypeOK, NEW lines \in Seq(Line), NEW loose, Log(lines, loose)
  PROVE  /\ trace'.lines \in Seq(Line) /\ trace'.loose = trace.loose \cup loose
         /\ Len(trace.lines) \in Nat /\ DOMAIN trace.lines = 1 .. Len(trace.lines)
         /\ DOMAIN trace'.lines = 1 .. Len(trace.lines) + Len(lines)
         /\ \A i \in 1 .. Len(trace.lines) : trace'.lines[i] = trace.lines[i]
         /\ \A k \in 1 .. Len(lines) : trace'.lines[Len(trace.lines) + k] = lines[k]
<1>1. trace.lines \in Seq(Line)
  BY DEF TypeOK
<1>2. trace'.lines = trace.lines \o lines /\ trace'.loose = trace.loose \cup loose
  BY DEF Log, Recorded
<1>3. Len(trace.lines) \in Nat /\ Len(lines) \in Nat
  BY <1>1
<1> QED
  BY <1>1, <1>2, <1>3, ConcatProperties, LenProperties

\* A step that leaves the lines of a type as they are.
Quiet(type) ==
  /\ Of(trace', type) = Of(trace, type)
  /\ \A i \in Of(trace, type) : At(i)' = At(i)

\* A step that writes e behind all lines.
Writes(n, e) ==
  /\ At(n)' = e
  /\ \A i \in DOMAIN trace.lines : i \in Nat /\ i < n /\ At(i)' = At(i)
  /\ Of(trace', e.type) = Of(trace, e.type) \cup {n}

LEMMA LinesOfType ==
  ASSUME NEW type PROVE Of(trace, type) \subseteq DOMAIN trace.lines
  BY DEF Of

\* A note leaves the lines alone.
LEMMA NoteIsQuiet ==
  ASSUME TypeOK, NEW loose, Log(<<>>, loose)
  PROVE  /\ trace'.lines \in Seq(Line) /\ trace'.loose = trace.loose \cup loose
         /\ \A type : Quiet(type)
<1>1. trace.lines \in Seq(Line)
  BY DEF TypeOK
<1>2. trace'.lines = trace.lines /\ trace'.loose = trace.loose \cup loose
  BY <1>1, ConcatEmptySeq DEF Log, Recorded
<1> QED
  BY <1>1, <1>2 DEF Quiet, Of, At

LEMMA SameTraceIsQuiet ==
  ASSUME TypeOK, trace' = trace
  PROVE  trace'.lines \in Seq(Line) /\ \A type : Quiet(type)
  BY DEF TypeOK, Quiet, Of, At

LEMMA LineIsWritten ==
  ASSUME TypeOK, NEW e \in Line, NEW loose, Log(<<e>>, loose)
  PROVE  /\ trace'.lines \in Seq(Line) /\ trace'.loose = trace.loose \cup loose
         /\ \A type : type # e.type => Quiet(type)
         /\ \E n \in Nat : Writes(n, e)
<1>0. PICK n \in Nat : n = Len(trace.lines) + 1
  BY LenProperties DEF TypeOK
<1>1. <<e>> \in Seq(Line) /\ Len(<<e>>) = 1 /\ <<e>>[1] = e
  OBVIOUS
<1>2. /\ trace'.lines \in Seq(Line) /\ trace'.loose = trace.loose \cup loose
      /\ Len(trace.lines) \in Nat /\ DOMAIN trace.lines = 1 .. Len(trace.lines)
      /\ DOMAIN trace'.lines = 1 .. n
      /\ \A i \in 1 .. Len(trace.lines) : trace'.lines[i] = trace.lines[i]
      /\ trace'.lines[n] = e
  <2>1. 1 \in 1 .. Len(<<e>>)
    BY <1>1
  <2>2. trace'.lines[Len(trace.lines) + 1] = <<e>>[1]
    BY <1>1, <2>1, Appended
  <2>3. DOMAIN trace'.lines = 1 .. Len(trace.lines) + 1
    BY <1>1, Appended
  <2> QED
    BY <1>0, <1>1, <2>2, <2>3, Appended
<1>3. DOMAIN trace'.lines = DOMAIN trace.lines \cup {n} /\ n \notin DOMAIN trace.lines
  BY <1>0, <1>2
<1>4. \A type : Of(trace', type) = Of(trace, type) \cup (IF type = e.type THEN {n} ELSE {})
  BY <1>2, <1>3 DEF Of
<1>5. \A type : type # e.type => Quiet(type)
  BY <1>2, <1>4, LinesOfType DEF Quiet, At
<1>6. Writes(n, e) /\ n \in Nat
  BY <1>0, <1>2, <1>4 DEF Writes, At
<1> QED
  BY <1>2, <1>5, <1>6

\* The three lines of a steer action.
LEMMA SteerIsWritten ==
  ASSUME TypeOK, NEW k \in Nat, NEW intent \in {"message", "pause", "resume", "stop"},
         Log(SteerTraced(k, intent), {})
  PROVE  /\ trace'.lines \in Seq(Line) /\ trace'.loose = trace.loose
         /\ \A type \in {"agent.end", "agent.start", "spawn.decision"} : Quiet(type)
         /\ \E n \in Nat :
              /\ Steers(trace') = Steers(trace) \cup {n} /\ At(n)'.what = intent
              /\ \A i \in Steers(trace) : At(i)' = At(i)
              /\ \A i \in Steers(trace) : Bracketed(trace, i) => Bracketed(trace', i)
              /\ Bracketed(trace', n)
<1>1. PICK m \in Nat : m = Len(trace.lines)
  BY LenProperties DEF TypeOK
<1>2. PICK a \in Line, b \in Line, c \in Line :
        /\ SteerTraced(k, intent) = <<a, b, c>>
        /\ a.type = "participant.start" /\ a.id = k
        /\ b.type = "steer.action" /\ b.id = k /\ b.what = intent
        /\ c.type = "participant.end" /\ c.id = k
  <2>1. \E e : e = Event("participant.start", k, "none", "none")
    OBVIOUS
  <2>2. \E e : e = Event("steer.action", k, intent, "none")
    OBVIOUS
  <2>3. \E e : e = Event("participant.end", k, "none", "none")
    OBVIOUS
  <2>4. PICK a, b, c : /\ a = Event("participant.start", k, "none", "none")
                       /\ b = Event("steer.action", k, intent, "none")
                       /\ c = Event("participant.end", k, "none", "none")
    BY <2>1, <2>2, <2>3
  <2>5. a \in Line /\ a.type = "participant.start" /\ a.id = k
    BY <2>4 DEF Event, Line
  <2>6. b \in Line /\ b.type = "steer.action" /\ b.id = k /\ b.what = intent
    BY <2>4 DEF Event, Line
  <2>7. c \in Line /\ c.type = "participant.end" /\ c.id = k
    BY <2>4 DEF Event, Line
  <2>8. SteerTraced(k, intent) = <<a, b, c>>
    BY <2>4 DEF SteerTraced
  <2> QED
    BY <2>5, <2>6, <2>7, <2>8
<1>3. /\ <<a, b, c>> \in Seq(Line) /\ Len(<<a, b, c>>) = 3
      /\ <<a, b, c>>[1] = a /\ <<a, b, c>>[2] = b /\ <<a, b, c>>[3] = c
  OBVIOUS
<1>4. /\ trace'.lines \in Seq(Line) /\ trace'.loose = trace.loose
      /\ DOMAIN trace.lines = 1 .. m /\ DOMAIN trace'.lines = 1 .. m + 3
      /\ \A i \in 1 .. m : trace'.lines[i] = trace.lines[i]
      /\ \A j \in 1 .. 3 : trace'.lines[m + j] = <<a, b, c>>[j]
  <2>1. Log(<<a, b, c>>, {})
    BY <1>2
  <2>2. trace'.lines \in Seq(Line) /\ trace'.loose = trace.loose \cup {}
    BY <1>3, <2>1, Appended
  <2>3. DOMAIN trace.lines = 1 .. m /\ DOMAIN trace'.lines = 1 .. m + 3
    BY <1>1, <1>3, <2>1, Appended
  <2>4. \A i \in 1 .. m : trace'.lines[i] = trace.lines[i]
    BY <1>1, <1>3, <2>1, Appended
  <2>5. \A j \in 1 .. 3 : trace'.lines[m + j] = <<a, b, c>>[j]
    BY <1>1, <1>3, <2>1, Appended
  <2> QED
    BY <2>2, <2>3, <2>4, <2>5
<1>5. trace'.lines[m + 1] = a /\ trace'.lines[m + 2] = b /\ trace'.lines[m + 3] = c
  <2>1. 1 \in 1 .. 3 /\ 2 \in 1 .. 3 /\ 3 \in 1 .. 3
    OBVIOUS
  <2> QED
    BY <1>3, <1>4, <2>1
<1>6. DOMAIN trace'.lines = DOMAIN trace.lines \cup {m + 1, m + 2, m + 3}
  BY <1>4
<1>7. /\ trace'.lines[m + 1].type = "participant.start" /\ trace'.lines[m + 1].id = k
      /\ trace'.lines[m + 2].type = "steer.action" /\ trace'.lines[m + 2].id = k
      /\ trace'.lines[m + 3].type = "participant.end" /\ trace'.lines[m + 3].id = k
      /\ trace'.lines[m + 2].what = intent
  BY <1>2, <1>5
<1>8. \A type : Of(trace, type) \subseteq Of(trace', type) /\ Of(trace, type) \subseteq 1 .. m
  BY <1>4, <1>6 DEF Of
<1>9. ASSUME NEW type \in {"agent.end", "agent.start", "spawn.decision"}
      PROVE  Quiet(type)
  <2>1. Of(trace', type) \subseteq Of(trace, type)
    BY <1>4, <1>6, <1>7 DEF Of
  <2> QED
    BY <1>4, <1>8, <2>1 DEF Quiet, At
<1>10. Steers(trace') = Steers(trace) \cup {m + 2}
  BY <1>4, <1>6, <1>7 DEF Steers, Of
<1>11. ASSUME NEW i \in Steers(trace), Bracketed(trace, i)
       PROVE  Bracketed(trace', i)
  <2>1. \A type : \A j \in Of(trace, type) : trace'.lines[j] = trace.lines[j]
    BY <1>4, <1>8
  <2> QED
    BY <1>8, <1>11, <2>1 DEF Bracketed, Steers
<1>12. Bracketed(trace', m + 2)
  <2>1. m + 1 \in Of(trace', "participant.start") /\ m + 3 \in Of(trace', "participant.end")
    BY <1>6, <1>7 DEF Of
  <2>2. m + 1 < m + 2 /\ m + 2 < m + 3
    OBVIOUS
  <2> QED
    BY <1>7, <2>1, <2>2 DEF Bracketed
<1>13. At(m + 2)'.what = intent /\ \A i \in Steers(trace) : At(i)' = At(i)
  BY <1>4, <1>7, <1>8 DEF At, Steers
<1> QED
  BY <1>4, <1>9, <1>10, <1>11, <1>12, <1>13

-----------------------------------------------------------------------------
(* What keeps the parts of the invariant that a step does not concern.     *)

LEMMA EndsKept ==
  ASSUME EndsTraced, Quiet("agent.end"),
         \A l \in Leads : /\ team'[l] = "briefing" => team[l] = "briefing"
                          /\ grade'[l] \in {grade[l], "threw"},
         \A w \in Workers : worker[w] = "done" => worker'[w] = "done"
  PROVE  EndsTraced'
<1>1. ASSUME NEW l \in Leads, grade'[l] \notin {"none", "threw"}
      PROVE  GradeTraced(l)'
  BY <1>1 DEF EndsTraced, GradeTraced, Quiet, AgentEnds
<1>2. \A i \in AgentEnds(trace') : At(i)'.id \in Leads => team'[At(i)'.id] # "briefing"
  BY DEF EndsTraced, Quiet, AgentEnds
<1> QED
  BY <1>1, <1>2 DEF EndsTraced

LEMMA SynthesisKept ==
  ASSUME SynthesisTraced, Quiet("agent.end"), phase' \in Running => phase \in Running,
         phase' = "concluded" => phase = "concluded",
         status' = "completed" => status = "completed" \/ phase = "concluded"
  PROVE  SynthesisTraced'
  BY DEF SynthesisTraced, Quiet, AgentEnds

LEMMA SpawnsKept ==
  ASSUME SpawnsTraced, Quiet("agent.start"), Quiet("spawn.decision"),
         \A w \in Workers : \/ worker'[w] = worker[w]
                            \/ worker[w] = "running" /\ worker'[w] = "done"
  PROVE  SpawnsTraced'
  BY DEF SpawnsTraced, Quiet

LEMMA SteersKept ==
  ASSUME SteersTraced, \A type \in {"participant.start", "steer.action", "participant.end"} :
                         Quiet(type),
         UNCHANGED <<steers, heeded>>, status = "error" => status' = "error"
  PROVE  SteersTraced'
<1>1. ASSUME NEW i \in Steers(trace)
      PROVE  Bracketed(trace', i) /\ At(i)' = At(i)
  BY <1>1 DEF SteersTraced, Quiet, Steers, Bracketed, At
<1>2. Steers(trace') = Steers(trace)
  BY DEF Quiet, Steers
<1> QED
  BY <1>1, <1>2 DEF SteersTraced

LEMMA OutcomesKept ==
  ASSUME OutcomesNoted, NEW loose, trace'.loose = trace.loose \cup loose,
         \A e \in loose : /\ e.type # "session.end"
                          /\ e.type = "participant.stale" => e.id \in Leads,
         \A l \in Leads : grade'[l] \notin {grade[l], "none", "threw"} =>
                            \E e \in loose : e.type = "participant.closed" /\ e.id = l,
         phase' # phase => phase' # "ended" /\ phase # "ended",
         status' # status => phase # "ended" /\ status' # "completed",
         phase = "ended" => \A l \in Leads : grade'[l] = grade[l]
  PROVE  OutcomesNoted'
  BY NotesOf DEF OutcomesNoted

LEMMA OutcomesFramed ==
  ASSUME OutcomesNoted, UNCHANGED <<phase, grade, status>>,
         NEW loose, trace'.loose = trace.loose \cup loose,
         \A e \in loose : e.type \notin {"session.end", "participant.stale"}
  PROVE  OutcomesNoted'
<1>1. \A l \in Leads : grade'[l] \in {grade[l]}
  OBVIOUS
<1> QED
  BY <1>1, OutcomesKept

-----------------------------------------------------------------------------
(* The steps.                                                              *)

LEMMA InitHolds == Init => RunInv
<1> SUFFICES ASSUME Init PROVE RunInv
  OBVIOUS
<1>1. TypeOK
  BY DEF Init, TypeOK, SessionStatus
<1>2. \A type : Of(trace, type) = {} /\ Noted(trace, type) = {}
  BY DEF Init, Of, Noted
<1>3. StagesAgree
  BY DEF Init, StagesAgree
<1>4. EndsTraced /\ SynthesisTraced
  BY <1>2 DEF Init, EndsTraced, SynthesisTraced, AgentEnds
<1>5. SpawnsTraced
  BY <1>2 DEF Init, SpawnsTraced
<1>6. SteersTraced /\ OutcomesNoted
  BY <1>2 DEF Init, SteersTraced, OutcomesNoted, Steers
<1> QED
  BY <1>1, <1>3, <1>4, <1>5, <1>6 DEF RunInv

\* The variables keep their types, whatever the lines of the step.
LEMMA TypeKept ==
  ASSUME TypeOK, Next, trace'.lines \in Seq(Line)
  PROVE  TypeOK'
<1> USE DEF TypeOK
<1>1. ASSUME NEW l \in Leads, LeadEnds(l) \/ TeamThrows(l) \/ LeadReviews(l) \/ MonitorFindsStale(l)
      PROVE  TypeOK'
  <2>1. \A out \in LeadOutcomes[l] : out[1] \in Grades
    BY OutcomesAssumption DEF Outcome
  <2>2. "threw" \in Grades \cup {"none", "threw"} /\ {"VERIFIED", "FAILED"} \subseteq Grades
    BY DEF Grades
  <2> QED
    BY <1>1, <2>1, <2>2 DEF LeadEnds, TeamThrows, LeadReviews, MonitorFindsStale, TeamEnds
<1>2. ASSUME NEW w \in Workers, WorkerDecided(w) \/ WorkerSpawned(w) \/ WorkerEnds(w)
      PROVE  TypeOK'
  BY <1>2 DEF WorkerDecided, WorkerSpawned, WorkerEnds
<1>3. CASE TeamsSettle \/ SynthesisEnds
  BY <1>3 DEF TeamsSettle, SynthesisEnds
<1>4. CASE Ends \/ ShutDown \/ Killed
  BY <1>4 DEF Ends, ShutDown, Killed, Transition, SessionStatus
<1>5. ASSUME NEW intent \in {"message", "pause", "resume", "stop"}, OperatorSends(intent)
      PROVE  steers' \in Seq({"message", "pause", "resume", "stop"})
  BY <1>5 DEF OperatorSends
<1>6. CASE MessageSent
  BY <1>5, <1>6 DEF MessageSent, OperatorSends
<1>7. ASSUME NEW intent \in Intents \ {"message"}, CommandSent(intent)
      PROVE  TypeOK'
  <2>1. intent \in {"pause", "resume", "stop"}
    BY OutcomesAssumption
  <2>2. Wanted[intent] \in SessionStatus
    BY <2>1 DEF Wanted, SessionStatus
  <2> QED
    BY <1>5, <1>7, <2>1, <2>2 DEF CommandSent, OperatorSends, Transition
<1> QED
  BY <1>1, <1>2, <1>3, <1>4, <1>6, <1>7 DEF Next

LEMMA StagesKept ==
  ASSUME TypeOK, StagesAgree, Next
  PROVE  StagesAgree'
<1> USE DEF StagesAgree, TypeOK
<1>1. ASSUME NEW l \in Leads, LeadEnds(l)
      PROVE  StagesAgree'
  <2>1. \A out \in LeadOutcomes[l] : out[1] \notin {"none", "threw"}
    BY OutcomesAssumption DEF Outcome, Grades
  <2> QED
    BY <1>1, <2>1 DEF LeadEnds, TeamEnds
<1>2. ASSUME NEW l \in Leads, TeamThrows(l)
      PROVE  StagesAgree'
  BY <1>2 DEF TeamThrows
<1>3. ASSUME NEW l \in Leads, LeadReviews(l)
      PROVE  StagesAgree'
  BY <1>3 DEF LeadReviews, TeamEnds
<1>4. ASSUME NEW l \in Leads, MonitorFindsStale(l)
      PROVE  StagesAgree'
  BY <1>4 DEF MonitorFindsStale
<1>5. ASSUME NEW w \in Workers, WorkerDecided(w) \/ WorkerSpawned(w) \/ WorkerEnds(w)
      PROVE  StagesAgree'
  <2>1. LeadOf[w] \in Leads
    BY CastAssumption
  <2>2. ~leadOnly
    BY <1>5, <2>1 DEF WorkerDecided, WorkerSpawned, WorkerEnds
  <2>3. UNCHANGED <<leadOnly, phase, team, grade>>
    BY <1>5 DEF WorkerDecided, WorkerSpawned, WorkerEnds
  <2> QED
    BY <2>2, <2>3
<1>6. CASE TeamsSettle
  BY <1>6 DEF TeamsSettle
<1>7. CASE SynthesisEnds
  BY <1>7 DEF SynthesisEnds
<1>8. CASE Ends \/ ShutDown \/ Killed
  BY <1>8 DEF Ends, ShutDown, Killed
<1>9. CASE MessageSent \/ \E intent \in Intents : CommandSent(intent)
  BY <1>9 DEF MessageSent, CommandSent, OperatorSends
<1> QED
  BY <1>1, <1>2, <1>3, <1>4, <1>5, <1>6, <1>7, <1>8, <1>9 DEF Next

\* A step that logs notes only.
LEMMA QuietSteps ==
  ASSUME RunInv, TypeOK', StagesAgree', NEW loose,
         trace'.loose = trace.loose \cup loose, \A type : Quiet(type),
         UNCHANGED <<steers, heeded>>, status = "error" => status' = "error",
         \A l \in Leads : /\ team'[l] = "briefing" => team[l] = "briefing"
                          /\ grade'[l] \in {grade[l], "threw"},
         \A w \in Workers : \/ worker'[w] = worker[w]
                            \/ worker[w] = "running" /\ worker'[w] = "done",
         phase' \in Running => phase \in Running,
         phase' = "concluded" => phase = "concluded",
         status' = "completed" => status = "completed" \/ phase = "concluded",
         OutcomesNoted'
  PROVE  RunInv'
<1>1. EndsTraced'
  BY EndsKept DEF RunInv
<1>2. SynthesisTraced' /\ SpawnsTraced' /\ SteersTraced'
  BY SynthesisKept, SpawnsKept, SteersKept DEF RunInv
<1> QED
  BY <1>1, <1>2 DEF RunInv

\* Notes that neither end the session nor find anyone stale but a lead.
PlainNotes(loose) ==
  /\ trace'.lines \in Seq(Line) /\ trace'.loose = trace.loose \cup loose
  /\ \A type : Quiet(type)
  /\ \A e \in loose : /\ e.type # "session.end"
                      /\ e.type = "participant.stale" => e.id \in Leads

\* A step on which no team, worker or step has a result.
NoResult ==
  /\ UNCHANGED <<steers, heeded, status>>
  /\ \A l \in Leads : /\ team'[l] = "briefing" => team[l] = "briefing"
                      /\ grade'[l] \in {grade[l], "threw"}
  /\ \A w \in Workers : \/ worker'[w] = worker[w]
                        \/ worker[w] = "running" /\ worker'[w] = "done"
  /\ \/ phase' = phase
     \/ phase \in Running /\ phase' \in {"synthesis", "failed"}
     \/ phase # "ended" /\ phase' = "killed"
  /\ phase = "ended" => UNCHANGED grade

LEMMA NotesKeep ==
  ASSUME RunInv, Next, NEW loose, PlainNotes(loose), NoResult
  PROVE  RunInv'
<1>1. TypeOK' /\ StagesAgree'
  BY TypeKept, StagesKept DEF RunInv, PlainNotes
<1>2. OutcomesNoted'
  <2>1. phase' # phase => phase' # "ended" /\ phase # "ended"
    BY DEF Running, NoResult
  <2>2. /\ \A l \in Leads : grade'[l] \in {grade[l], "threw"}
        /\ phase = "ended" => \A l \in Leads : grade'[l] = grade[l]
        /\ status' = status
    BY DEF NoResult
  <2>3. /\ OutcomesNoted /\ trace'.loose = trace.loose \cup loose
        /\ \A e \in loose : /\ e.type # "session.end"
                            /\ e.type = "participant.stale" => e.id \in Leads
    BY DEF RunInv, PlainNotes
  <2> QED
    BY <2>1, <2>2, <2>3, OutcomesKept
<1>3. phase' \in Running => phase \in Running
  BY DEF Running, NoResult
<1>4. phase' = "concluded" => phase = "concluded"
  BY DEF Running, NoResult
<1> QED
  BY <1>1, <1>2, <1>3, <1>4, QuietSteps DEF PlainNotes, NoResult

LEMMA NoNote ==
  ASSUME TypeOK, trace' = trace
  PROVE  PlainNotes({})
<1>1. trace.loose \cup {} = trace.loose
  OBVIOUS
<1> QED
  BY <1>1, SameTraceIsQuiet DEF PlainNotes

LEMMA OneNote ==
  ASSUME TypeOK, NEW type \in {"agent.error", "participant.stale"}, NEW id,
         type = "participant.stale" => id \in Leads, Note(type, id, "none")
  PROVE  PlainNotes({Event(type, id, "none", "none")})
<1>1. PICK e : e = Event(type, id, "none", "none")
  OBVIOUS
<1>2. e.type = type /\ e.id = id
  BY <1>1 DEF Event
<1>3. Log(<<>>, {e})
  BY <1>1 DEF Note
<1> QED
  BY <1>1, <1>2, <1>3, NoteIsQuiet DEF PlainNotes

LEMMA TeamThrowsKeeps ==
  ASSUME RunInv, NEW l \in Leads, TeamThrows(l), Next
  PROVE  RunInv'
<1>1. PlainNotes({})
  BY NoNote DEF RunInv, TeamThrows
<1>2. NoResult
  BY DEF RunInv, TypeOK, TeamThrows, NoResult
<1> QED
  BY <1>1, <1>2, NotesKeep

LEMMA StaleKeeps ==
  ASSUME RunInv, NEW l \in Leads, MonitorFindsStale(l), Next
  PROVE  RunInv'
<1>1. PlainNotes({Event("participant.stale", l, "none", "none")})
  BY OneNote DEF RunInv, MonitorFindsStale
<1>2. NoResult
  BY DEF MonitorFindsStale, NoResult
<1> QED
  BY <1>1, <1>2, NotesKeep

LEMMA TeamsSettleKeeps ==
  ASSUME RunInv, TeamsSettle, Next
  PROVE  RunInv'
<1> DEFINE notes == {Event("agent.error", l, "none", "none") :
                       l \in {m \in Leads : grade[m] = "threw"}}
<1>1. PICK loose : loose = notes
  OBVIOUS
<1>2. \A e \in loose : e.type = "agent.error"
  <2> SUFFICES ASSUME NEW e \in loose PROVE e.type = "agent.error"
    OBVIOUS
  <2>1. PICK l : e = Event("agent.error", l, "none", "none")
    BY <1>1
  <2> QED
    BY <2>1 DEF Event
<1>3. Log(<<>>, loose)
  BY <1>1 DEF TeamsSettle
<1>4. PlainNotes(loose)
  BY <1>2, <1>3, NoteIsQuiet DEF RunInv, PlainNotes
<1>5. NoResult
  BY DEF TeamsSettle, Running, NoResult
<1> QED
  BY <1>4, <1>5, NotesKeep

\* A step that writes the line e about a worker, and no note but of its tools.
LEMMA WorkerDecidedKeeps ==
  ASSUME RunInv, NEW w \in Workers, WorkerDecided(w), Next
  PROVE  RunInv'
<1>1. PICK e \in Line : /\ e = Event("spawn.decision", w, "none", "none")
                        /\ e.type = "spawn.decision" /\ e.id = w
  BY WorkerLine
<1>2. /\ trace'.lines \in Seq(Line) /\ trace'.loose = trace.loose \cup {}
      /\ \A type : type # e.type => Quiet(type)
      /\ \E n \in Nat : Writes(n, e)
  BY <1>1, LineIsWritten DEF RunInv, WorkerDecided
<1>3. TypeOK' /\ StagesAgree'
  BY <1>2, TypeKept, StagesKept DEF RunInv
<1>4. /\ UNCHANGED <<leadOnly, phase, team, grade, status, steers, heeded>>
      /\ worker \in [Workers -> {"idle", "decided", "running", "done"}]
      /\ worker[w] = "idle" /\ worker' = [worker EXCEPT ![w] = "decided"]
  BY DEF WorkerDecided, RunInv, TypeOK
<1>5. EndsTraced'
  BY <1>1, <1>2, <1>4, EndsKept DEF RunInv
<1>6. SynthesisTraced'
  BY <1>1, <1>2, <1>4, SynthesisKept DEF RunInv
<1>7. SteersTraced'
  BY <1>1, <1>2, <1>4, SteersKept DEF RunInv
<1>8. OutcomesNoted'
  <2>1. PICK loose : loose = {}
    OBVIOUS
  <2>2. trace'.loose = trace.loose \cup loose
    BY <1>2, <2>1
  <2>3. \A o \in loose : o.type \notin {"session.end", "participant.stale"}
    BY <2>1
  <2> QED
    BY <1>4, <2>2, <2>3, OutcomesFramed DEF RunInv
<1>9. SpawnsTraced'
  <2>1. PICK n \in Nat : Writes(n, e)
    BY <1>2
  <2>2. Quiet("agent.start")
    BY <1>1, <1>2
  <2>3. /\ Of(trace', "spawn.decision") = Of(trace, "spawn.decision") \cup {n}
        /\ At(n)'.id = w /\ \A d \in Of(trace, "spawn.decision") : At(d)' = At(d) /\ d < n
    BY <1>1, <2>1, LinesOfType DEF Writes
  <2>4. /\ Of(trace', "agent.start") = Of(trace, "agent.start")
        /\ \A s \in Of(trace, "agent.start") : At(s)' = At(s)
    BY <2>2 DEF Quiet
  <2>5. \A d \in Of(trace, "spawn.decision") : At(d).id # w
    BY <1>4 DEF RunInv, SpawnsTraced
  <2>6. /\ \A d \in Of(trace', "spawn.decision") :
             At(d)'.id \in Workers /\ worker'[At(d)'.id] # "idle"
        /\ \A c, d \in Of(trace', "spawn.decision") : At(c)'.id = At(d)'.id => c = d
    BY <1>4, <2>3, <2>5 DEF RunInv, SpawnsTraced
  <2>7. \A v \in Workers : worker'[v] # "idle" =>
                            \E d \in Of(trace', "spawn.decision") : At(d)'.id = v
    BY <1>4, <2>3 DEF RunInv, SpawnsTraced
  <2>8. \A s \in Of(trace', "agent.start") :
          /\ At(s)'.id \in Workers /\ worker'[At(s)'.id] \notin {"idle", "decided"}
          /\ \E d \in Of(trace', "spawn.decision") : d < s /\ At(d)'.id = At(s)'.id
    BY <1>4, <2>3, <2>4 DEF RunInv, SpawnsTraced
  <2>9. \A v \in Workers : worker'[v] \notin {"idle", "decided"} =>
                            \E s \in Of(trace', "agent.start") : At(s)'.id = v
    BY <1>4, <2>4 DEF RunInv, SpawnsTraced
  <2> QED
    BY <2>6, <2>7, <2>8, <2>9 DEF SpawnsTraced
<1> QED
  BY <1>3, <1>5, <1>6, <1>7, <1>8, <1>9 DEF RunInv

LEMMA WorkerSpawnedKeeps ==
  ASSUME RunInv, NEW w \in Workers, WorkerSpawned(w), Next
  PROVE  RunInv'
<1>1. PICK e \in Line : /\ e = Event("agent.start", w, "none", "none")
                        /\ e.type = "agent.start" /\ e.id = w
  BY WorkerLine
<1>2. /\ trace'.lines \in Seq(Line) /\ trace'.loose = trace.loose \cup {}
      /\ \A type : type # e.type => Quiet(type)
      /\ \E n \in Nat : Writes(n, e)
  BY <1>1, LineIsWritten DEF RunInv, WorkerSpawned
<1>3. TypeOK' /\ StagesAgree'
  BY <1>2, TypeKept, StagesKept DEF RunInv
<1>4. /\ UNCHANGED <<leadOnly, phase, team, grade, status, steers, heeded>>
      /\ worker \in [Workers -> {"idle", "decided", "running", "done"}]
      /\ worker[w] = "decided" /\ worker' = [worker EXCEPT ![w] = "running"]
  BY DEF WorkerSpawned, RunInv, TypeOK
<1>5. EndsTraced'
  BY <1>1, <1>2, <1>4, EndsKept DEF RunInv
<1>6. SynthesisTraced'
  BY <1>1, <1>2, <1>4, SynthesisKept DEF RunInv
<1>7. SteersTraced'
  BY <1>1, <1>2, <1>4, SteersKept DEF RunInv
<1>8. OutcomesNoted'
  <2>1. PICK loose : loose = {}
    OBVIOUS
  <2>2. trace'.loose = trace.loose \cup loose
    BY <1>2, <2>1
  <2>3. \A o \in loose : o.type \notin {"session.end", "participant.stale"}
    BY <2>1
  <2> QED
    BY <1>4, <2>2, <2>3, OutcomesFramed DEF RunInv
<1>9. SpawnsTraced'
  <2>1. PICK n \in Nat : Writes(n, e)
    BY <1>2
  <2>2. Quiet("spawn.decision")
    BY <1>1, <1>2
  <2>3. /\ Of(trace', "agent.start") = Of(trace, "agent.start") \cup {n}
        /\ At(n)'.id = w /\ \A d \in Of(trace, "agent.start") : At(d)' = At(d)
        /\ \A d \in Of(trace, "spawn.decision") : d < n
    BY <1>1, <2>1, LinesOfType DEF Writes
  <2>4. /\ Of(trace', "spawn.decision") = Of(trace, "spawn.decision")
        /\ \A d \in Of(trace, "spawn.decision") : At(d)' = At(d)
    BY <2>2 DEF Quiet
  <2>5. PICK d \in Of(trace, "spawn.decision") : At(d).id = w
    BY <1>4 DEF RunInv, SpawnsTraced
  <2>6. /\ \A c \in Of(trace', "spawn.decision") :
             At(c)'.id \in Workers /\ worker'[At(c)'.id] # "idle"
        /\ \A b, c \in Of(trace', "spawn.decision") : At(b)'.id = At(c)'.id => b = c
    BY <1>4, <2>4 DEF RunInv, SpawnsTraced
  <2>7. \A v \in Workers : worker'[v] # "idle" =>
                            \E c \in Of(trace', "spawn.decision") : At(c)'.id = v
    BY <1>4, <2>4 DEF RunInv, SpawnsTraced
  <2>8. \A s \in Of(trace', "agent.start") :
          /\ At(s)'.id \in Workers /\ worker'[At(s)'.id] \notin {"idle", "decided"}
          /\ \E c \in Of(trace', "spawn.decision") : c < s /\ At(c)'.id = At(s)'.id
    BY <1>4, <2>3, <2>4, <2>5 DEF RunInv, SpawnsTraced
  <2>9. \A v \in Workers : worker'[v] \notin {"idle", "decided"} =>
                            \E s \in Of(trace', "agent.start") : At(s)'.id = v
    BY <1>4, <2>3 DEF RunInv, SpawnsTraced
  <2> QED
    BY <2>6, <2>7, <2>8, <2>9 DEF SpawnsTraced
<1> QED
  BY <1>3, <1>5, <1>6, <1>7, <1>8, <1>9 DEF RunInv

LEMMA EndIsWritten ==
  ASSUME TypeOK, NEW e \in Line, NEW n \in Nat, Writes(n, e), e.type = "agent.end"
  PROVE  /\ AgentEnds(trace') = AgentEnds(trace) \cup {n} /\ n \notin AgentEnds(trace)
         /\ At(n)' = e /\ \A i \in AgentEnds(trace) : At(i)' = At(i)
  BY LinesOfType DEF Writes, AgentEnds

LEMMA WorkerEndsKeeps ==
  ASSUME RunInv, NEW w \in Workers, WorkerEnds(w), Next
  PROVE  RunInv'
<1>1. /\ UNCHANGED <<leadOnly, phase, team, grade, status, steers, heeded>>
      /\ worker \in [Workers -> {"idle", "decided", "running", "done"}]
      /\ worker[w] = "running" /\ worker' = [worker EXCEPT ![w] = "done"]
  BY DEF WorkerEnds, RunInv, TypeOK
<1>2. ASSUME NEW out \in WorkerOutcomes, Log(Ended(w, out), Called(w, out))
      PROVE  RunInv'
  <2>1. out \in Outcome
    BY OutcomesAssumption
  <2>2. PICK e \in Line : /\ Ended(w, out) = <<e>> /\ e.type = "agent.end" /\ e.id = w
    BY <2>1, EndIsLine
  <2>3. PICK loose : loose = Called(w, out)
    OBVIOUS
  <2>4. /\ trace'.lines \in Seq(Line) /\ trace'.loose = trace.loose \cup loose
        /\ \A type : type # "agent.end" => Quiet(type)
        /\ \E n \in Nat : Writes(n, e)
    BY <1>2, <2>2, <2>3, LineIsWritten DEF RunInv
  <2>5. PICK n \in Nat : /\ AgentEnds(trace') = AgentEnds(trace) \cup {n} /\ At(n)' = e
                         /\ \A i \in AgentEnds(trace) : At(i)' = At(i)
    BY <2>2, <2>4, EndIsWritten DEF RunInv
  <2>6. w \notin Leads /\ w # Synth
    BY CastAssumption
  <2>7. TypeOK' /\ StagesAgree'
    BY <2>4, TypeKept, StagesKept DEF RunInv
  <2>8. EndsTraced'
    <3>1. ASSUME NEW l \in Leads, grade'[l] \notin {"none", "threw"}
          PROVE  GradeTraced(l)'
      BY <1>1, <2>2, <2>5, <2>6, <3>1 DEF RunInv, EndsTraced, GradeTraced
    <3>2. \A i \in AgentEnds(trace') : At(i)'.id \in Leads => team'[At(i)'.id] # "briefing"
      BY <1>1, <2>2, <2>5, <2>6 DEF RunInv, EndsTraced
    <3> QED
      BY <3>1, <3>2 DEF EndsTraced
  <2>9. SynthesisTraced'
    BY <1>1, <2>2, <2>5, <2>6 DEF RunInv, SynthesisTraced
  <2>10. SpawnsTraced' /\ SteersTraced'
    BY <1>1, <2>4, SpawnsKept, SteersKept DEF RunInv
  <2>11. OutcomesNoted'
    <3>1. \A c \in loose : c.type \notin {"session.end", "participant.stale"}
      BY <2>3, CallsAndCloses
    <3>2. OutcomesNoted /\ trace'.loose = trace.loose \cup loose
      BY <2>4 DEF RunInv
    <3> QED
      BY <1>1, <3>1, <3>2, OutcomesFramed
  <2> QED
    BY <2>7, <2>8, <2>9, <2>10, <2>11 DEF RunInv
<1>3. CASE Note("agent.error", w, "none")
  <2>1. PlainNotes({Event("agent.error", w, "none", "none")})
    BY <1>3, OneNote DEF RunInv
  <2>2. NoResult
    BY <1>1 DEF NoResult
  <2> QED
    BY <2>1, <2>2, NotesKeep
<1> QED
  BY <1>2, <1>3 DEF WorkerEnds

\* The lead of a team answers, to its task or to the review of its workers.
LEMMA LeadAnswers ==
  ASSUME RunInv, Next, NEW l \in Leads, NEW out \in Outcome, NEW loose,
         loose \in {Called(l, out), Called(l, out) \cup Closed(l)}, Log(Ended(l, out), loose),
         UNCHANGED <<leadOnly, phase, worker, status, steers, heeded>>, team[l] # "over",
         \A m \in Leads \ {l} : team'[m] = team[m] /\ grade'[m] = grade[m],
         team'[l] # "briefing",
         grade'[l] \notin {"none", "threw"} =>
           /\ loose = Called(l, out) \cup Closed(l)
           /\ \/ team[l] = "briefing" /\ grade'[l] = out[1]
              \/ \E w \in Workers : LeadOf[w] = l /\ worker[w] = "done"
  PROVE  RunInv'
<1>1. PICK e \in Line : /\ Ended(l, out) = <<e>> /\ e.type = "agent.end"
                        /\ e.id = l /\ e.what = out[1]
  BY EndIsLine
<1>2. /\ trace'.lines \in Seq(Line) /\ trace'.loose = trace.loose \cup loose
      /\ \A type : type # "agent.end" => Quiet(type)
      /\ \E n \in Nat : Writes(n, e)
  BY <1>1, LineIsWritten DEF RunInv
<1>3. PICK n \in Nat : /\ AgentEnds(trace') = AgentEnds(trace) \cup {n} /\ At(n)' = e
                       /\ \A i \in AgentEnds(trace) : At(i)' = At(i)
  BY <1>1, <1>2, EndIsWritten DEF RunInv
<1>4. TypeOK' /\ StagesAgree'
  BY <1>2, TypeKept, StagesKept DEF RunInv
<1>5. EndsTraced'
  <2>1. ASSUME NEW m \in Leads, grade'[m] \notin {"none", "threw"}, m # l
        PROVE  GradeTraced(m)'
    <3>1. GradeTraced(m) /\ grade'[m] = grade[m]
      BY <2>1 DEF RunInv, EndsTraced
    <3> QED
      BY <1>1, <1>3, <2>1, <3>1 DEF GradeTraced
  <2>2. ASSUME grade'[l] \notin {"none", "threw"}
        PROVE  GradeTraced(l)'
    <3>1. CASE team[l] = "briefing" /\ grade'[l] = out[1]
      <4>1. \A j \in AgentEnds(trace) : At(j).id # l
        BY <3>1 DEF RunInv, EndsTraced
      <4> QED
        BY <1>1, <1>3, <3>1, <4>1 DEF GradeTraced
    <3>2. CASE \E w \in Workers : LeadOf[w] = l /\ worker[w] = "done"
      BY <1>1, <1>3, <3>2 DEF GradeTraced
    <3> QED
      BY <2>2, <3>1, <3>2
  <2>3. \A i \in AgentEnds(trace') : At(i)'.id \in Leads => team'[At(i)'.id] # "briefing"
    BY <1>1, <1>3 DEF RunInv, EndsTraced
  <2> QED
    BY <2>1, <2>2, <2>3 DEF EndsTraced
<1>6. SynthesisTraced'
  BY <1>1, <1>3, CastAssumption DEF RunInv, SynthesisTraced
<1>7. SpawnsTraced' /\ SteersTraced'
  BY <1>2, SpawnsKept, SteersKept DEF RunInv
<1>8. OutcomesNoted'
  <2>1. \A c \in loose : c.type \notin {"session.end", "participant.stale"}
    BY CallsAndCloses
  <2>2. \A m \in Leads : grade'[m] \notin {grade[m], "none", "threw"} =>
                            \E c \in loose : c.type = "participant.closed" /\ c.id = m
    BY CallsAndCloses
  <2>3. phase # "ended"
    BY DEF RunInv, StagesAgree
  <2> QED
    BY <1>2, <2>1, <2>2, <2>3, OutcomesKept DEF RunInv
<1> QED
  BY <1>4, <1>5, <1>6, <1>7, <1>8 DEF RunInv

LEMMA TeamEndsKeeps ==
  ASSUME RunInv, Next, NEW l \in Leads, NEW out \in Outcome, NEW g, TeamEnds(l, out, g),
         UNCHANGED <<leadOnly, phase, worker, status, steers, heeded>>, team[l] # "over",
         \/ team[l] = "briefing" /\ g = out[1]
         \/ \E w \in Workers : LeadOf[w] = l /\ worker[w] = "done"
  PROVE  RunInv'
<1>1. /\ team' = [team EXCEPT ![l] = "over"]
      /\ \/ /\ grade' = [grade EXCEPT ![l] = g]
            /\ Log(Ended(l, out), Called(l, out) \cup Closed(l))
         \/ /\ grade' = [grade EXCEPT ![l] = "threw"]
            /\ \E loose \in {Called(l, out), Called(l, out) \cup Closed(l)} :
                 Log(Ended(l, out), loose)
  BY DEF TeamEnds
<1>2. /\ team'[l] = "over" /\ grade'[l] \in {g, "threw"}
      /\ \A m \in Leads \ {l} : team'[m] = team[m] /\ grade'[m] = grade[m]
  BY <1>1 DEF RunInv, TypeOK
<1>3. PICK loose \in {Called(l, out), Called(l, out) \cup Closed(l)} :
        /\ Log(Ended(l, out), loose)
        /\ grade'[l] \notin {"none", "threw"} => loose = Called(l, out) \cup Closed(l)
  BY <1>1 DEF RunInv, TypeOK
<1> QED
  BY <1>2, <1>3, LeadAnswers

LEMMA LeadEndsKeeps ==
  ASSUME RunInv, NEW l \in Leads, LeadEnds(l), Next
  PROVE  RunInv'
<1>1. /\ team[l] = "briefing"
      /\ UNCHANGED <<leadOnly, phase, worker, status, steers, heeded>>
  BY DEF LeadEnds
<1>2. PICK out \in LeadOutcomes[l] :
        \/ TeamEnds(l, out, out[1])
        \/ /\ team' = [team EXCEPT ![l] = "workers"]
           /\ Log(Ended(l, out), Called(l, out))
           /\ UNCHANGED grade
  BY DEF LeadEnds
<1>3. out \in Outcome
  BY OutcomesAssumption
<1>4. CASE TeamEnds(l, out, out[1])
  BY <1>1, <1>3, <1>4, TeamEndsKeeps
<1>5. CASE /\ team' = [team EXCEPT ![l] = "workers"]
           /\ Log(Ended(l, out), Called(l, out))
           /\ UNCHANGED grade
  <2>1. /\ team'[l] = "workers" /\ grade'[l] = "none"
        /\ \A m \in Leads \ {l} : team'[m] = team[m] /\ grade'[m] = grade[m]
    BY <1>1, <1>5 DEF RunInv, TypeOK, StagesAgree
  <2> QED
    BY <1>1, <1>3, <1>5, <2>1, LeadAnswers
<1> QED
  BY <1>2, <1>4, <1>5

LEMMA LeadReviewsKeeps ==
  ASSUME RunInv, NEW l \in Leads, LeadReviews(l), Next
  PROVE  RunInv'
<1>1. /\ team[l] = "workers"
      /\ UNCHANGED <<leadOnly, phase, worker, status, steers, heeded>>
  BY DEF LeadReviews
<1>2. PICK out \in LeadOutcomes[l], g \in {"VERIFIED", "FAILED"} : TeamEnds(l, out, g)
  BY DEF LeadReviews
<1>3. out \in Outcome
  BY OutcomesAssumption
<1>4. \E w \in Workers : LeadOf[w] = l /\ worker[w] = "done"
  BY <1>1 DEF LeadReviews, RunInv, StagesAgree
<1> QED
  BY <1>1, <1>2, <1>3, <1>4, TeamEndsKeeps

\* The synthesis answers with the line e.
LEMMA SynthesisAnswerKeeps ==
  ASSUME RunInv, Next, NEW g \in Grades, NEW text \in Kinds, SynthesisAnswers(g, text),
         phase = "synthesis", phase' \in {"failed", "concluded"},
         UNCHANGED <<leadOnly, team, grade, worker, status, steers, heeded>>
  PROVE  RunInv'
<1>1. PICK out \in Outcome : out = <<g, text, "fixture">>
  BY DEF Outcome, Places
<1>2. PICK e \in Line : /\ Ended(Synth, out) = <<e>> /\ e.type = "agent.end" /\ e.id = Synth
  BY EndIsLine
<1>3. PICK loose : loose = Called(Synth, out)
  OBVIOUS
<1>4. Log(<<e>>, loose)
  BY <1>1, <1>2, <1>3 DEF SynthesisAnswers
<1>5. /\ trace'.lines \in Seq(Line) /\ trace'.loose = trace.loose \cup loose
      /\ \A type : type # "agent.end" => Quiet(type)
      /\ \E n \in Nat : Writes(n, e)
  BY <1>2, <1>4, LineIsWritten DEF RunInv
<1>6. PICK n \in Nat : /\ AgentEnds(trace') = AgentEnds(trace) \cup {n} /\ At(n)' = e
                       /\ \A i \in AgentEnds(trace) : At(i)' = At(i)
  BY <1>2, <1>5, EndIsWritten DEF RunInv
<1>7. TypeOK' /\ StagesAgree'
  BY <1>5, TypeKept, StagesKept DEF RunInv
<1>8. EndsTraced'
  <2>1. Synth \notin Leads
    BY CastAssumption
  <2>2. ASSUME NEW l \in Leads, grade'[l] \notin {"none", "threw"}
        PROVE  GradeTraced(l)'
    BY <1>2, <1>6, <2>1, <2>2 DEF RunInv, EndsTraced, GradeTraced
  <2>3. \A i \in AgentEnds(trace') : At(i)'.id \in Leads => team'[At(i)'.id] # "briefing"
    BY <1>2, <1>6, <2>1 DEF RunInv, EndsTraced
  <2> QED
    BY <2>2, <2>3 DEF EndsTraced
<1>9. SynthesisTraced'
  <2>1. \A i \in AgentEnds(trace) : At(i).id # Synth
    BY DEF RunInv, SynthesisTraced, Running
  <2> QED
    BY <1>2, <1>6, <2>1 DEF SynthesisTraced, Running
<1>10. SpawnsTraced' /\ SteersTraced'
  BY <1>5, SpawnsKept, SteersKept DEF RunInv
<1>11. OutcomesNoted'
  <2>1. \A c \in loose : c.type \notin {"session.end", "participant.stale"}
    BY <1>3, CallsAndCloses
  <2>2. \A l \in Leads : grade'[l] = grade[l]
    OBVIOUS
  <2> QED
    BY <1>5, <2>1, <2>2, OutcomesKept DEF RunInv
<1> QED
  BY <1>7, <1>8, <1>9, <1>10, <1>11 DEF RunInv

LEMMA SynthesisEndsKeeps ==
  ASSUME RunInv, SynthesisEnds, Next
  PROVE  RunInv'
<1>1. /\ phase = "synthesis" /\ phase' \in {"failed", "concluded"}
      /\ UNCHANGED <<leadOnly, team, grade, worker, status, steers, heeded>>
  BY DEF SynthesisEnds
<1>2. ASSUME NEW text \in Claims, SynthesisAnswers("VERIFIED", text)
      PROVE  RunInv'
  <2>1. "VERIFIED" \in Grades /\ text \in Kinds
    BY OutcomesAssumption DEF Grades
  <2> QED
    BY <1>1, <1>2, <2>1, SynthesisAnswerKeeps
<1>3. CASE SynthesisAnswers("FAILED", "empty")
  <2>1. "FAILED" \in Grades /\ "empty" \in Kinds
    BY DEF Grades, Kinds
  <2> QED
    BY <1>1, <1>3, <2>1, SynthesisAnswerKeeps
<1>4. CASE phase' = "failed" /\ UNCHANGED trace
  <2>1. PlainNotes({})
    BY <1>4, NoNote DEF RunInv
  <2>2. NoResult
    BY <1>1, <1>4 DEF NoResult, Running
  <2> QED
    BY <2>1, <2>2, NotesKeep
<1> QED
  BY <1>2, <1>3, <1>4 DEF SynthesisEnds

\* How the session ends, whatever else becomes of its status.
LEMMA EndsNotes ==
  ASSUME RunInv, Ends
  PROVE  \E loose :
           /\ Log(<<>>, loose) /\ \A e \in loose : e.type = "session.end"
           /\ \/ status' = "error" /\ \E e \in loose : e.what # "completed"
              \/ /\ phase = "concluded" /\ loose # {} /\ \A e \in loose : e.what = status'
<1>1. status # "completed" /\ status \in SessionStatus
  BY DEF RunInv, OutcomesNoted, TypeOK, Ends
<1>2. CASE phase = "concluded" /\ Note("session.end", "none", status')
  <2>1. PICK e : e = Event("session.end", "none", status', "none")
    OBVIOUS
  <2>2. e.type = "session.end" /\ e.what = status'
    BY <2>1 DEF Event
  <2>3. Log(<<>>, {e})
    BY <1>2, <2>1 DEF Note
  <2> QED
    BY <1>2, <2>2, <2>3
<1>3. CASE /\ status' = Transition(status, "error")
           /\ Log(<<>>, {Event("session.end", "none", "none", "none"),
                         Event("session.end", "none", "error", "none")})
  <2>1. \E e : e = Event("session.end", "none", "none", "none")
    OBVIOUS
  <2>2. \E e : e = Event("session.end", "none", "error", "none")
    OBVIOUS
  <2>3. PICK c, d : /\ c = Event("session.end", "none", "none", "none")
                   /\ d = Event("session.end", "none", "error", "none")
    BY <2>1, <2>2
  <2>4. c.type = "session.end" /\ c.what = "none" /\ d.type = "session.end"
    BY <2>3 DEF Event
  <2>5. Log(<<>>, {c, d})
    BY <1>3, <2>3
  <2>6. status' = "error"
    BY <1>1, <1>3 DEF Transition, CanTransition, ValidTransitions, SessionStatus
  <2> QED
    BY <2>4, <2>5, <2>6
<1> QED
  BY <1>2, <1>3 DEF Ends

LEMMA EndsKeeps ==
  ASSUME RunInv, Ends, Next
  PROVE  RunInv'
<1>1. PICK loose :
        /\ Log(<<>>, loose) /\ \A e \in loose : e.type = "session.end"
        /\ \/ status' = "error" /\ \E e \in loose : e.what # "completed"
           \/ /\ phase = "concluded" /\ loose # {} /\ \A e \in loose : e.what = status'
  BY EndsNotes
<1>2. /\ trace'.lines \in Seq(Line) /\ trace'.loose = trace.loose \cup loose
      /\ \A type : Quiet(type)
  BY <1>1, NoteIsQuiet DEF RunInv
<1>3. /\ phase \in {"concluded", "failed"} /\ phase' = "ended"
      /\ UNCHANGED <<leadOnly, team, grade, worker, steers, heeded>>
      /\ status' = "completed" => phase = "concluded" \/ status = "completed"
      /\ status = "error" => status' = "error"
  BY DEF Ends, RunInv, TypeOK, Transition, CanTransition, ValidTransitions, SessionStatus
<1>4. TypeOK' /\ StagesAgree'
  BY <1>2, TypeKept, StagesKept DEF RunInv
<1>5. /\ \A l \in Leads : /\ team'[l] = "briefing" => team[l] = "briefing"
                          /\ grade'[l] \in {grade[l], "threw"}
      /\ \A w \in Workers : worker'[w] = worker[w]
  BY <1>3
<1>6. OutcomesNoted'
  <2>1. \A type : Noted(trace', type) = Noted(trace, type) \cup {e \in loose : e.type = type}
    BY <1>2, NotesOf
  <2>2. /\ Noted(trace', "session.end") = loose
        /\ Noted(trace', "participant.stale") = Noted(trace, "participant.stale")
        /\ Noted(trace', "participant.closed") = Noted(trace, "participant.closed")
    BY <1>1, <1>3, <2>1 DEF RunInv, OutcomesNoted
  <2>3. phase = "concluded" => \A l \in Leads : grade[l] \notin {"FAILED", "threw"}
    BY DEF RunInv, StagesAgree
  <2> QED
    BY <1>1, <1>3, <2>2, <2>3 DEF RunInv, OutcomesNoted
<1>7. phase' \notin Running
  BY <1>3 DEF Running
<1> QED
  BY <1>2, <1>3, <1>4, <1>5, <1>6, <1>7, QuietSteps

\* The process is told to stop, or is gone.
LEMMA ShutDownKeeps ==
  ASSUME RunInv, ShutDown, Next
  PROVE  RunInv'
<1>1. PICK loose : loose = {}
  OBVIOUS
<1>2. /\ phase # "ended" /\ status \in SessionStatus /\ status' = Transition(status, "error")
      /\ UNCHANGED <<leadOnly, phase, team, grade, worker, trace, steers, heeded>>
  BY DEF ShutDown, Over, RunInv, TypeOK
<1>3. /\ status' # status => status' # "completed"
      /\ status = "error" => status' = "error"
  BY <1>2 DEF Transition, CanTransition, ValidTransitions, SessionStatus
<1>4. trace'.lines \in Seq(Line) /\ \A type : Quiet(type)
  BY <1>2, SameTraceIsQuiet DEF RunInv
<1>5. trace'.loose = trace.loose \cup loose
  BY <1>1, <1>2
<1>6. TypeOK' /\ StagesAgree'
  BY <1>4, TypeKept, StagesKept DEF RunInv
<1>7. OutcomesNoted'
  <2>1. \A e \in loose : /\ e.type # "session.end"
                         /\ e.type = "participant.stale" => e.id \in Leads
    BY <1>1
  <2>2. \A l \in Leads : grade'[l] = grade[l]
    BY <1>2
  <2> QED
    BY <1>2, <1>3, <1>5, <2>1, <2>2, OutcomesKept DEF RunInv
<1> QED
  BY <1>2, <1>3, <1>4, <1>5, <1>6, <1>7, QuietSteps

LEMMA KilledKeeps ==
  ASSUME RunInv, Killed, Next
  PROVE  RunInv'
<1>1. PlainNotes({})
  BY NoNote DEF RunInv, Killed
<1>2. NoResult
  BY DEF Killed, Over, NoResult
<1> QED
  BY <1>1, <1>2, NotesKeep

\* The operator sends something, and the session's status may follow.
LEMMA OperatorSendsKeeps ==
  ASSUME RunInv, Next, NEW intent \in {"message", "pause", "resume", "stop"},
         OperatorSends(intent), status' # status => status' # "completed",
         status = "error" => status' = "error",
         "stop" \in heeded' => "stop" \in heeded \/ status' = "error"
  PROVE  RunInv'
<1>1. /\ phase # "ended" /\ steers' = Append(steers, intent)
      /\ Log(SteerTraced(Len(steers) + 1, intent), {})
      /\ UNCHANGED <<leadOnly, phase, team, grade, worker>>
      /\ steers \in Seq({"message", "pause", "resume", "stop"})
  BY DEF OperatorSends, Over, RunInv, TypeOK
<1>2. Len(steers) + 1 \in Nat
  BY <1>1
<1>3. /\ trace'.lines \in Seq(Line) /\ trace'.loose = trace.loose
      /\ \A type \in {"agent.end", "agent.start", "spawn.decision"} : Quiet(type)
  BY <1>1, <1>2, SteerIsWritten DEF RunInv
<1>4. PICK n \in Nat :
        /\ Steers(trace') = Steers(trace) \cup {n} /\ At(n)'.what = intent
        /\ \A i \in Steers(trace) : At(i)' = At(i)
        /\ \A i \in Steers(trace) : Bracketed(trace, i) => Bracketed(trace', i)
        /\ Bracketed(trace', n)
  BY <1>1, <1>2, SteerIsWritten DEF RunInv
<1>5. TypeOK' /\ StagesAgree'
  BY <1>3, TypeKept, StagesKept DEF RunInv
<1>6. SteersTraced'
  <2>1. /\ Len(steers) + 1 \in DOMAIN steers' /\ steers'[Len(steers) + 1] = intent
        /\ \A k \in DOMAIN steers : k \in DOMAIN steers' /\ steers'[k] = steers[k]
    BY <1>1
  <2>2. \A i \in Steers(trace') : /\ Bracketed(trace', i)
                                 /\ \E k \in DOMAIN steers' : steers'[k] = At(i)'.what
    BY <1>4, <2>1 DEF RunInv, SteersTraced
  <2>3. "stop" \in heeded' => status' = "error"
    BY DEF RunInv, SteersTraced
  <2> QED
    BY <1>4, <2>2, <2>3 DEF SteersTraced
<1>7. EndsTraced'
  BY <1>1, <1>3, EndsKept DEF RunInv
<1>8. SynthesisTraced'
  BY <1>1, <1>3, SynthesisKept DEF RunInv
<1>9. SpawnsTraced'
  BY <1>1, <1>3, SpawnsKept DEF RunInv
<1>10. OutcomesNoted'
  <2>1. \A type : Noted(trace', type) = Noted(trace, type)
    BY <1>3 DEF Noted
  <2> QED
    BY <1>1, <2>1 DEF RunInv, OutcomesNoted
<1> QED
  BY <1>5, <1>6, <1>7, <1>8, <1>9, <1>10 DEF RunInv

LEMMA MessageSentKeeps ==
  ASSUME RunInv, MessageSent, Next
  PROVE  RunInv'
<1>1. OperatorSends("message") /\ status' = status
  BY DEF MessageSent
<1>2. "stop" \in heeded' => "stop" \in heeded
  BY DEF MessageSent
<1> QED
  BY <1>1, <1>2, OperatorSendsKeeps

LEMMA CommandSentKeeps ==
  ASSUME RunInv, NEW intent \in Intents \ {"message"}, CommandSent(intent), Next
  PROVE  RunInv'
<1>1. intent \in {"pause", "resume", "stop"} /\ OperatorSends(intent)
  BY OutcomesAssumption DEF CommandSent
<1>2. Wanted[intent] # "completed" /\ (intent = "stop" => Wanted[intent] = "error")
  BY <1>1 DEF Wanted
<1>3. status' = Transition(status, Wanted[intent]) /\ status \in SessionStatus
  BY DEF CommandSent, RunInv, TypeOK
<1>4. /\ status' # status => status' # "completed"
      /\ status = "error" => status' = "error"
  BY <1>2, <1>3 DEF Transition, CanTransition, ValidTransitions, SessionStatus
<1>5. "stop" \in heeded' => "stop" \in heeded \/ status' = "error"
  BY <1>2, <1>3 DEF CommandSent, Transition
<1> QED
  BY <1>1, <1>4, <1>5, OperatorSendsKeeps

LEMMA Stutters ==
  ASSUME RunInv, UNCHANGED vars
  PROVE  RunInv'
<1> USE DEF vars
<1>1. TypeOK' /\ StagesAgree'
  BY DEF RunInv, TypeOK, StagesAgree
<1>2. EndsTraced' /\ SynthesisTraced'
  BY DEF RunInv, EndsTraced, GradeTraced, SynthesisTraced, At
<1>3. SpawnsTraced' /\ SteersTraced' /\ OutcomesNoted'
  BY DEF RunInv, SpawnsTraced, SteersTraced, OutcomesNoted, At
<1> QED
  BY <1>1, <1>2, <1>3 DEF RunInv

LEMMA StepKeeps == RunInv /\ [Next]_vars => RunInv'
<1> SUFFICES ASSUME RunInv, [Next]_vars PROVE RunInv'
  OBVIOUS
<1>1. ASSUME NEW l \in Leads, Next,
             LeadEnds(l) \/ TeamThrows(l) \/ LeadReviews(l) \/ MonitorFindsStale(l)
      PROVE  RunInv'
  BY <1>1, LeadEndsKeeps, TeamThrowsKeeps, LeadReviewsKeeps, StaleKeeps
<1>2. ASSUME NEW w \in Workers, Next, WorkerDecided(w) \/ WorkerSpawned(w) \/ WorkerEnds(w)
      PROVE  RunInv'
  BY <1>2, WorkerDecidedKeeps, WorkerSpawnedKeeps, WorkerEndsKeeps
<1>3. CASE Next /\ (TeamsSettle \/ SynthesisEnds \/ Ends \/ ShutDown \/ Killed)
  BY <1>3, TeamsSettleKeeps, SynthesisEndsKeeps, EndsKeeps, ShutDownKeeps, KilledKeeps
<1>4. CASE Next /\ MessageSent
  BY <1>4, MessageSentKeeps
<1>5. ASSUME NEW intent \in Intents \ {"message"}, Next, CommandSent(intent)
      PROVE  RunInv'
  BY <1>5, CommandSentKeeps
<1>6. CASE UNCHANGED vars
  BY <1>6, Stutters
<1> QED
  BY <1>1, <1>2, <1>3, <1>4, <1>5, <1>6 DEF Next

-----------------------------------------------------------------------------
(* What stands behind an answer of the synthesis.                          *)

LEMMA NotesStay == Next => Noted(trace, "agent.error") \subseteq Noted(trace', "agent.error")
<1> SUFFICES ASSUME Next PROVE trace.loose \subseteq trace'.loose
  BY DEF Noted
<1>1. \A lines, loose : Log(lines, loose) => trace.loose \subseteq trace'.loose
  BY DEF Log, Recorded
<1>2. ASSUME NEW l \in Leads, LeadEnds(l) \/ TeamThrows(l) \/ LeadReviews(l) \/ MonitorFindsStale(l)
      PROVE  trace.loose \subseteq trace'.loose
  <2>1. ASSUME NEW out, NEW g, TeamEnds(l, out, g)
        PROVE  trace.loose \subseteq trace'.loose
    BY <1>1, <2>1 DEF TeamEnds
  <2> QED
    BY <1>1, <1>2, <2>1 DEF LeadEnds, TeamThrows, LeadReviews, MonitorFindsStale, Note
<1>3. ASSUME NEW w \in Workers, WorkerDecided(w) \/ WorkerSpawned(w) \/ WorkerEnds(w)
      PROVE  trace.loose \subseteq trace'.loose
  BY <1>1, <1>3 DEF WorkerDecided, WorkerSpawned, WorkerEnds, Note
<1>4. CASE TeamsSettle \/ Ends
  BY <1>1, <1>4 DEF TeamsSettle, Ends, Note
<1>5. CASE SynthesisEnds
  BY <1>1, <1>5 DEF SynthesisEnds, SynthesisAnswers
<1>6. CASE ShutDown \/ Killed
  BY <1>6 DEF ShutDown, Killed
<1>7. CASE MessageSent \/ \E intent \in Intents \ {"message"} : CommandSent(intent)
  BY <1>1, <1>7 DEF MessageSent, CommandSent, OperatorSends
<1> QED
  BY <1>2, <1>3, <1>4, <1>5, <1>6, <1>7 DEF Next

\* While the teams work, and only then, a team gets on; a process that is gone
\* does nothing.
LEMMA TeamsWork ==
  ASSUME RunInv, Next
  PROVE  /\ ~Over
         /\ phase # "leads" => UNCHANGED <<team, grade>>
         /\ \/ phase' = phase
            \/ TeamsSettle \/ Killed
            \/ phase \notin {"leads", "killed"}
<1>1. ASSUME NEW l \in Leads, LeadEnds(l) \/ TeamThrows(l) \/ LeadReviews(l)
      PROVE  phase = "leads" /\ phase' = phase
  BY <1>1 DEF LeadEnds, TeamThrows, LeadReviews
<1>2. ASSUME NEW l \in Leads, MonitorFindsStale(l)
      PROVE  phase \in Running /\ UNCHANGED <<phase, team, grade>>
  BY <1>2 DEF MonitorFindsStale
<1>3. ASSUME NEW w \in Workers, WorkerDecided(w) \/ WorkerSpawned(w) \/ WorkerEnds(w)
      PROVE  phase = "leads" /\ phase' = phase
  BY <1>3 DEF WorkerDecided, WorkerSpawned, WorkerEnds
<1>4. CASE TeamsSettle
  BY <1>4 DEF TeamsSettle, Over
<1>5. CASE SynthesisEnds \/ Ends
  BY <1>5 DEF SynthesisEnds, Ends, Over
<1>6. CASE ShutDown \/ Killed
  BY <1>6 DEF ShutDown, Killed
<1>7. CASE MessageSent \/ \E intent \in Intents \ {"message"} : CommandSent(intent)
  BY <1>7 DEF MessageSent, CommandSent, OperatorSends
<1> QED
  BY <1>1, <1>2, <1>3, <1>4, <1>5, <1>6, <1>7 DEF Next, Over, Running

LEMMA SettledKept ==
  ASSUME RunInv, RunInv', Settled, [Next]_vars
  PROVE  Settled'
<1>1. CASE UNCHANGED vars
  BY <1>1 DEF vars, Settled, At
<1>2. CASE Next /\ phase = "leads" /\ phase' = "leads"
  BY <1>2 DEF RunInv, SynthesisTraced, Running, Settled
<1>3. CASE TeamsSettle
  <2>1. UNCHANGED <<team, grade>> /\ \A l \in Leads : team[l] = "over"
    BY <1>3 DEF TeamsSettle
  <2>2. ASSUME NEW l \in Leads, grade[l] = "threw"
        PROVE  Noted(trace', "agent.error") # {}
    <3>1. PICK e : e = Event("agent.error", l, "none", "none")
      OBVIOUS
    <3>2. e.type = "agent.error"
      BY <3>1 DEF Event
    <3>3. e \in trace'.loose
      BY <1>3, <2>2, <3>1 DEF TeamsSettle, Log, Recorded
    <3> QED
      BY <3>2, <3>3 DEF Noted
  <2> QED
    BY <2>1, <2>2 DEF Settled
<1>4. CASE Killed
  BY <1>4 DEF Killed, Settled, At
<1>5. CASE Next /\ phase \notin {"leads", "killed"}
  BY <1>5, NotesStay, TeamsWork DEF Settled
<1> QED
  BY <1>1, <1>2, <1>3, <1>4, <1>5, TeamsWork DEF Over

-----------------------------------------------------------------------------
(* The theorems.                                                           *)

\* The trace follows the run: who has ended, been decided on, spawned, steered
\* and closed is what the lines say, in whichever order the teams, the operator
\* and the monitor took their turns.
THEOREM TraceFollowsRun == Spec => []RunInv
<1>1. Init => RunInv
  BY InitHolds
<1>2. RunInv /\ [Next]_vars => RunInv'
  BY StepKeeps
<1> QED
  BY <1>1, <1>2, PTL DEF Spec

\* The variables keep their types, and the trace holds lines of its six types.
THEOREM RunTypes == Spec => []TypeOK
<1>1. RunInv => TypeOK
  BY DEF RunInv
<1> QED
  BY <1>1, TraceFollowsRun, PTL

\* An unattended certification refuses a run in which an input of the operator
\* took hold.
THEOREM SteeringSeen == Spec => []SteeringIsSeen
<1>1. RunInv => SteeringIsSeen
  BY DEF RunInv, SteersTraced, SteeringIsSeen, Accepted, Validated, SteerEventsValid
<1> QED
  BY <1>1, TraceFollowsRun, PTL

LEMMA OnlyEndOfLead ==
  ASSUME RunInv, NEW l \in Leads, grade[l] \notin {"none", "threw"}, WorkerSpawns(trace) = {}
  PROVE  LatestGrade(trace, l) = grade[l]
<1>1. \A w \in Workers : worker[w] # "done"
  <2> SUFFICES ASSUME NEW w \in Workers, worker[w] = "done" PROVE FALSE
    OBVIOUS
  <2>1. PICK s \in Of(trace, "agent.start") : At(s).id = w
    BY DEF RunInv, SpawnsTraced
  <2>2. w \notin Leads \cup {Synth}
    BY CastAssumption
  <2> QED
    BY <2>1, <2>2 DEF WorkerSpawns, At
<1>2. PICK i \in AgentEnds(trace) :
        /\ At(i).id = l /\ At(i).what = grade[l]
        /\ \A j \in AgentEnds(trace) : At(j).id = l => j = i
  BY <1>1 DEF RunInv, EndsTraced, GradeTraced
<1>3. {j \in AgentEnds(trace) : trace.lines[j].id = l} = {i}
  BY <1>2 DEF At
<1>4. i \in Nat
  BY LinesOfType DEF AgentEnds, RunInv, TypeOK
<1>5. Max({i}) = i
  BY <1>4 DEF Max
<1> QED
  BY <1>2, <1>3, <1>5 DEF LatestGrade, At

\* Behind every end of the synthesis in the trace stand teams that are over, also
\* when the process is gone.
THEOREM TeamsSettled == Spec => []Settled
<1>1. Init => Settled
  BY DEF Init, Settled, AgentEnds, Of
<1>2. RunInv /\ RunInv' /\ Settled /\ [Next]_vars => Settled'
  BY SettledKept
<1> QED
  BY <1>1, <1>2, TraceFollowsRun, PTL DEF Spec

\* A live certification that the validator accepts was a review by every lead,
\* though the process may have been killed: what the team of each lead returned
\* is the grade of its one run.  A session that came to its end completed, no stop
\* got through, and no lead failed.
THEOREM ReviewedWhenAccepted == Spec => []Reviewed
<1>1. ASSUME RunInv, Settled, Over, Accepted(TRUE, TRUE) \/ Accepted(TRUE, FALSE)
      PROVE  /\ \A l \in Leads : /\ team[l] = "over" /\ grade[l] \in Grades
                                 /\ LatestGrade(trace, l) = grade[l]
             /\ phase = "ended" => /\ "stop" \notin heeded
                                   /\ status = "completed"
                                   /\ \A l \in Leads : grade[l] # "FAILED"
  <2>1. /\ NoOperationalFailures(trace) /\ WorkerSpawns(trace) = {}
        /\ Canonical(trace) # {}
    BY <1>1 DEF Accepted, Validated
  <2>2. \E i \in AgentEnds(trace) : At(i).id = Synth
    BY <2>1 DEF Canonical, At
  <2>3. \A l \in Leads : team[l] = "over" /\ grade[l] # "threw"
    BY <1>1, <2>1, <2>2 DEF Settled, NoOperationalFailures
  <2>4. \A l \in Leads : grade[l] \in Grades
    BY <1>1, <2>3 DEF RunInv, StagesAgree, TypeOK
  <2>5. \A l \in Leads : grade[l] \notin {"none", "threw"}
    BY <2>4 DEF Grades
  <2>6. \A l \in Leads : LatestGrade(trace, l) = grade[l]
    BY <1>1, <2>1, <2>5, OnlyEndOfLead
  <2>7. ASSUME phase = "ended"
        PROVE  /\ "stop" \notin heeded /\ status = "completed"
               /\ \A l \in Leads : grade[l] # "FAILED"
    <3>1. status = "completed" /\ \A l \in Leads : grade[l] # "FAILED"
      BY <1>1, <2>1, <2>7 DEF NoOperationalFailures, RunInv, OutcomesNoted
    <3> QED
      BY <1>1, <3>1 DEF RunInv, SteersTraced
  <2> QED
    BY <2>3, <2>4, <2>6, <2>7
<1>2. RunInv /\ Settled => Reviewed
  BY <1>1 DEF Reviewed
<1> QED
  BY <1>2, TraceFollowsRun, TeamsSettled, PTL

LEMMA ReadyContract ==
  ASSUME RunInv, status = "completed",
         \A i \in AgentEnds(trace) : trace.lines[i].id = Synth => trace.lines[i].text = "ready"
  PROVE  Canonical(trace) # {} /\ Contract(trace) = Contracts["ready"]
<1>1. PICK i \in AgentEnds(trace) : At(i).id = Synth
  BY DEF RunInv, SynthesisTraced
<1>2. \A j \in AgentEnds(trace) : At(j).id = Synth => j = i
  BY <1>1 DEF RunInv, SynthesisTraced
<1>3. IsContract("ready")
  BY DEF IsContract, Contracts
<1>4. Canonical(trace) = {i}
  BY <1>1, <1>2, <1>3 DEF Canonical, At
<1>5. i \in Nat
  BY LinesOfType DEF AgentEnds, RunInv, TypeOK
<1>6. Min({i}) = i
  BY <1>5 DEF Min
<1> QED
  BY <1>1, <1>4, <1>6 DEF Contract, At

\* The validator accepts a run in which nothing went wrong.
THEOREM SoundRunsPass == Spec => []SoundRunPasses
<1>1. ASSUME RunInv, Over, status = "completed",
             \A l \in Leads : grade[l] = "VERIFIED",
             \A e \in Noted(trace, "tool.call") : e.what = "fixture",
             Noted(trace, "agent.error") = {},
             \A i \in AgentEnds(trace) :
               /\ trace.lines[i].id # Synth => trace.lines[i].text = "report"
               /\ trace.lines[i].id = Synth => trace.lines[i].text = "ready",
             \A k \in DOMAIN steers : steers[k] # "stop"
      PROVE  Validated(trace, leadOnly, TRUE, steers # <<>>, "clean")
  <2>1. LifecycleComplete(trace)
    BY <1>1 DEF RunInv, EndsTraced, GradeTraced, LifecycleComplete, At
  <2>2. NoOperationalFailures(trace)
    BY <1>1 DEF RunInv, OutcomesNoted, NoOperationalFailures, Over
  <2>3. NoEmptyOutputs(trace)
    BY <1>1 DEF NoEmptyOutputs
  <2>4. NoScopeDrift(trace) /\ NoWrongFixture(trace, "clean") /\ NoRepoSourceReads(trace)
    BY <1>1 DEF NoScopeDrift, NoWrongFixture, NoRepoSourceReads, Went
  <2>5. leadOnly => WorkerSpawns(trace) = {}
    BY <1>1 DEF RunInv, SpawnsTraced, StagesAgree, WorkerSpawns, At
  <2>6. ~IsContract("report")
    BY DEF IsContract, Contracts
  <2>7. NoLeakedContracts(trace) /\ TeamContractsValid(trace)
    BY <1>1, <2>6, CastAssumption DEF NoLeakedContracts, TeamContractsValid
  <2>8. Canonical(trace) # {} /\ Contract(trace) = Contracts["ready"]
    BY <1>1, ReadyContract
  <2>9. NoStaleParticipants(trace)
    <3>1. \A l \in Leads : \E e \in Noted(trace, "participant.closed") : e.id = l
      BY <1>1 DEF RunInv, OutcomesNoted
    <3>2. \A e \in Noted(trace, "participant.stale") : e.id \in Leads
      BY <1>1 DEF RunInv, OutcomesNoted
    <3> QED
      BY <3>1, <3>2 DEF NoStaleParticipants
  <2>10. ContractMatchesEvidence(trace, "clean")
    BY <2>1, <2>2, <2>3, <2>4, <2>8 DEF ContractMatchesEvidence, Contracts
  <2>11. SpawnDecisionsValid(trace, TRUE)
    BY <1>1 DEF RunInv, SpawnsTraced, SpawnDecisionsValid, WorkerSpawns, At
  <2>12. SteerEventsValid(trace, steers # <<>>)
    <3>1. \A i \in Steers(trace) : Bracketed(trace, i) /\ trace.lines[i].what # "stop"
      BY <1>1 DEF RunInv, SteersTraced, At
    <3>2. steers = <<>> => Steers(trace) = {}
      BY <1>1 DEF RunInv, SteersTraced
    <3>3. NothingHidden(trace)
      BY <3>1 DEF NothingHidden
    <3> QED
      BY <3>1, <3>2, <3>3 DEF SteerEventsValid
  <2> QED
    BY <2>1, <2>2, <2>3, <2>4, <2>5, <2>7, <2>8, <2>9, <2>10, <2>11, <2>12 DEF Validated
<1>2. RunInv => SoundRunPasses
  BY <1>1 DEF SoundRunPasses
<1> QED
  BY <1>2, TraceFollowsRun, PTL
=============================================================================
