---------------------------- MODULE DelegationProofs ----------------------------
(***************************************************************************)
(* A worker is delegated to through the concurrency limiter, by one of the *)
(* adapters.  First the limiter's invariants and its refinement of the     *)
(* semaphore, for any finite set of tasks and any limit; then the contract *)
(* that every adapter keeps, for any number of lines a process writes.     *)
(***************************************************************************)
EXTENDS ConcurrencyLimiter, Adapters, FiniteSetTheorems, TLAPS

\* The four invariants are inductive together: NoIdleSlot is what tells a
\* newcomer that finds a slot that the line is empty, and LineIsWaiters is
\* what tells release that the task it wakes holds no slot yet.
Inv == TypeOK /\ SlotsCounted /\ NoIdleSlot /\ LineIsWaiters

LEMMA HoldersFinite == IsFiniteSet(Holders)
  BY TasksAssumption, FS_Subset DEF Holders

LEMMA InitInv == Init => Inv
<1> SUFFICES ASSUME Init PROVE Inv
  OBVIOUS
<1>1. TypeOK
  BY DEF Init, TypeOK, NewLimiter, TaskState
<1>2. Holders = {}
  BY DEF Init, Holders
<1>3. SlotsCounted
  BY <1>2, FS_EmptySet, MaxAssumption DEF Init, SlotsCounted, NewLimiter
<1>4. NoIdleSlot /\ LineIsWaiters
  BY DEF Init, NoIdleSlot, LineIsWaiters, NewLimiter
<1> QED
  BY <1>1, <1>3, <1>4 DEF Inv

\* A task that finds a slot takes it: nobody waits.
LEMMA RunTakes ==
  ASSUME Inv, NEW t \in Tasks, Run(t), HasSlot(lim, Max)
  PROVE  Inv' /\ Holders' = Holders \cup {t} /\ t \notin Holders
         /\ Cardinality(Holders) < Max
<1> USE DEF TypeOK, TaskState
<1>1. /\ lim' = [lim EXCEPT !.active = @ + 1]
      /\ state' = [state EXCEPT ![t] = "granted"]
      /\ state[t] = "idle" /\ lim.active < Max
  BY DEF Run, Acquire, HasSlot
<1>2. Holders' = Holders \cup {t} /\ t \notin Holders
  BY <1>1 DEF Holders, Inv
<1>3. TypeOK'
  BY <1>1 DEF Inv
<1>4. Cardinality(Holders') = Cardinality(Holders) + 1
  BY <1>2, HoldersFinite, FS_AddElement
<1>5. SlotsCounted' /\ Cardinality(Holders) < Max
  BY <1>1, <1>4, MaxAssumption DEF Inv, SlotsCounted
<1>6. lim.waiting = <<>> /\ lim'.waiting = <<>>
  BY <1>1, MaxAssumption DEF Inv, NoIdleSlot
<1>7. NoIdleSlot'
  BY <1>6 DEF NoIdleSlot
<1>8. LineIsWaiters'
  BY <1>1, <1>6 DEF Inv, LineIsWaiters
<1> QED
  BY <1>2, <1>3, <1>5, <1>7, <1>8 DEF Inv

\* A task that finds no slot joins the line, and the holders stay.
LEMMA RunWaits ==
  ASSUME Inv, NEW t \in Tasks, Run(t), ~HasSlot(lim, Max)
  PROVE  Inv' /\ Holders' = Holders
<1> USE DEF TypeOK, TaskState
<1> DEFINE line == lim.waiting
<1>1. /\ lim' = [lim EXCEPT !.waiting = Append(line, t)]
      /\ state' = [state EXCEPT ![t] = "waiting"]
      /\ state[t] = "idle" /\ ~(lim.active < Max)
  BY DEF Run, Acquire, HasSlot
<1>2. Holders' = Holders
  BY <1>1 DEF Holders, Inv
<1>3. TypeOK'
  <2>1. line \in Seq(Tasks) /\ lim = [active |-> lim.active, waiting |-> line]
        /\ lim.active \in Nat
    BY DEF Inv
  <2>2. lim' = [active |-> lim.active, waiting |-> Append(line, t)]
    BY <1>1, <2>1
  <2>3. Append(line, t) \in Seq(Tasks)
    BY <2>1
  <2> QED
    BY <1>1, <2>1, <2>2, <2>3 DEF Inv
<1>4. SlotsCounted' /\ NoIdleSlot'
  BY <1>1, <1>2, MaxAssumption DEF Inv, SlotsCounted, NoIdleSlot
<1>5. /\ lim'.waiting = Append(line, t)
      /\ line \in Seq(Tasks)
      /\ \A i \in DOMAIN line : line[i] # t
  BY <1>1 DEF Inv, LineIsWaiters
<1>6. LineIsWaiters'
  <2>1. ASSUME NEW i \in DOMAIN Append(line, t), NEW j \in DOMAIN Append(line, t),
               Append(line, t)[i] = Append(line, t)[j]
        PROVE  i = j
    BY <1>5, <2>1 DEF Inv, LineIsWaiters
  <2>2. ASSUME NEW u \in Tasks
        PROVE  state'[u] = "waiting" <=>
                 \E i \in DOMAIN Append(line, t) : Append(line, t)[i] = u
    <3>1. CASE u = t
      <4>1. Append(line, t)[Len(line) + 1] = t
            /\ Len(line) + 1 \in DOMAIN Append(line, t)
        BY <1>5
      <4> QED
        BY <1>1, <3>1, <4>1 DEF Inv
    <3>2. CASE u # t
      <4>1. state'[u] = state[u]
        BY <1>1, <3>2 DEF Inv
      <4>2. (\E i \in DOMAIN Append(line, t) : Append(line, t)[i] = u)
              <=> (\E i \in DOMAIN line : line[i] = u)
        BY <1>5, <3>2
      <4> QED
        BY <4>1, <4>2 DEF Inv, LineIsWaiters
    <3> QED
      BY <3>1, <3>2
  <2> QED
    BY <1>5, <2>1, <2>2 DEF LineIsWaiters
<1> QED
  BY <1>2, <1>3, <1>4, <1>6 DEF Inv

LEMMA StartInv ==
  ASSUME Inv, NEW t \in Tasks, Start(t)
  PROVE  Inv' /\ Holders' = Holders
<1>1. lim' = lim /\ state' = [state EXCEPT ![t] = "running"] /\ state[t] = "granted"
  BY DEF Start
<1>2. Holders' = Holders
  BY <1>1 DEF Holders, Inv, TypeOK
<1> QED
  BY <1>1, <1>2
  DEF Inv, TypeOK, TaskState, SlotsCounted, NoIdleSlot, LineIsWaiters

\* Nobody waits: the slot is given back.
LEMMA FinishGives ==
  ASSUME Inv, NEW t \in Tasks, Finish(t), lim.waiting = <<>>
  PROVE  Inv' /\ Holders' = Holders \ {t} /\ t \in Holders
<1> USE DEF TypeOK, TaskState
<1>1. /\ lim' = [lim EXCEPT !.active = @ - 1]
      /\ state' = [state EXCEPT ![t] = "idle"]
      /\ state[t] = "running"
  BY DEF Finish, Release
<1>2. Holders' = Holders \ {t} /\ t \in Holders
  BY <1>1 DEF Holders, Inv
<1>3. /\ Cardinality(Holders') = Cardinality(Holders) - 1
      /\ Cardinality(Holders) \in Nat
      /\ Cardinality(Holders) # 0
  BY <1>2, HoldersFinite, FS_RemoveElement, FS_CardinalityType, FS_EmptySet
<1>4. TypeOK'
  BY <1>1, <1>3 DEF Inv, SlotsCounted
<1>5. SlotsCounted' /\ NoIdleSlot'
  BY <1>1, <1>3, MaxAssumption DEF Inv, SlotsCounted, NoIdleSlot
<1>6. LineIsWaiters'
  BY <1>1 DEF Inv, LineIsWaiters
<1> QED
  BY <1>2, <1>4, <1>5, <1>6 DEF Inv

\* Somebody waits: the slot passes to the head of the line.
LEMMA FinishHandsOver ==
  ASSUME Inv, NEW t \in Tasks, Finish(t), lim.waiting # <<>>
  PROVE  /\ Inv'
         /\ \E u \in Tasks : /\ u = Head(lim.waiting)
                             /\ t \in Holders /\ u \notin Holders
                             /\ Holders' = (Holders \ {t}) \cup {u}
                             /\ Cardinality(Holders') = Cardinality(Holders)
<1> USE DEF TypeOK, TaskState
<1> DEFINE line == lim.waiting
           u    == Head(line)
<1>1. /\ lim' = [active |-> (lim.active - 1) + 1, waiting |-> Tail(line)]
      /\ state' = [state EXCEPT ![t] = "idle", ![u] = "granted"]
      /\ state[t] = "running"
  BY DEF Finish, Release
<1>2. line \in Seq(Tasks) /\ u \in Tasks /\ u = line[1] /\ 1 \in DOMAIN line
      /\ Tail(line) \in Seq(Tasks)
  BY DEF Inv
<1>3. state[u] = "waiting" /\ u # t
  BY <1>1, <1>2 DEF Inv, LineIsWaiters
<1>4. \A v \in Tasks : state'[v] = IF v = u THEN "granted"
                                   ELSE IF v = t THEN "idle" ELSE state[v]
  BY <1>1, <1>2, <1>3 DEF Inv
<1>5. t \in Holders /\ u \notin Holders /\ Holders' = (Holders \ {t}) \cup {u}
  <2>1. t \in Holders /\ u \notin Holders
    BY <1>1, <1>3 DEF Holders
  <2>2. \A v \in Tasks : state'[v] \in {"granted", "running"} <=>
                          v = u \/ (v # t /\ state[v] \in {"granted", "running"})
    BY <1>3, <1>4
  <2>3. Holders' = {v \in Tasks : v = u \/ (v # t /\ state[v] \in {"granted", "running"})}
    BY <2>2 DEF Holders
  <2>4. Holders' = (Holders \ {t}) \cup {u}
    BY <1>2, <1>3, <2>3 DEF Holders
  <2> QED
    BY <2>1, <2>4
<1>6. Cardinality(Holders') = Cardinality(Holders)
  <2>1. Cardinality(Holders \ {t}) = Cardinality(Holders) - 1
        /\ IsFiniteSet(Holders \ {t})
    BY <1>5, HoldersFinite, FS_RemoveElement
  <2>2. Cardinality((Holders \ {t}) \cup {u}) = Cardinality(Holders \ {t}) + 1
    BY <1>5, <2>1, FS_AddElement
  <2>3. Cardinality(Holders) \in Nat
    BY HoldersFinite, FS_CardinalityType
  <2> QED
    BY <1>5, <2>1, <2>2, <2>3
<1>7. lim'.active = lim.active /\ lim'.waiting = Tail(line)
  BY <1>1 DEF Inv
<1>8. TypeOK'
  BY <1>1, <1>2, <1>7 DEF Inv
<1>9. SlotsCounted' /\ NoIdleSlot'
  BY <1>6, <1>7 DEF Inv, SlotsCounted, NoIdleSlot
<1>10. LineIsWaiters'
  <2>1. /\ DOMAIN Tail(line) = 1..(Len(line) - 1)
        /\ \A i \in DOMAIN Tail(line) : Tail(line)[i] = line[i + 1]
        /\ DOMAIN line = 1..Len(line) /\ Len(line) \in Nat
    BY <1>2
  <2> DEFINE rest == Tail(line)
  <2>5. \A i, j \in DOMAIN line : line[i] = line[j] => i = j
    BY DEF Inv, LineIsWaiters
  <2>2. ASSUME NEW i \in DOMAIN rest, NEW j \in DOMAIN rest, rest[i] = rest[j]
        PROVE  i = j
    <3>1. i \in Int /\ j \in Int /\ i + 1 \in DOMAIN line /\ j + 1 \in DOMAIN line
      BY <2>1
    <3>2. line[i + 1] = line[j + 1]
      BY <2>1, <2>2
    <3>3. i + 1 = j + 1
      BY <2>5, <3>1, <3>2
    <3> QED
      BY <3>1, <3>3
  <2>3. ASSUME NEW v \in Tasks
        PROVE  (\E i \in DOMAIN rest : rest[i] = v)
                 <=> (v # u /\ \E i \in DOMAIN line : line[i] = v)
    <3>1. ASSUME NEW i \in DOMAIN rest, rest[i] = v
          PROVE  v # u /\ \E k \in DOMAIN line : line[k] = v
      <4>1. i + 1 \in DOMAIN line /\ line[i + 1] = v /\ i + 1 # 1
        BY <2>1, <3>1
      <4> QED
        BY <1>2, <2>5, <4>1
    <3>2. ASSUME NEW k \in DOMAIN line, line[k] = v, v # u
          PROVE  \E i \in DOMAIN rest : rest[i] = v
      <4>1. k # 1 /\ k - 1 \in DOMAIN rest /\ (k - 1) + 1 = k
        BY <1>2, <2>1, <3>2
      <4> QED
        BY <2>1, <3>2, <4>1
    <3> QED
      BY <3>1, <3>2
  <2>4. ASSUME NEW v \in Tasks
        PROVE  state'[v] = "waiting" <=> (v # u /\ state[v] = "waiting")
    <3>1. CASE v = u
      BY <1>4, <3>1
    <3>2. CASE v = t
      <4>1. state'[v] = "idle"
        BY <1>3, <1>4, <3>2
      <4>2. state[v] = "running"
        BY <1>1, <3>2
      <4> QED
        BY <4>1, <4>2
    <3>3. CASE v # u /\ v # t
      BY <1>4, <3>3
    <3> QED
      BY <3>1, <3>2, <3>3
  <2>6. \A v \in Tasks : state[v] = "waiting" <=> \E i \in DOMAIN line : line[i] = v
    BY DEF Inv, LineIsWaiters
  <2>7. \A v \in Tasks : state'[v] = "waiting" <=> \E i \in DOMAIN rest : rest[i] = v
    BY <2>3, <2>4, <2>6
  <2> QED
    BY <1>7, <2>2, <2>7 DEF LineIsWaiters
<1> QED
  BY <1>2, <1>5, <1>6, <1>8, <1>9, <1>10 DEF Inv

LEMMA NextInv == Inv /\ [Next]_vars => Inv'
<1> SUFFICES ASSUME Inv, [Next]_vars PROVE Inv'
  OBVIOUS
<1>1. ASSUME NEW t \in Tasks, Run(t) PROVE Inv'
  BY <1>1, RunTakes, RunWaits
<1>2. ASSUME NEW t \in Tasks, Start(t) PROVE Inv'
  BY <1>2, StartInv
<1>3. ASSUME NEW t \in Tasks, Finish(t) PROVE Inv'
  BY <1>3, FinishGives, FinishHandsOver
<1>4. CASE UNCHANGED vars
  BY <1>4 DEF Inv, TypeOK, SlotsCounted, NoIdleSlot, LineIsWaiters, Holders, vars
<1> QED
  BY <1>1, <1>2, <1>3, <1>4 DEF Next

\* The invariants hold in every reachable state, whatever the number of
\* callers and the limit.
THEOREM LimiterInvariant == Spec => []Inv
  BY InitInv, NextInv, PTL DEF Spec

\* run() never lets more than Max of the wrapped functions be under way, and
\* its counter is exact (concurrency.ts: run, acquire, release).
THEOREM SlotsAreCounted == Spec => []SlotsCounted
  BY LimiterInvariant, PTL DEF Inv

\* A caller never waits in the line while a slot is free.
THEOREM NoSlotIdles == Spec => []NoIdleSlot
  BY LimiterInvariant, PTL DEF Inv

\* The line is exactly the waiting callers, each once.
THEOREM LineHoldsWaiters == Spec => []LineIsWaiters
  BY LimiterInvariant, PTL DEF Inv

Served(t) == IF lim.waiting = <<>> THEN TRUE ELSE t = Head(lim.waiting)

LEMMA StepServesHead ==
  Inv /\ [Next]_vars =>
    [\A t \in Tasks : (t \notin Holders /\ t \in Holders') => Served(t)]_vars
<1> SUFFICES ASSUME Inv, Next, NEW u \in Tasks, u \notin Holders, u \in Holders'
             PROVE  Served(u)
  OBVIOUS
<1>1. ASSUME NEW t \in Tasks, Run(t) PROVE Served(u)
  <2>1. CASE HasSlot(lim, Max)
    BY <2>1, MaxAssumption DEF Inv, TypeOK, NoIdleSlot, HasSlot, Served
  <2>2. CASE ~HasSlot(lim, Max)
    BY <1>1, <2>2, RunWaits
  <2> QED
    BY <2>1, <2>2
<1>2. ASSUME NEW t \in Tasks, Start(t) PROVE Served(u)
  BY <1>2, StartInv
<1>3. ASSUME NEW t \in Tasks, Finish(t) PROVE Served(u)
  BY <1>3, FinishGives, FinishHandsOver DEF Served
<1> QED
  BY <1>1, <1>2, <1>3 DEF Next

\* Slots are granted in the order in which they were asked for: release takes
\* the head of the line, and nobody passes it.
THEOREM ServedInOrder == Spec => Fifo
<1>1. Inv /\ [Next]_vars =>
        [\A t \in Tasks : (t \notin Holders /\ t \in Holders') =>
           IF lim.waiting = <<>> THEN TRUE ELSE t = Head(lim.waiting)]_vars
  BY StepServesHead DEF Served
<1> QED
  BY <1>1, LimiterInvariant, PTL DEF Spec, Fifo

-----------------------------------------------------------------------------
SlotVars == <<Holders, Max - Cardinality(Holders)>>

\* Every step of the limiter is a step of the semaphore or leaves it alone.
LEMMA StepRefines == Inv /\ [Next]_vars => [Slots!Next]_SlotVars
<1> SUFFICES ASSUME Inv, [Next]_vars PROVE [Slots!Next]_SlotVars
  OBVIOUS
<1> USE DEF SlotVars
<1>0. Cardinality(Holders) \in Nat /\ Max \in Nat
  BY HoldersFinite, FS_CardinalityType, MaxAssumption
<1>1. ASSUME NEW t \in Tasks, Run(t) PROVE [Slots!Next]_SlotVars
  <2>1. CASE HasSlot(lim, Max)
    <3>1. Holders' = Holders \cup {t} /\ t \notin Holders
          /\ Cardinality(Holders) < Max
      BY <1>1, <2>1, RunTakes
    <3>2. Cardinality(Holders') = Cardinality(Holders) + 1
      BY <3>1, HoldersFinite, FS_AddElement
    <3>3. Slots!Take(t)
      BY <1>0, <3>1, <3>2 DEF Slots!Take
    <3> QED
      BY <3>3 DEF Slots!Next
  <2>2. CASE ~HasSlot(lim, Max)
    BY <1>1, <2>2, RunWaits
  <2> QED
    BY <2>1, <2>2
<1>2. ASSUME NEW t \in Tasks, Start(t) PROVE [Slots!Next]_SlotVars
  BY <1>2, StartInv
<1>3. ASSUME NEW t \in Tasks, Finish(t) PROVE [Slots!Next]_SlotVars
  <2>1. CASE lim.waiting = <<>>
    <3>1. Holders' = Holders \ {t} /\ t \in Holders
      BY <1>3, <2>1, FinishGives
    <3>2. Cardinality(Holders') = Cardinality(Holders) - 1
      BY <3>1, HoldersFinite, FS_RemoveElement
    <3>3. Slots!Give(t)
      BY <1>0, <3>1, <3>2 DEF Slots!Give
    <3> QED
      BY <3>3 DEF Slots!Next
  <2>2. CASE lim.waiting # <<>>
    <3>1. PICK u \in Tasks : /\ t \in Holders /\ u \notin Holders
                             /\ Holders' = (Holders \ {t}) \cup {u}
                             /\ Cardinality(Holders') = Cardinality(Holders)
      BY <1>3, <2>2, FinishHandsOver
    <3>2. Slots!HandOver(t, u)
      BY <3>1 DEF Slots!HandOver
    <3> QED
      BY <3>2 DEF Slots!Next
  <2> QED
    BY <2>1, <2>2
<1>4. CASE UNCHANGED vars
  BY <1>4 DEF Holders, vars
<1> QED
  BY <1>1, <1>2, <1>3, <1>4 DEF Next

\* The limiter implements the semaphore.
THEOREM LimiterIsSemaphore == Spec => SlotsSpec
<1>1. Init => Slots!Init
  <2> SUFFICES ASSUME Init PROVE Slots!Init
    OBVIOUS
  <2>1. Holders = {}
    BY DEF Init, Holders
  <2>2. Max - Cardinality({}) = Max
    BY FS_EmptySet, MaxAssumption
  <2> QED
    BY <2>1, <2>2 DEF Slots!Init
<1>2. Inv /\ [Next]_vars => [Slots!Next]_(Slots!vars)
  BY StepRefines DEF SlotVars, Slots!vars
<1> QED
  BY <1>1, <1>2, LimiterInvariant, PTL DEF Spec, SlotsSpec, Slots!Spec

-----------------------------------------------------------------------------
(* The adapters.                                                           *)

\* Nothing is reported before there is an answer, and no callback of the
\* process can run before it is spawned.
PiUnanswered ==
  /\ answer = "none" => reports = 0
  /\ pc = "new" => answer = "none"
  /\ pc \in {"new", "context"} => reader = "idle" /\ timer = "off" /\ proc = "none"

\* The embedded agent is answered for when delegate returns, and never reported.
EmbeddedUnanswered == reports = 0 /\ (stage # "returned" => answer = "none")

\* So is the remote one; what was heard of its text is a part of it.
RemoteUnanswered ==
  /\ call # "returned" => answer = "none" /\ reports = 0
  /\ heard = "graded" => output = "graded"

AnswerInv ==
  /\ adapter \in {"pi", "pi-embedded", "a2a"}
  /\ adapter = "pi" => PiUnanswered
  /\ adapter = "pi-embedded" => EmbeddedUnanswered
  /\ adapter = "a2a" => RemoteUnanswered

\* What KeepsContract says of one step.
Kept ==
  answer' # answer \/ reports' # reports =>
    Answer(Said', Silent)

LEMMA Grades ==
  \A text : /\ GradeOf(text) \in {"failed", "ungraded", "graded"}
            /\ GradeOf(text) = "graded" => text = "graded"
  BY DEF GradeOf

\* safeResolve gives the first answer of all and the first report.
LEMMA ResolvesOnce ==
  ASSUME PiUnanswered, NEW text, SafeResolve(GradeOf(text)), written' = text,
         adapter = "pi", adapter' = adapter
  PROVE  /\ answer' # "none"
         /\ answer' # answer \/ reports' # reports => Answer(Said', FALSE)
         /\ timer' \in {timer, "off"}
<1>1. CASE answer # "none"
  BY <1>1 DEF SafeResolve, Resolved
<1>2. CASE answer = "none"
  <2>1. answer' = GradeOf(text) /\ reports' = 1 /\ timer' \in {timer, "off"}
    BY <1>2 DEF SafeResolve, Resolved, PiUnanswered
  <2> QED
    BY <1>2, <2>1, Grades DEF Answer, Said
<1> QED
  BY <1>1, <1>2

LEMMA PiKeeps ==
  ASSUME adapter = "pi", adapter' = adapter, PiUnanswered, PiStep
  PROVE  PiUnanswered' /\ Kept
<1> USE DEF PiUnanswered, Kept
<1>0. pc # "new" /\ Answer(Said', FALSE) => Answer(Said', Silent)
  BY DEF Answer, Silent
<1>1. CASE PiBegin
  BY <1>1 DEF PiBegin, Answer, Silent
<1>2. CASE PiSpawn
  BY <1>2 DEF PiSpawn, Resolved
<1>3. CASE UNCHANGED <<answer, reports, pc, reader, timer, proc>>
  BY <1>3
<1>4. CASE pc = "spawned" /\ CancelAgent /\ UNCHANGED <<written, pc, proc>>
  <2>1. CASE Resolved
    BY <1>4, <2>1 DEF CancelAgent
  <2>2. CASE ~Resolved
    BY <1>0, <1>4, <2>2, ResolvesOnce DEF CancelAgent, FinalText
  <2> QED
    BY <2>1, <2>2
<1>5. CASE ReadLine
  <2>1. pc = "spawned" \/ pc \notin {"new", "context"}
    BY <1>5 DEF ReadLine
  <2>2. CASE UNCHANGED <<answer, reports>>
    BY <1>5, <2>1, <2>2 DEF ReadLine
  <2>3. CASE SafeResolve(GradeOf(written'))
    BY <1>0, <1>5, <2>1, <2>3, ResolvesOnce DEF ReadLine
  <2> QED
    BY <1>5, <2>2, <2>3 DEF ReadLine
<1>6. CASE ExitSettles /\ pc \notin {"new", "context"}
  BY <1>0, <1>6, ResolvesOnce DEF ExitSettles, FinalText
<1>7. CASE TimerTerminates \/ TimedOut \/ StreamEnds \/ PiExits \/ PiObeys
  BY <1>7 DEF TimerTerminates, TimedOut, StreamEnds, PiExits, PiObeys, Alive
<1>8. CASE TimerKills
  <2>1. CASE Resolved
    BY <1>8, <2>1 DEF TimerKills
  <2>2. CASE ~Resolved
    <3>1. answer = "none" /\ answer' = GradeOf(written) /\ reports' = 1 /\ written' = written
      BY <1>8, <2>2 DEF TimerKills, Resolved, FinalText
    <3>2. Answer(Said', FALSE)
      BY <3>1, Grades DEF Answer, Said
    <3> QED
      BY <1>0, <1>8, <3>1, <3>2, Grades DEF TimerKills, PiUnanswered
  <2> QED
    BY <2>1, <2>2
<1> QED
  BY <1>1, <1>2, <1>3, <1>4, <1>5, <1>6, <1>7, <1>8
  DEF PiStep, PiStop, PiSteerStop, PiWrites, ReaderSeesExit, ExitRace

LEMMA EmbeddedKeeps ==
  ASSUME adapter = "pi-embedded", adapter' = adapter, EmbeddedUnanswered, EmbeddedStep
  PROVE  EmbeddedUnanswered' /\ Kept
<1> USE DEF EmbeddedUnanswered, Kept
<1>1. CASE UNCHANGED <<answer, reports>> /\ stage # "returned"
  BY <1>1
<1>2. ASSUME NEW g \in {"failed", "ungraded", "graded"}, g = "graded" => lastText = "graded",
             Returns(g), stage # "returned"
      PROVE  EmbeddedUnanswered' /\ Kept
  BY <1>2 DEF Returns, Answer, Said, Silent
<1>3. CASE EmbeddedBegin
  BY <1>1, <1>2, <1>3 DEF EmbeddedBegin
<1>4. CASE EmbeddedCreates \/ EmbeddedWrites \/ Prompted
  BY <1>4 DEF EmbeddedCreates, EmbeddedWrites, Prompted
<1>5. CASE StreamOver
  <2>1. CASE lastText = ""
    BY <1>2, <1>5, <2>1 DEF StreamOver
  <2>2. CASE lastText # ""
    <3>1. Returns(GradeOf(lastText)) /\ stage # "returned"
      BY <1>5, <2>2 DEF StreamOver
    <3> QED
      BY <1>2, <3>1, Grades
  <2> QED
    BY <2>1, <2>2
<1>6. CASE StreamDeadline
  BY <1>2, <1>6, Grades DEF StreamDeadline
<1>7. CASE EmbeddedThrows
  BY <1>2, <1>7 DEF EmbeddedThrows
<1> QED
  BY <1>3, <1>4, <1>5, <1>6, <1>7 DEF EmbeddedStep

LEMMA RemoteKeeps ==
  ASSUME adapter = "a2a", adapter' = adapter, RemoteUnanswered, A2AStep
  PROVE  RemoteUnanswered' /\ Kept
<1> USE DEF RemoteUnanswered, Kept
<1>1. CASE UNCHANGED <<answer, reports>> /\ call # "returned" /\ UNCHANGED <<heard, output>>
  BY <1>1
<1>2. ASSUME NEW g \in {"failed", "ungraded", "graded"}, g = "graded" => output = "graded",
             A2AFinish(g), call # "returned"
      PROVE  RemoteUnanswered' /\ Kept
  BY <1>2 DEF A2AFinish, Answer, Said, Silent
<1>3. CASE RemoteWrites \/ EventHeard
  BY <1>3 DEF RemoteWrites, EventHeard, MoreText
<1>4. CASE StreamCloses
  BY <1>2, <1>4, Grades DEF StreamCloses
<1>5. TaskToResult \in {"failed", "ungraded", "graded"}
      /\ (TaskToResult = "graded" => output = "graded")
  BY Grades DEF TaskToResult
<1>6. CASE StreamIsPlain \/ SyncAnswers
  BY <1>1, <1>2, <1>5, <1>6, Grades DEF StreamIsPlain, SyncAnswers, MessageToResult, Await
<1>7. CASE PollAnswers
  BY <1>1, <1>2, <1>5, <1>7 DEF PollAnswers
<1> QED
  BY <1>1, <1>2, <1>3, <1>4, <1>6, <1>7
  DEF A2AStep, RemoteEnds, Clock, A2ABegin, CardAnswers, RequestFails,
      Refused, RefusalRead, StreamUnsupported, StreamOpens, StreamBreaks, RequestAborts,
      PollBegins, Await

\* Whichever adapter serves it, and however its callbacks interleave, a
\* delegation has one answer and no grade the agent did not give, and its end is
\* reported once, with the answer; the embedded adapter reports none, and pi not
\* its refusal to start on a stopped session.
THEOREM AdaptersKeepContract == AdapterSpec => KeepsContract
<1>1. AdapterInit => AnswerInv
  BY DEF AdapterInit, AbstractInit, PiInit, A2AInit, AnswerInv, PiUnanswered,
         EmbeddedUnanswered, RemoteUnanswered
<1>2. AnswerInv /\ [AdapterNext]_(adapterVars) => AnswerInv' /\ [Kept]_(adapterVars)
  <2> SUFFICES ASSUME AnswerInv, [AdapterNext]_(adapterVars) PROVE AnswerInv' /\ [Kept]_(adapterVars)
    OBVIOUS
  <2>1. CASE UNCHANGED adapterVars
    BY <2>1 DEF adapterVars, piVars, embeddedVars, a2aVars, AnswerInv, PiUnanswered,
                EmbeddedUnanswered, RemoteUnanswered
  <2>2. CASE PiActs(PiStep)
    BY <2>2, PiKeeps DEF PiActs, AnswerInv
  <2>3. CASE EmbeddedActs(EmbeddedStep)
    BY <2>3, EmbeddedKeeps DEF EmbeddedActs, AnswerInv
  <2>4. CASE A2AActs(A2AStep)
    BY <2>4, RemoteKeeps DEF A2AActs, AnswerInv
  <2> QED
    BY <2>1, <2>2, <2>3, <2>4 DEF AdapterNext
<1> QED
  BY <1>1, <1>2, PTL DEF AdapterSpec, KeepsContract, Kept
=============================================================================
