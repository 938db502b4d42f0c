------------------------- MODULE ConcurrencyLimiter -------------------------
(***************************************************************************)
(* ConcurrencyLimiter.run of engine/concurrency.ts, called by any number   *)
(* of tasks on one limiter: acquire, the wrapped function, and release in  *)
(* the finally block, whether the function returned or threw.              *)
(***************************************************************************)
EXTENDS Naturals, Sequences, FiniteSets, Limiter

CONSTANTS
  Tasks,   \* the callers of run()
  Max      \* the constructor refuses a limit below one

ASSUME TasksAssumption == IsFiniteSet(Tasks)
ASSUME MaxAssumption == Max \in Nat \ {0}

VARIABLES
  lim,     \* the limiter
  state    \* where each task stands

vars == <<lim, state>>

\* "granted": the slot is taken, the continuation has not been resumed yet.
TaskState == {"idle", "waiting", "granted", "running"}

Holders == {t \in Tasks : state[t] \in {"granted", "running"}}

Init ==
  /\ lim = NewLimiter
  /\ state = [t \in Tasks |-> "idle"]

Run(t) ==
  /\ state[t] = "idle"
  /\ lim' = Acquire(lim, Max, t)
  /\ state' = [state EXCEPT
                 ![t] = IF HasSlot(lim, Max) THEN "granted" ELSE "waiting"]

Start(t) ==
  /\ state[t] = "granted"
  /\ state' = [state EXCEPT ![t] = "running"]
  /\ UNCHANGED lim

\* Mutants: the line is a stack; nobody is woken.
FinishWakesLast(t) ==
  /\ state[t] = "running"
  /\ LET n == Len(lim.waiting)
     IN  IF n = 0
           THEN /\ lim' = Release(lim)
                /\ state' = [state EXCEPT ![t] = "idle"]
           ELSE /\ lim' = [lim EXCEPT !.waiting = SubSeq(@, 1, n - 1)]
                /\ state' = [state EXCEPT ![t] = "idle",
                                          ![lim.waiting[n]] = "granted"]
FinishWakesNobody(t) ==
  /\ state[t] = "running"
  /\ lim' = [lim EXCEPT !.active = @ - 1]
  /\ state' = [state EXCEPT ![t] = "idle"]

\* The function settled; a task may call run() again later.
Finish(t) ==
  /\ state[t] = "running"
  /\ lim' = Release(lim)
  /\ IF lim.waiting = <<>>
       THEN state' = [state EXCEPT ![t] = "idle"]
       ELSE state' = [state EXCEPT ![t] = "idle",
                                   ![Head(lim.waiting)] = "granted"]

Next == \E t \in Tasks : Run(t) \/ Start(t) \/ Finish(t)

Spec == Init /\ [][Next]_vars

\* Continuations are resumed and the wrapped functions settle; nobody has to
\* call run().
FairSpec == Spec /\ \A t \in Tasks : WF_vars(Start(t) \/ Finish(t))

-----------------------------------------------------------------------------
TypeOK ==
  /\ lim \in [active : Nat, waiting : Seq(Tasks)]
  /\ state \in [Tasks -> TaskState]

\* The counter is the number of tasks that hold a slot, and never above the
\* limit, through every hand-over of release.
SlotsCounted ==
  /\ lim.active = Cardinality(Holders)
  /\ lim.active <= Max

\* No lost wake-up: as long as anybody waits, every slot is in use.
NoIdleSlot == lim.waiting # <<>> => lim.active = Max

\* The line holds each waiting task once, and nobody else.
LineIsWaiters ==
  /\ \A i, j \in DOMAIN lim.waiting : lim.waiting[i] = lim.waiting[j] => i = j
  /\ \A t \in Tasks : state[t] = "waiting" <=>
                        \E i \in DOMAIN lim.waiting : lim.waiting[i] = t

\* First come, first served: a task in the line is granted a slot only when
\* it is at its head, and a newcomer never passes the line.
Fifo ==
  [][\A t \in Tasks : (t \notin Holders /\ t \in Holders') =>
       IF lim.waiting = <<>> THEN TRUE ELSE t = Head(lim.waiting)]_vars

\* Whoever waits gets to run.
WaitersRun == \A t \in Tasks : state[t] = "waiting" ~> state[t] = "running"

\* The limiter implements a semaphore of Max slots.
Slots == INSTANCE Semaphore
           WITH holders <- Holders, free <- Max - Cardinality(Holders)
SlotsSpec == Slots!Spec
=============================================================================
