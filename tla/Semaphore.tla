------------------------------ MODULE Semaphore ------------------------------
(***************************************************************************)
(* What a concurrency limiter promises: Max slots, each of them free or    *)
(* held by one task.  Nothing is said of how a task waits for one.         *)
(***************************************************************************)
EXTENDS Naturals

CONSTANTS Tasks, Max

VARIABLES
  holders,   \* the tasks that hold a slot
  free       \* how many slots nobody holds

vars == <<holders, free>>

Init == holders = {} /\ free = Max

Take(t) ==
  /\ t \notin holders
  /\ free > 0
  /\ holders' = holders \cup {t}
  /\ free' = free - 1

Give(t) ==
  /\ t \in holders
  /\ holders' = holders \ {t}
  /\ free' = free + 1

\* The slot passes from one task to another.
HandOver(t, u) ==
  /\ t \in holders /\ u \notin holders
  /\ holders' = (holders \ {t}) \cup {u}
  /\ UNCHANGED free

Next ==
  \E t \in Tasks : Take(t) \/ Give(t) \/ \E u \in Tasks : HandOver(t, u)

Spec == Init /\ [][Next]_vars
=============================================================================
