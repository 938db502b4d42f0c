------------------------------- MODULE Limiter -------------------------------
(***************************************************************************)
(* The two operations of engine/concurrency.ts on the state of one         *)
(* limiter, a record of the slots in use and the line of those who wait.   *)
(* An acquire that finds no free slot leaves a closure in the line; the    *)
(* release that shifts it out calls it, which takes the slot over before   *)
(* anybody else can run.                                                   *)
(***************************************************************************)
EXTENDS Integers, Sequences, FiniteSets

NewLimiter == [active |-> 0, waiting |-> <<>>]

\* Mutant: a newcomer is let in when the limit is reached.
HasSlotOneMore(lim, max) == lim.active <= max

HasSlot(lim, max) == lim.active < max

Acquire(lim, max, who) ==
  IF HasSlot(lim, max)
    THEN [lim EXCEPT !.active = @ + 1]
    ELSE [lim EXCEPT !.waiting = Append(@, who)]

\* Several callers at once, one after the other: those that find a slot free
\* when their turn comes, and those left over, who join the line.
AcquireAll(lim, max, whos) ==
  LET taken == Cardinality({i \in DOMAIN whos : HasSlot([lim EXCEPT !.active = @ + i - 1], max)})
  IN [active |-> lim.active + taken,
      waiting |-> lim.waiting \o SubSeq(whos, taken + 1, Len(whos))]

Release(lim) ==
  IF lim.waiting = <<>>
    THEN [lim EXCEPT !.active = @ - 1]
    ELSE [active |-> (lim.active - 1) + 1, waiting |-> Tail(lim.waiting)]
=============================================================================
