---------------------------- MODULE EventEmitter ----------------------------
(***************************************************************************)
(* The engine's way to the dashboard (engine/event-emitter.ts): emit puts  *)
(* an event into a bounded buffer and starts a flush unless one is under   *)
(* way; the flush posts one event after the other, with retries and a      *)
(* circuit breaker that the other requests of the engine share.  An event  *)
(* is its sequence number.  The dashboard is what answers the requests: it *)
(* may have stored an event whose answer never arrives, and the handler of *)
(* a request whose connection broke may store it at any time afterwards.   *)
(***************************************************************************)
EXTENDS Integers, FiniteSets, Sequences, Functions

CONSTANTS
  BufferSize,   \* MAX_BUFFER_SIZE (1000 in the source)
  Retries,      \* how many RETRY_DELAYS there are (3 in the source)
  MaxEvents,    \* bound: events emitted
  MaxAdrift     \* bound: broken requests whose handlers are at work at a time

ASSUME SizeAssumption == BufferSize \in Nat \ {0}
ASSUME RetryAssumption == Retries \in Nat
ASSUME BoundAssumption == MaxEvents \in Nat /\ MaxAdrift \in Nat

VARIABLES
  seq,             \* the last sequence number given out
  buffer,          \* the events no flush has taken yet
  flushing,        \* the flag emit looks at
  flush,           \* where the flush stands
  batch,           \* the events it has taken and not settled
  attempt,         \* retries of the first of them
  droppedEvents,   \* the counter sessionEnd warns about
  dashboardDown,   \* the circuit breaker is open
  expired,         \* its thirty seconds are over
  received,        \* the dashboard's log
  rejected,        \* the events it answered with a 4xx
  adrift,          \* tries given up that the dashboard may still store
  overdue          \* the places in the log of what they have stored, a history

queueVars   == <<seq, buffer, flushing>>
breakerVars == <<dashboardDown, expired>>
dashboardVars == <<received, rejected, adrift, overdue>>
vars == <<queueVars, flush, batch, attempt, droppedEvents, breakerVars,
          dashboardVars>>

\* "turn": the test of flush's while loop; "next": before a fetch.
FlushState == {"idle", "turn", "next", "fetching", "sleeping"}

Init ==
  /\ seq = 0 /\ buffer = <<>> /\ flushing = FALSE
  /\ flush = "idle" /\ batch = <<>> /\ attempt = 0
  /\ droppedEvents = 0 /\ dashboardDown = FALSE /\ expired = FALSE
  /\ received = <<>> /\ rejected = {} /\ adrift = {} /\ overdue = {}

-----------------------------------------------------------------------------
(* emit: the bound on seq stands for the end of the run.                   *)

\* Mutant: an overflow is not counted.
EmitDropsSilently ==
  /\ seq < MaxEvents /\ seq' = seq + 1
  /\ buffer' = Append(IF Len(buffer) >= BufferSize THEN Tail(buffer) ELSE buffer,
                      seq + 1)
  /\ flushing' = TRUE
  /\ flush' = IF flushing THEN flush ELSE "turn"
  /\ UNCHANGED <<batch, attempt, droppedEvents, breakerVars, dashboardVars>>

Emit ==
  /\ seq < MaxEvents /\ seq' = seq + 1
  /\ IF Len(buffer) >= BufferSize
       THEN /\ buffer' = Append(Tail(buffer), seq + 1)
            /\ droppedEvents' = droppedEvents + 1
       ELSE /\ buffer' = Append(buffer, seq + 1)
            /\ UNCHANGED droppedEvents
  /\ flushing' = TRUE
  /\ flush' = IF flushing THEN flush ELSE "turn"
  /\ UNCHANGED <<batch, attempt, breakerVars, dashboardVars>>

-----------------------------------------------------------------------------
(* flush                                                                   *)

TakeBatch ==
  /\ flush = "turn" /\ buffer # <<>>
  /\ batch' = buffer /\ buffer' = <<>>
  /\ flush' = "next"
  /\ UNCHANGED <<seq, flushing, attempt, droppedEvents, breakerVars>>
  /\ UNCHANGED dashboardVars

\* Mutant: the flag stays up.
FlushEndsFlagged ==
  /\ flush = "turn" /\ buffer = <<>>
  /\ flush' = "idle"
  /\ UNCHANGED <<queueVars, batch, attempt, droppedEvents, breakerVars>>
  /\ UNCHANGED dashboardVars

\* The test of the loop and the reset of the flag are one step: no await
\* lies between them.
FlushEnds ==
  /\ flush = "turn" /\ buffer = <<>>
  /\ flushing' = FALSE /\ flush' = "idle"
  /\ UNCHANGED <<seq, buffer, batch, attempt, droppedEvents, breakerVars>>
  /\ UNCHANGED dashboardVars

\* The loop over the batch goes on to the next event.
Settle ==
  /\ batch' = Tail(batch)
  /\ flush' = IF Tail(batch) = <<>> THEN "turn" ELSE "next"

\* fetchWithRetry came back with null.
Drop == Settle /\ droppedEvents' = droppedEvents + 1

BreakerOpen == dashboardDown /\ ~expired

ShortCircuit ==
  /\ flush = "next" /\ BreakerOpen
  /\ Drop
  /\ UNCHANGED <<queueVars, attempt, breakerVars, dashboardVars>>

Fetch ==
  /\ flush = "next" /\ ~BreakerOpen
  /\ dashboardDown' = FALSE
  /\ attempt' = 0 /\ flush' = "fetching"
  /\ UNCHANGED <<queueVars, batch, droppedEvents, expired, dashboardVars>>

\* A 2xx, or any other status that is not retried: a 4xx is neither repeated
\* nor counted.
Answered ==
  /\ flush = "fetching"
  /\ Settle
  /\ \/ received' = Append(received, Head(batch)) /\ UNCHANGED rejected
     \/ rejected' = rejected \cup {Head(batch)} /\ UNCHANGED received
  /\ UNCHANGED <<queueVars, attempt, droppedEvents, breakerVars, adrift, overdue>>

\* What becomes of a request without an answer: it has been stored, or never
\* will be, or may be later, by a handler that goes on after the connection
\* broke.
Unanswered ==
  /\ \/ received' = Append(received, Head(batch)) /\ UNCHANGED adrift
     \/ UNCHANGED <<received, adrift>>
     \/ /\ Cardinality(adrift) < MaxAdrift
        /\ adrift' = adrift \cup {<<Head(batch), attempt>>} /\ UNCHANGED received
  /\ UNCHANGED <<rejected, overdue>>

\* Mutant: a failed event is put at the end of the batch.
FailsToTheEnd ==
  /\ flush = "fetching"
  /\ Unanswered
  /\ IF attempt < Retries
       THEN /\ flush' = "sleeping" /\ batch' = Append(Tail(batch), Head(batch))
            /\ UNCHANGED droppedEvents
       ELSE Drop
  /\ UNCHANGED <<queueVars, attempt, breakerVars>>

\* A 5xx, a 429 or an exception.
Fails ==
  /\ flush = "fetching"
  /\ Unanswered
  /\ IF attempt < Retries
       THEN flush' = "sleeping" /\ UNCHANGED <<batch, droppedEvents>>
       ELSE Drop
  /\ UNCHANGED <<queueVars, attempt, breakerVars>>

Refused ==
  /\ flush = "fetching"
  /\ Drop
  /\ dashboardDown' = TRUE /\ expired' = FALSE
  /\ UNCHANGED <<queueVars, attempt, dashboardVars>>

\* Mutant: the attempts are not counted.
RetryUncounted ==
  /\ flush = "sleeping"
  /\ flush' = "fetching"
  /\ UNCHANGED <<queueVars, batch, attempt, droppedEvents, breakerVars>>
  /\ UNCHANGED dashboardVars

Retry ==
  /\ flush = "sleeping"
  /\ flush' = "fetching" /\ attempt' = attempt + 1
  /\ UNCHANGED <<queueVars, batch, droppedEvents, breakerVars>>
  /\ UNCHANGED dashboardVars

-----------------------------------------------------------------------------
(* The dashboard: the handler of a broken request goes on beside those of  *)
(* the retries and of the events after it, and stores the event or not.    *)

Lands(request) ==
  /\ adrift' = adrift \ {request}
  /\ received' = Append(received, request[1])
  /\ overdue' = overdue \cup {Len(received) + 1}
  /\ UNCHANGED <<queueVars, flush, batch, attempt, droppedEvents, breakerVars, rejected>>

-----------------------------------------------------------------------------
(* The breaker's clock, and the requests of pgUpdateSession and the like.  *)

BreakerExpires ==
  /\ BreakerOpen
  /\ expired' = TRUE
  /\ UNCHANGED <<queueVars, flush, batch, attempt, droppedEvents, dashboardDown>>
  /\ UNCHANGED dashboardVars

OtherRequest ==
  /\ \/ dashboardDown' = TRUE /\ expired' = FALSE
     \/ dashboardDown /\ expired /\ dashboardDown' = FALSE /\ UNCHANGED expired
  /\ UNCHANGED <<queueVars, flush, batch, attempt, droppedEvents>>
  /\ UNCHANGED dashboardVars

-----------------------------------------------------------------------------
Flush ==
  \/ TakeBatch \/ FlushEnds \/ ShortCircuit \/ Fetch
  \/ Answered \/ Fails \/ Refused \/ Retry

Next ==
  \/ Emit \/ Flush \/ (\E request \in adrift : Lands(request))
  \/ BreakerExpires \/ OtherRequest

Spec == Init /\ [][Next]_vars

\* Microtasks and timers run, and a fetch comes to an end.
FairSpec == Spec /\ WF_vars(Flush)

-----------------------------------------------------------------------------
TypeOK ==
  /\ seq \in Nat /\ buffer \in Seq(Nat) /\ flushing \in BOOLEAN
  /\ flush \in FlushState /\ batch \in Seq(Nat) /\ attempt \in Nat
  /\ droppedEvents \in Nat /\ dashboardDown \in BOOLEAN /\ expired \in BOOLEAN
  /\ received \in Seq(Nat) /\ rejected \in SUBSET Nat
  /\ adrift \in SUBSET (Nat \X Nat) /\ overdue \in SUBSET Nat

\* No lost wake-up: an event in the buffer has a flush under way that will
\* look at the buffer again, and the flag says so.
NoEventStranded ==
  /\ flushing <=> flush # "idle"
  /\ buffer # <<>> => flushing

\* A dashboard that does not answer costs no more memory than this.
BacklogBounded == Len(buffer) <= BufferSize /\ Len(batch) <= BufferSize

\* Retries, overflows and the breaker never reorder the events: whatever the
\* dashboard stores for a request the emitter waits for has only earlier
\* events, or copies of itself, before it.  Only a request that was given up
\* is stored after later ones.
InOrder ==
  \A i, j \in DOMAIN received : i < j /\ j \notin overdue => received[i] <= received[j]

\* An event that is gone without having reached the dashboard, and was not
\* refused by it, has been counted.
Gone ==
  1..seq \ (Range(buffer) \cup Range(batch) \cup Range(received) \cup rejected)
NothingVanishes == Cardinality(Gone) <= droppedEvents

\* The dashboard gets no event more often than it was sent.
CopiesBounded ==
  \A e \in Range(received) :
    Cardinality({i \in DOMAIN received : received[i] = e}) <= Retries + 1

\* When the engine falls silent, the flush comes to rest.
Drains == <>[](flush = "idle" /\ buffer = <<>>)
=============================================================================
