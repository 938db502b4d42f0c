-------------------------- MODULE EventEmitterProofs --------------------------
(***************************************************************************)
(* The emitter's queue, for any buffer size, any number of retries and any *)
(* number of events: no event is stranded, the dashboard's log is in the   *)
(* order of emission but for what was given up, and what is lost has been  *)
(* counted.                                                                *)
(***************************************************************************)
EXTENDS EventEmitter, FiniteSetTheorems, TLAPS

Rising(s) == \A i, j \in DOMAIN s : i < j => s[i] < s[j]

\* The flush is at work on a batch exactly in these states.
AtWork == flush \in {"next", "fetching", "sleeping"}

BatchIsWorkedOn == AtWork <=> batch # <<>>

\* What has been sent and has arrived, or may still arrive.
Sent == Range(received) \cup {request[1] : request \in adrift}

\* These are sections of one line of numbers: what has been sent, then the
\* batch, whose head may have been sent as well, then the buffer.
Line ==
  /\ Rising(batch) /\ Rising(buffer)
  /\ \A x \in Sent \cup Range(batch) \cup Range(buffer) : x <= seq
  /\ \A x \in Sent, y \in Range(batch) : x <= y
  /\ \A x \in Sent, y \in Range(buffer) : x <= y
  /\ \A x \in Range(batch), y \in Range(buffer) : x < y

Inv == TypeOK /\ NoEventStranded /\ BatchIsWorkedOn /\ BacklogBounded

-----------------------------------------------------------------------------
(* Sequences: what Tail and Append leave.                                  *)

LEMMA TailFacts ==
  ASSUME NEW s \in Seq(Nat), s # <<>>
  PROVE  /\ Tail(s) \in Seq(Nat) /\ Head(s) = s[1] /\ 1 \in DOMAIN s
         /\ Len(Tail(s)) = Len(s) - 1 /\ Head(s) \in Nat
         /\ \A i \in DOMAIN Tail(s) : i + 1 \in DOMAIN s /\ Tail(s)[i] = s[i + 1]
  OBVIOUS

LEMMA AppendFacts ==
  ASSUME NEW s \in Seq(Nat), NEW e \in Nat
  PROVE  /\ Append(s, e) \in Seq(Nat) /\ Append(s, e) # <<>>
         /\ Len(Append(s, e)) = Len(s) + 1
         /\ \A i \in DOMAIN Append(s, e) :
              \/ i \in DOMAIN s /\ Append(s, e)[i] = s[i]
              \/ i = Len(s) + 1 /\ Append(s, e)[i] = e
  OBVIOUS

LEMMA RangeOfTail ==
  ASSUME NEW s \in Seq(Nat), s # <<>>
  PROVE  /\ Range(s) = Range(Tail(s)) \cup {Head(s)}
         /\ Range(s) \subseteq Nat /\ Range(Tail(s)) \subseteq Nat
<1>1. ASSUME NEW i \in DOMAIN s
      PROVE  s[i] \in Range(Tail(s)) \cup {Head(s)}
  <2>1. CASE i = 1
    BY <2>1, TailFacts
  <2>2. CASE i # 1
    <3>1. i - 1 \in DOMAIN Tail(s) /\ Tail(s)[i - 1] = s[i]
      BY <2>2
    <3> QED
      BY <3>1 DEF Range
  <2> QED
    BY <2>1, <2>2
<1>2. Range(s) \subseteq Range(Tail(s)) \cup {Head(s)}
  BY <1>1 DEF Range
<1>3. Range(Tail(s)) \subseteq Range(s) /\ Head(s) \in Range(s)
  BY TailFacts DEF Range
<1>4. Range(s) \subseteq Nat
  BY DEF Range
<1> QED
  BY <1>2, <1>3, <1>4

LEMMA RangeOfAppend ==
  ASSUME NEW s \in Seq(Nat), NEW e \in Nat
  PROVE  /\ Range(Append(s, e)) = Range(s) \cup {e}
         /\ Range(s) \subseteq Nat
<1>1. \A i \in DOMAIN s : i \in DOMAIN Append(s, e) /\ Append(s, e)[i] = s[i]
  OBVIOUS
<1>2. Len(s) + 1 \in DOMAIN Append(s, e) /\ Append(s, e)[Len(s) + 1] = e
  OBVIOUS
<1>3. Range(s) \cup {e} \subseteq Range(Append(s, e))
  BY <1>1, <1>2 DEF Range
<1>4. Range(Append(s, e)) \subseteq Range(s) \cup {e}
  BY AppendFacts DEF Range
<1>5. Range(s) \subseteq Nat
  BY DEF Range
<1> QED
  BY <1>3, <1>4, <1>5

LEMMA TailRising ==
  ASSUME NEW s \in Seq(Nat), s # <<>>, Rising(s)
  PROVE  Rising(Tail(s)) /\ \A x \in Range(Tail(s)) : Head(s) < x
<1>1. \A i, j \in DOMAIN Tail(s) :
        /\ i \in Nat /\ j \in Nat /\ i + 1 \in DOMAIN s /\ j + 1 \in DOMAIN s
        /\ Tail(s)[i] = s[i + 1] /\ Tail(s)[j] = s[j + 1] /\ 1 < i + 1
  OBVIOUS
<1>2. Rising(Tail(s))
  BY <1>1 DEF Rising
<1>3. \A i \in DOMAIN Tail(s) : s[1] < Tail(s)[i]
  BY <1>1, TailFacts DEF Rising
<1> QED
  BY <1>2, <1>3, TailFacts DEF Range

LEMMA AppendRising ==
  ASSUME NEW s \in Seq(Nat), NEW e \in Nat, Rising(s), \A x \in Range(s) : x < e
  PROVE  Rising(Append(s, e))
<1> SUFFICES ASSUME NEW i \in DOMAIN Append(s, e), NEW j \in DOMAIN Append(s, e),
                    i < j
             PROVE  Append(s, e)[i] < Append(s, e)[j]
  BY DEF Rising
<1>1. i \in DOMAIN s /\ Append(s, e)[i] = s[i]
  OBVIOUS
<1>2. CASE j \in DOMAIN s
  BY <1>1, <1>2 DEF Rising
<1>3. CASE j \notin DOMAIN s
  <2>1. Append(s, e)[j] = e
    BY <1>3
  <2> QED
    BY <1>1, <2>1 DEF Range
<1> QED
  BY <1>2, <1>3

-----------------------------------------------------------------------------
(* The queue and its flag.                                                 *)

LEMMA InitInv == Init => Inv
<1> SUFFICES ASSUME Init PROVE Inv
  OBVIOUS
<1>1. TypeOK
  <2>1. <<>> \in Seq(Nat) /\ {} \in SUBSET Nat /\ 0 \in Nat
    OBVIOUS
  <2> QED
    BY <2>1 DEF Init, TypeOK, FlushState
<1>2. NoEventStranded /\ BatchIsWorkedOn
  BY DEF Init, NoEventStranded, BatchIsWorkedOn, AtWork
<1>3. Len(buffer) = 0 /\ Len(batch) = 0
  BY DEF Init
<1>4. BacklogBounded
  BY <1>3, SizeAssumption DEF BacklogBounded
<1> QED
  BY <1>1, <1>2, <1>4 DEF Inv

\* Whether the buffer overflows or not, it ends with the new event and holds
\* at most BufferSize.
LEMMA EmittedBuffer ==
  ASSUME Inv, Emit
  PROVE  /\ buffer' \in Seq(Nat) /\ buffer' # <<>> /\ Len(buffer') <= BufferSize
         /\ \/ buffer' = Append(buffer, seq + 1) /\ droppedEvents' = droppedEvents
            \/ /\ buffer # <<>> /\ buffer' = Append(Tail(buffer), seq + 1)
               /\ droppedEvents' = droppedEvents + 1
<1>1. buffer \in Seq(Nat) /\ seq + 1 \in Nat /\ Len(buffer) <= BufferSize
  BY DEF Inv, TypeOK, BacklogBounded
<1>2. CASE Len(buffer) >= BufferSize
  <2>1. buffer # <<>>
    BY <1>1, <1>2, SizeAssumption
  <2> QED
    BY <1>1, <1>2, <2>1, TailFacts, AppendFacts, SizeAssumption DEF Emit
<1>3. CASE ~(Len(buffer) >= BufferSize)
  BY <1>1, <1>3, AppendFacts, SizeAssumption DEF Emit
<1> QED
  BY <1>2, <1>3

LEMMA SettleType ==
  ASSUME Inv, AtWork, Settle
  PROVE  /\ batch' \in Seq(Nat) /\ flush' \in FlushState /\ flush' # "idle"
         /\ Len(batch') <= BufferSize
         /\ Head(batch) \in Nat
         /\ BatchIsWorkedOn'
<1>1. batch \in Seq(Nat) /\ batch # <<>> /\ Len(batch) <= BufferSize
  BY DEF Inv, TypeOK, BatchIsWorkedOn, BacklogBounded
<1>2. batch' = Tail(batch) /\ batch' \in Seq(Nat) /\ Len(batch') = Len(batch) - 1
      /\ Head(batch) \in Nat
  BY <1>1, TailFacts DEF Settle
<1>3. flush' = IF batch' = <<>> THEN "turn" ELSE "next"
  BY DEF Settle
<1> QED
  BY <1>1, <1>2, <1>3, SizeAssumption DEF FlushState, BatchIsWorkedOn, AtWork

LEMMA NextInv == Inv /\ [Next]_vars => Inv'
<1> SUFFICES ASSUME Inv, [Next]_vars PROVE Inv'
  OBVIOUS
<1> USE SizeAssumption
  DEF Inv, TypeOK, FlushState, NoEventStranded, BatchIsWorkedOn, AtWork,
      BacklogBounded, queueVars, breakerVars, dashboardVars
<1>1. CASE Emit
  <2>1. /\ buffer' \in Seq(Nat) /\ buffer' # <<>> /\ Len(buffer') <= BufferSize
        /\ droppedEvents' \in Nat
    BY <1>1, EmittedBuffer
  <2>2. /\ seq' \in Nat /\ flushing' = TRUE /\ flush' # "idle"
        /\ flush' \in FlushState /\ (AtWork' <=> AtWork)
        /\ UNCHANGED <<batch, attempt, breakerVars, dashboardVars>>
    BY <1>1 DEF Emit
  <2> QED
    BY <2>1, <2>2
<1>2. CASE TakeBatch
  BY <1>2 DEF TakeBatch
<1>3. CASE FlushEnds
  BY <1>3 DEF FlushEnds
<1>4. CASE ShortCircuit
  <2>1. /\ batch' \in Seq(Nat) /\ flush' \in FlushState /\ flush' # "idle"
        /\ Len(batch') <= BufferSize /\ BatchIsWorkedOn'
    BY <1>4, SettleType DEF ShortCircuit, Drop
  <2> QED
    BY <1>4, <2>1 DEF ShortCircuit, Drop
<1>5. CASE Fetch
  BY <1>5 DEF Fetch
<1>6. CASE Answered
  <2>1. /\ batch' \in Seq(Nat) /\ flush' \in FlushState /\ flush' # "idle"
        /\ Len(batch') <= BufferSize /\ Head(batch) \in Nat /\ BatchIsWorkedOn'
    BY <1>6, SettleType DEF Answered
  <2>2. received' \in Seq(Nat) /\ rejected' \in SUBSET Nat
    BY <1>6, <2>1, AppendFacts DEF Answered
  <2> QED
    BY <1>6, <2>1, <2>2 DEF Answered
<1>7. CASE Fails
  <2>1. batch \in Seq(Nat) /\ batch # <<>>
    BY <1>7 DEF Fails
  <2>2. /\ received' \in Seq(Nat) /\ adrift' \in SUBSET (Nat \X Nat)
        /\ UNCHANGED <<rejected, overdue>>
    <3>1. Head(batch) \in Nat /\ <<Head(batch), attempt>> \in Nat \X Nat
      BY <2>1, TailFacts
    <3>2. Append(received, Head(batch)) \in Seq(Nat)
      BY <3>1, AppendFacts
    <3>3. Unanswered
      BY <1>7 DEF Fails
    <3> QED
      BY <3>1, <3>2, <3>3 DEF Unanswered
  <2>3. CASE attempt < Retries
    BY <1>7, <2>2, <2>3 DEF Fails
  <2>4. CASE ~(attempt < Retries)
    <3>1. /\ batch' \in Seq(Nat) /\ flush' \in FlushState /\ flush' # "idle"
          /\ Len(batch') <= BufferSize /\ BatchIsWorkedOn'
      BY <1>7, <2>4, SettleType DEF Fails, Drop
    <3> QED
      BY <1>7, <2>2, <2>4, <3>1 DEF Fails, Drop
  <2> QED
    BY <2>3, <2>4
<1>8. CASE Refused
  <2>1. /\ batch' \in Seq(Nat) /\ flush' \in FlushState /\ flush' # "idle"
        /\ Len(batch') <= BufferSize /\ BatchIsWorkedOn'
    BY <1>8, SettleType DEF Refused, Drop
  <2>2. /\ droppedEvents' = droppedEvents + 1
        /\ dashboardDown' = TRUE /\ expired' = FALSE
        /\ UNCHANGED <<queueVars, attempt, dashboardVars>>
    BY <1>8 DEF Refused, Drop
  <2>3. droppedEvents' \in Nat /\ (flushing' <=> flush' # "idle")
    BY <2>1, <2>2, <1>8 DEF Refused
  <2> QED
    BY <2>1, <2>2, <2>3
<1>9. CASE Retry
  BY <1>9 DEF Retry
<1>10. CASE BreakerExpires
  BY <1>10 DEF BreakerExpires
<1>11. CASE OtherRequest
  BY <1>11 DEF OtherRequest
<1>12. CASE UNCHANGED vars
  BY <1>12 DEF vars
<1>13. CASE \E request \in adrift : Lands(request)
  <2>1. PICK request \in adrift : Lands(request)
    BY <1>13
  <2>2. /\ received' \in Seq(Nat) /\ adrift' \in SUBSET (Nat \X Nat)
        /\ overdue' \in SUBSET Nat
    <3>1. request[1] \in Nat /\ Len(received) + 1 \in Nat
      OBVIOUS
    <3> QED
      BY <2>1, <3>1, AppendFacts DEF Lands
  <2> QED
    BY <2>1, <2>2 DEF Lands
<1> QED
  BY <1>1, <1>2, <1>3, <1>4, <1>5, <1>6, <1>7, <1>8, <1>9, <1>10, <1>11, <1>12, <1>13
  DEF Next, Flush

LEMMA SpecInv == Spec => []Inv
<1> QED
  BY InitInv, NextInv, PTL DEF Spec

\* The types, whatever the constants (event-emitter.ts's module variables).
THEOREM TypeCorrect == Spec => []TypeOK
  BY SpecInv, PTL DEF Inv

\* No lost wake-up, for any buffer and any number of events: what emit leaves
\* in the buffer has a flush under way, and the flag agrees with it.
THEOREM StrandsNoEvent == Spec => []NoEventStranded
  BY SpecInv, PTL DEF Inv

\* The backlog of a dashboard that is down: at most a buffer and a batch.
THEOREM BoundsBacklog == Spec => []BacklogBounded
  BY SpecInv, PTL DEF Inv

-----------------------------------------------------------------------------
(* The order of the numbers.                                               *)

LEMMA LineInit == Init => Line /\ InOrder
<1> SUFFICES ASSUME Init PROVE Line /\ InOrder
  OBVIOUS
<1>1. Range(<<>>) = {} /\ DOMAIN <<>> = {}
  BY DEF Range
<1>2. Sent = {}
  BY <1>1 DEF Init, Sent
<1> QED
  BY <1>1, <1>2 DEF Init, Line, InOrder, Rising

LEMMA SentTypes == Inv => Sent \subseteq Nat /\ Range(received) \subseteq Nat
  BY DEF Inv, TypeOK, Sent, Range

\* emit: the new number is above all the others, in a full buffer too.
LEMMA EmitLine ==
  ASSUME Inv, Line, Emit
  PROVE  Line'
<1>1. /\ seq \in Nat /\ seq' = seq + 1 /\ seq + 1 \in Nat
      /\ batch' = batch /\ received' = received /\ adrift' = adrift /\ Sent' = Sent
      /\ buffer \in Seq(Nat) /\ batch \in Seq(Nat) /\ received \in Seq(Nat)
  BY DEF Emit, Inv, TypeOK, Sent, dashboardVars
<1>2. Range(batch) \subseteq Nat /\ Sent \subseteq Nat
      /\ Range(buffer) \subseteq Nat
  BY <1>1, SentTypes DEF Range
<1>3. ASSUME NEW s \in Seq(Nat), buffer' = Append(s, seq + 1), Rising(s),
             Range(s) \subseteq Range(buffer)
      PROVE  Line'
  <2>1. Range(buffer') = Range(s) \cup {seq + 1}
    BY <1>1, <1>3, RangeOfAppend
  <2>2. \A x \in Range(s) : x < seq + 1
    BY <1>1, <1>2, <1>3 DEF Line
  <2>3. Rising(buffer')
    BY <1>1, <1>3, <2>2, AppendRising
  <2>4. \A x \in Sent \cup Range(batch) : x <= seq /\ x \in Nat
    BY <1>2 DEF Line
  <2>5. \A x \in Sent' \cup Range(batch') \cup Range(buffer') : x <= seq'
    <3>1. \A x \in Range(s) : x <= seq + 1
      BY <1>1, <1>2, <1>3, <2>2
    <3>2. \A x \in Sent \cup Range(batch) : x <= seq + 1
      BY <1>1, <2>4
    <3> QED
      BY <1>1, <2>1, <3>1, <3>2
  <2>6. /\ \A x \in Sent, y \in Range(s) : x <= y
        /\ \A x \in Range(batch), y \in Range(s) : x < y
        /\ \A x \in Sent, y \in Range(batch) : x <= y
        /\ Rising(batch)
    BY <1>3 DEF Line
  <2>7. /\ \A x \in Sent', y \in Range(buffer') : x <= y
        /\ \A x \in Range(batch'), y \in Range(buffer') : x < y
    BY <1>1, <2>1, <2>4, <2>6
  <2> QED
    BY <1>1, <2>3, <2>5, <2>6, <2>7 DEF Line
<1>4. CASE buffer' = Append(buffer, seq + 1)
  BY <1>1, <1>3, <1>4 DEF Line
<1>5. CASE buffer # <<>> /\ buffer' = Append(Tail(buffer), seq + 1)
  <2>1. /\ Rising(Tail(buffer)) /\ Tail(buffer) \in Seq(Nat)
        /\ Range(Tail(buffer)) \subseteq Range(buffer)
    BY <1>1, <1>5, TailRising, TailFacts, RangeOfTail DEF Line
  <2> QED
    BY <1>3, <1>5, <2>1
<1> QED
  BY <1>4, <1>5, EmittedBuffer

\* Taking the batch moves the buffer's section up.
LEMMA TakeLine ==
  ASSUME Inv, Line, TakeBatch
  PROVE  Line'
<1>1. /\ batch' = buffer /\ buffer' = <<>> /\ seq' = seq /\ Sent' = Sent
  BY DEF TakeBatch, Sent, dashboardVars
<1>2. Rising(<<>>) /\ Range(<<>>) = {}
  BY DEF Rising, Range
<1> QED
  BY <1>1, <1>2 DEF Line

\* A step that leaves the batch or settles its head, and adds nothing but
\* that head to what has arrived, keeps the line and the order.
LEMMA ArriveLine ==
  ASSUME Inv, Line, InOrder, AtWork,
         batch' \in {batch, Tail(batch)},
         received' \in {received, Append(received, Head(batch))},
         adrift' \in {adrift, adrift \cup {<<Head(batch), attempt>>}},
         UNCHANGED <<seq, buffer, overdue>>
  PROVE  Line' /\ InOrder'
<1>1. /\ batch \in Seq(Nat) /\ batch # <<>> /\ received \in Seq(Nat)
      /\ seq \in Nat /\ buffer \in Seq(Nat) /\ Rising(batch)
  BY DEF Inv, TypeOK, BatchIsWorkedOn, Line
<1> DEFINE h == Head(batch)
<1>2. /\ h \in Nat /\ h \in Range(batch)
      /\ Sent \subseteq Nat /\ Range(batch) \subseteq Nat
      /\ Range(buffer) \subseteq Nat
      /\ \A y \in Range(batch) : h <= y
  <2>1. h \in Nat /\ Range(batch) = Range(Tail(batch)) \cup {h}
    BY <1>1, TailFacts, RangeOfTail
  <2>2. Sent \subseteq Nat /\ Range(buffer) \subseteq Nat
        /\ Range(batch) \subseteq Nat
    BY <1>1, SentTypes DEF Range
  <2>3. \A y \in Range(Tail(batch)) : h < y
    BY <1>1, TailRising
  <2> QED
    BY <2>1, <2>2, <2>3
<1>3. Sent' \subseteq Sent \cup {h}
  <2>1. Range(received') \subseteq Range(received) \cup {h}
    BY <1>1, <1>2, RangeOfAppend
  <2>2. {request[1] : request \in adrift'} \subseteq {request[1] : request \in adrift} \cup {h}
    OBVIOUS
  <2> QED
    BY <2>1, <2>2 DEF Sent
<1>4. Range(batch') \subseteq Range(batch) /\ Rising(batch')
  BY <1>1, RangeOfTail, TailRising
<1>5. \A x \in Sent : x <= h
  BY <1>2 DEF Line
<1>6. \A x \in Sent' : x <= h /\ x \in Nat
  BY <1>2, <1>3, <1>5
<1>7. \A x \in Sent', y \in Range(batch') : x <= y
  <2> SUFFICES ASSUME NEW x \in Sent', NEW y \in Range(batch')
               PROVE  x <= y
    OBVIOUS
  <2>1. x <= h /\ h <= y /\ x \in Nat /\ y \in Nat
    BY <1>2, <1>4, <1>6
  <2> HIDE DEF h
  <2> QED
    BY <1>2, <2>1
<1>8. h <= seq /\ \A y \in Range(buffer) : h < y
  BY <1>2 DEF Line
<1>9. /\ \A x \in Sent' : x <= seq
      /\ \A x \in Sent', y \in Range(buffer) : x <= y
  <2> HIDE DEF h
  <2>1. \A x \in Sent' : x <= seq
    BY <1>1, <1>2, <1>6, <1>8
  <2>2. \A x \in Sent', y \in Range(buffer) :
           x <= h /\ h < y /\ x \in Nat /\ y \in Nat
    BY <1>2, <1>6, <1>8
  <2> QED
    BY <1>2, <2>1, <2>2
<1>10. Line'
  BY <1>4, <1>7, <1>9 DEF Line
<1>11. InOrder'
  <2>1. CASE received' = received
    BY <2>1 DEF InOrder
  <2>2. CASE received' = Append(received, h)
    <3> SUFFICES ASSUME NEW i \in DOMAIN received', NEW j \in DOMAIN received', i < j,
                        j \notin overdue
                 PROVE  received'[i] <= received'[j]
      BY DEF InOrder
    <3>1. i \in DOMAIN received /\ received'[i] = received[i]
      BY <1>1, <2>2
    <3>2. CASE j \in DOMAIN received
      <4>1. received'[j] = received[j]
        BY <1>1, <2>2, <3>2
      <4> QED
        BY <3>1, <3>2, <4>1 DEF InOrder
    <3>3. CASE j \notin DOMAIN received
      <4>1. received'[j] = h
        BY <1>1, <2>2, <3>3
      <4>2. received[i] \in Sent
        BY <3>1 DEF Range, Sent
      <4> QED
        BY <1>5, <3>1, <4>1, <4>2
    <3> QED
      BY <3>2, <3>3
  <2> QED
    BY <2>1, <2>2
<1> QED
  BY <1>10, <1>11

\* The handler of a broken request adds what had been sent long since.
LEMMA LandsLine ==
  ASSUME Inv, Line, InOrder, NEW request \in adrift, Lands(request)
  PROVE  Line' /\ InOrder'
<1>1. /\ received \in Seq(Nat) /\ request[1] \in Nat
      /\ received' = Append(received, request[1])
      /\ overdue' = overdue \cup {Len(received) + 1} /\ adrift' \subseteq adrift
      /\ UNCHANGED <<seq, buffer, batch>>
  BY DEF Lands, Inv, TypeOK, queueVars
<1>2. Sent' \subseteq Sent
  <2>1. Range(received') = Range(received) \cup {request[1]}
    BY <1>1, RangeOfAppend
  <2> QED
    BY <1>1, <2>1 DEF Sent
<1>3. Line'
  BY <1>1, <1>2 DEF Line
<1>4. ASSUME NEW i \in DOMAIN received', NEW j \in DOMAIN received', i < j, j \notin overdue'
      PROVE  received'[i] <= received'[j]
  <2>1. /\ i \in DOMAIN received /\ received'[i] = received[i]
        /\ j \in DOMAIN received /\ received'[j] = received[j]
    BY <1>1, <1>4, AppendFacts
  <2> QED
    BY <1>1, <1>4, <2>1 DEF InOrder
<1> QED
  BY <1>3, <1>4 DEF InOrder

LEMMA LineNext == Inv /\ Line /\ InOrder /\ [Next]_vars => Line' /\ InOrder'
<1> SUFFICES ASSUME Inv, Line, InOrder, [Next]_vars PROVE Line' /\ InOrder'
  OBVIOUS
<1> USE DEF queueVars, dashboardVars
<1>1. CASE Emit
  <2>1. received' = received /\ overdue' = overdue
    BY <1>1 DEF Emit
  <2> QED
    BY <1>1, <2>1, EmitLine DEF InOrder
<1>2. CASE TakeBatch
  <2>1. received' = received /\ overdue' = overdue
    BY <1>2 DEF TakeBatch
  <2> QED
    BY <1>2, <2>1, TakeLine DEF InOrder
<1>3. CASE ShortCircuit
  BY <1>3, ArriveLine DEF ShortCircuit, Drop, Settle, AtWork
<1>4. CASE Answered
  BY <1>4, ArriveLine DEF Answered, Settle, AtWork
<1>5. CASE Fails
  BY <1>5, ArriveLine DEF Fails, Unanswered, Drop, Settle, AtWork
<1>6. CASE Refused
  BY <1>6, ArriveLine DEF Refused, Drop, Settle, AtWork
<1>7. ASSUME UNCHANGED <<seq, buffer, batch, dashboardVars>>
      PROVE  Line' /\ InOrder'
  BY <1>7 DEF Line, InOrder, Rising, Sent
<1>8. CASE FlushEnds \/ Fetch \/ Retry \/ BreakerExpires \/ OtherRequest
           \/ UNCHANGED vars
  BY <1>7, <1>8 DEF FlushEnds, Fetch, Retry, BreakerExpires, OtherRequest, vars
<1>9. CASE \E request \in adrift : Lands(request)
  BY <1>9, LandsLine
<1> QED
  BY <1>1, <1>2, <1>3, <1>4, <1>5, <1>6, <1>8, <1>9 DEF Next, Flush

\* Retries, overflows, 4xx answers and the breaker never reorder the events:
\* what the dashboard stores for a request the emitter waits for comes after
\* nothing later (event-emitter.ts's one flush at a time, and its loop over
\* the batch), whatever the handlers of broken requests add meanwhile.
THEOREM KeepsOrder == Spec => []InOrder
<1>1. Init => Inv /\ Line /\ InOrder
  BY InitInv, LineInit
<1>2. (Inv /\ Line /\ InOrder) /\ [Next]_vars => (Inv /\ Line /\ InOrder)'
  BY NextInv, LineNext
<1> QED
  BY <1>1, <1>2, PTL DEF Spec

-----------------------------------------------------------------------------
(* What is lost has been counted.                                          *)

LEMMA GoneFinite == Inv => IsFiniteSet(Gone) /\ Cardinality(Gone) \in Nat
<1> SUFFICES ASSUME Inv PROVE IsFiniteSet(Gone) /\ Cardinality(Gone) \in Nat
  OBVIOUS
<1>1. IsFiniteSet(1..seq)
  BY FS_Interval DEF Inv, TypeOK
<1>2. Gone \subseteq 1..seq
  BY DEF Gone
<1> QED
  BY <1>1, <1>2, FS_Subset, FS_CardinalityType

\* Nothing more is gone.
LEMMA NoneLost ==
  ASSUME Inv, NothingVanishes, Gone' \subseteq Gone, droppedEvents' = droppedEvents
  PROVE  NothingVanishes'
<1>1. Cardinality(Gone') <= Cardinality(Gone) /\ Cardinality(Gone') \in Nat
  BY GoneFinite, FS_Subset, FS_CardinalityType
<1> QED
  BY <1>1, GoneFinite DEF NothingVanishes, Inv, TypeOK

\* One event more is gone, and counted.
LEMMA OneLost ==
  ASSUME Inv, NothingVanishes, NEW e, Gone' \subseteq Gone \cup {e},
         droppedEvents' = droppedEvents + 1
  PROVE  NothingVanishes'
<1>0. IsFiniteSet(Gone) /\ Cardinality(Gone) \in Nat
  BY GoneFinite
<1>1. IsFiniteSet(Gone \cup {e}) /\ Cardinality(Gone \cup {e}) <= Cardinality(Gone) + 1
      /\ Cardinality(Gone \cup {e}) \in Nat
  <2>1. CASE e \in Gone
    <3>1. Gone \cup {e} = Gone
      BY <2>1
    <3> QED
      BY <1>0, <3>1
  <2>2. CASE e \notin Gone
    BY <1>0, <2>2, FS_AddElement
  <2> QED
    BY <2>1, <2>2
<1>2. Cardinality(Gone') <= Cardinality(Gone \cup {e}) /\ Cardinality(Gone') \in Nat
  BY <1>1, FS_Subset, FS_CardinalityType
<1>3. Cardinality(Gone) <= droppedEvents /\ droppedEvents \in Nat
  BY DEF NothingVanishes, Inv, TypeOK
<1>4. Cardinality(Gone') <= droppedEvents + 1
  BY <1>1, <1>2, <1>3, GoneFinite
<1> QED
  BY <1>4 DEF NothingVanishes

LEMMA InitVanishes == Init => NothingVanishes
<1> SUFFICES ASSUME Init PROVE NothingVanishes
  OBVIOUS
<1>1. Gone = {}
  BY DEF Init, Gone
<1> QED
  BY <1>1, FS_EmptySet DEF Init, NothingVanishes

LEMMA EmitVanishes ==
  ASSUME Inv, NothingVanishes, Emit
  PROVE  NothingVanishes'
<1>1. /\ seq \in Nat /\ seq' = seq + 1 /\ 1..seq' = 1..seq \cup {seq + 1}
      /\ seq + 1 \in Nat /\ buffer \in Seq(Nat)
      /\ UNCHANGED <<batch, received, rejected>>
  <2>1. seq \in Nat /\ buffer \in Seq(Nat)
    BY DEF Inv, TypeOK
  <2>2. seq' = seq + 1 /\ UNCHANGED <<batch, received, rejected>>
    BY DEF Emit, dashboardVars
  <2> QED
    BY <2>1, <2>2
<1>2. CASE buffer' = Append(buffer, seq + 1) /\ droppedEvents' = droppedEvents
  <2>1. Range(buffer') = Range(buffer) \cup {seq + 1}
    BY <1>1, <1>2, RangeOfAppend
  <2>2. Gone' \subseteq Gone
    BY <1>1, <2>1 DEF Gone
  <2> QED
    BY <1>2, <2>2, NoneLost
<1>3. CASE /\ buffer # <<>> /\ buffer' = Append(Tail(buffer), seq + 1)
           /\ droppedEvents' = droppedEvents + 1
  <2>1. Range(buffer') = Range(Tail(buffer)) \cup {seq + 1}
    BY <1>1, <1>3, TailFacts, RangeOfAppend
  <2>2. Range(buffer) = Range(Tail(buffer)) \cup {Head(buffer)}
    BY <1>1, <1>3, RangeOfTail
  <2>3. Gone' \subseteq Gone \cup {Head(buffer)}
    BY <1>1, <2>1, <2>2 DEF Gone
  <2> QED
    BY <1>3, <2>3, OneLost
<1> QED
  BY <1>2, <1>3, EmittedBuffer

\* A drop loses the head of the batch at most.
LEMMA DropVanishes ==
  ASSUME Inv, NothingVanishes, AtWork, Drop, UNCHANGED <<seq, buffer, rejected>>,
         received' \in {received, Append(received, Head(batch))}
  PROVE  NothingVanishes'
<1>1. batch \in Seq(Nat) /\ batch # <<>> /\ received \in Seq(Nat)
  BY DEF Inv, TypeOK, BatchIsWorkedOn
<1>2. Range(batch) = Range(batch') \cup {Head(batch)}
  BY <1>1, RangeOfTail DEF Drop, Settle
<1>3. Range(received) \subseteq Range(received')
  BY <1>1, TailFacts, RangeOfAppend
<1>4. Gone' \subseteq Gone \cup {Head(batch)}
  BY <1>2, <1>3 DEF Gone
<1> QED
  BY <1>4, OneLost DEF Drop

LEMMA AnsweredVanishes ==
  ASSUME Inv, NothingVanishes, Answered
  PROVE  NothingVanishes'
<1>1. /\ batch \in Seq(Nat) /\ batch # <<>> /\ received \in Seq(Nat)
      /\ batch' = Tail(batch)
      /\ UNCHANGED <<seq, buffer, droppedEvents>>
  BY DEF Answered, Settle, queueVars, Inv, TypeOK, BatchIsWorkedOn, AtWork
<1>2. Range(batch) = Range(batch') \cup {Head(batch)}
  BY <1>1, RangeOfTail
<1>3. Range(received) \cup rejected \cup {Head(batch)}
        \subseteq Range(received') \cup rejected'
  BY <1>1, TailFacts, RangeOfAppend DEF Answered
<1>4. Gone' \subseteq Gone
  BY <1>1, <1>2, <1>3 DEF Gone
<1> QED
  BY <1>1, <1>4, NoneLost

LEMMA NextVanishes == Inv /\ NothingVanishes /\ [Next]_vars => NothingVanishes'
<1> SUFFICES ASSUME Inv, NothingVanishes, [Next]_vars PROVE NothingVanishes'
  OBVIOUS
<1> USE DEF queueVars, dashboardVars
<1>1. CASE Emit
  BY <1>1, EmitVanishes
<1>2. CASE TakeBatch
  <2>1. batch = <<>> /\ Range(<<>>) = {}
    BY <1>2 DEF TakeBatch, Inv, BatchIsWorkedOn, AtWork, Range
  <2>2. Gone' \subseteq Gone /\ droppedEvents' = droppedEvents
    BY <1>2, <2>1 DEF TakeBatch, Gone
  <2> QED
    BY <2>2, NoneLost
<1>3. CASE ShortCircuit
  BY <1>3, DropVanishes DEF ShortCircuit, AtWork
<1>4. CASE Answered
  BY <1>4, AnsweredVanishes
<1>5. CASE Fails
  <2>1. CASE attempt < Retries
    <3>1. Range(received) \subseteq Range(received')
      <4>1. received \in Seq(Nat) /\ batch \in Seq(Nat) /\ batch # <<>>
        BY <1>5 DEF Fails, Inv, TypeOK, BatchIsWorkedOn, AtWork
      <4>2. Range(Append(received, Head(batch))) = Range(received) \cup {Head(batch)}
        BY <4>1, TailFacts, RangeOfAppend
      <4>3. received' = received \/ received' = Append(received, Head(batch))
        BY <1>5 DEF Fails, Unanswered
      <4> QED
        BY <4>2, <4>3
    <3>2. Gone' \subseteq Gone /\ droppedEvents' = droppedEvents
      BY <1>5, <2>1, <3>1 DEF Fails, Unanswered, Gone
    <3> QED
      BY <3>2, NoneLost
  <2>2. CASE ~(attempt < Retries)
    BY <1>5, <2>2, DropVanishes DEF Fails, Unanswered, AtWork
  <2> QED
    BY <2>1, <2>2
<1>6. CASE Refused
  BY <1>6, DropVanishes DEF Refused, AtWork
<1>7. CASE FlushEnds \/ Fetch \/ Retry \/ BreakerExpires \/ OtherRequest
           \/ UNCHANGED vars
  <2>1. UNCHANGED <<seq, buffer, batch, received, rejected, droppedEvents>>
    BY <1>7 DEF FlushEnds, Fetch, Retry, BreakerExpires, OtherRequest, vars
  <2>2. Gone' \subseteq Gone
    BY <2>1 DEF Gone
  <2> QED
    BY <2>1, <2>2, NoneLost
<1>8. CASE \E request \in adrift : Lands(request)
  <2>1. PICK request \in adrift : Lands(request)
    BY <1>8
  <2>2. request[1] \in Nat /\ received \in Seq(Nat)
    BY DEF Inv, TypeOK
  <2>3. Range(received') = Range(received) \cup {request[1]}
    BY <2>1, <2>2, RangeOfAppend DEF Lands
  <2>4. Gone' \subseteq Gone /\ droppedEvents' = droppedEvents
    BY <2>1, <2>3 DEF Lands, Gone
  <2> QED
    BY <2>4, NoneLost
<1> QED
  BY <1>1, <1>2, <1>3, <1>4, <1>5, <1>6, <1>7, <1>8 DEF Next, Flush

\* The warning of sessionEnd tells the truth: the events that are neither on
\* their way, nor stored, nor refused with a 4xx are no more than
\* droppedEvents says (event-emitter.ts's counter at the overflow, at the
\* open breaker and at the last failed attempt).
THEOREM CountsLosses == Spec => []NothingVanishes
<1>1. Init => Inv /\ NothingVanishes
  BY InitInv, InitVanishes
<1>2. (Inv /\ NothingVanishes) /\ [Next]_vars => (Inv /\ NothingVanishes)'
  BY NextInv, NextVanishes
<1> QED
  BY <1>1, <1>2, PTL DEF Spec
=============================================================================
