---------------------------- MODULE DashboardProofs ----------------------------
(***************************************************************************)
(* What the dashboard's server promises.  First the stream of user         *)
(* messages, for any events, sizes of channel and wire, and any number of  *)
(* breaks and errors: no message is acted on twice, and a reconnect of an  *)
(* undisturbed stream passes over none.  Then the view and the file of a   *)
(* session, for any bounds on its events, the row's updates and the lost   *)
(* answers.                                                                *)
(***************************************************************************)
EXTENDS EventStream, Dashboard, SequenceTheorems, TLAPS

-----------------------------------------------------------------------------
(* What a stream has still to deliver.                                     *)

\* The frames a stream has still to deliver, in the order of delivery: those on
\* the wire, the rest of the replay, and what has been announced.
Line(w, r, c) ==
  [i \in 1 .. Len(w) + Len(r) + Len(c) |->
     IF i <= Len(w) THEN w[i]
     ELSE IF i <= Len(w) + Len(r) THEN r[i - Len(w)] ELSE c[i - Len(w) - Len(r)]]

LEMMA TailFacts ==
  ASSUME NEW s \in Seq(Nat), s # <<>>
  PROVE  /\ Tail(s) \in Seq(Nat) /\ Head(s) = s[1] /\ Head(s) \in Nat
         /\ Len(s) \in Nat \ {0} /\ Len(Tail(s)) = Len(s) - 1
         /\ \A i \in 1 .. Len(s) - 1 : Tail(s)[i] = s[i + 1]
  OBVIOUS

LEMMA AppendFacts ==
  ASSUME NEW s \in Seq(Nat), NEW e \in Nat
  PROVE  /\ Append(s, e) \in Seq(Nat) /\ Len(s) \in Nat
         /\ Len(Append(s, e)) = Len(s) + 1
         /\ \A i \in 1 .. Len(s) : Append(s, e)[i] = s[i]
         /\ Append(s, e)[Len(s) + 1] = e
  OBVIOUS

\* To write a row, or an event that was announced, changes nothing of it.
LEMMA RowIsWritten ==
  ASSUME NEW w \in Seq(Nat), NEW r \in Seq(Nat), NEW c \in Seq(Nat), r # <<>>
  PROVE  Line(Append(w, Head(r)), Tail(r), c) = Line(w, r, c)
<1> DEFINE a == Append(w, Head(r))
           t == Tail(r)
<1>1. /\ Head(r) = r[1] /\ Len(r) \in Nat \ {0} /\ Len(t) = Len(r) - 1
      /\ \A i \in 1 .. Len(r) - 1 : t[i] = r[i + 1]
  BY TailFacts
<1>2. /\ Len(a) = Len(w) + 1 /\ a[Len(w) + 1] = r[1] /\ Len(w) \in Nat
      /\ \A i \in 1 .. Len(w) : a[i] = w[i]
  BY <1>1, TailFacts, AppendFacts
<1>3. Len(c) \in Nat
  OBVIOUS
<1> HIDE DEF a, t
<1>4. Len(a) + Len(t) = Len(w) + Len(r)
  BY <1>1, <1>2
<1>5. ASSUME NEW i \in 1 .. Len(w) + Len(r) + Len(c)
      PROVE  Line(a, t, c)[i] = Line(w, r, c)[i]
  <2>1. CASE i <= Len(w)
    BY <1>1, <1>2, <1>3, <1>4, <2>1 DEF Line
  <2>2. CASE i = Len(w) + 1
    BY <1>1, <1>2, <1>3, <1>4, <2>2 DEF Line
  <2>3. CASE i > Len(w) + 1 /\ i <= Len(w) + Len(r)
    <3>1. t[i - (Len(w) + 1)] = r[i - Len(w)]
      <4>1. i - (Len(w) + 1) \in 1 .. Len(r) - 1
        BY <1>1, <1>2, <2>3
      <4>2. i - (Len(w) + 1) + 1 = i - Len(w)
        BY <1>2
      <4> QED
        BY <1>1, <4>1, <4>2
    <3>2. Line(w, r, c)[i] = r[i - Len(w)]
      BY <1>1, <1>2, <1>3, <2>3 DEF Line
    <3>3. Line(a, t, c)[i] = t[i - Len(a)]
      <4>1. ~(i <= Len(a)) /\ i <= Len(a) + Len(t) /\ i \in 1 .. Len(a) + Len(t) + Len(c)
        BY <1>1, <1>2, <1>3, <2>3
      <4> QED
        BY <4>1 DEF Line
    <3> QED
      BY <1>2, <3>1, <3>2, <3>3
  <2>4. CASE i > Len(w) + Len(r)
    <3>1. i - Len(a) - Len(t) = i - Len(w) - Len(r)
      BY <1>1, <1>2
    <3> QED
      BY <1>1, <1>2, <1>3, <1>4, <2>4, <3>1 DEF Line
  <2> QED
    BY <1>1, <1>2, <1>3, <2>1, <2>2, <2>3, <2>4
<1>6. Line(a, t, c) = Line(w, r, c)
  BY <1>4, <1>5 DEF Line
<1> QED
  BY <1>6 DEF a, t

LEMMA LiveIsWritten ==
  ASSUME NEW w \in Seq(Nat), NEW c \in Seq(Nat), c # <<>>
  PROVE  Line(Append(w, Head(c)), <<>>, Tail(c)) = Line(w, <<>>, c)
<1>1. ASSUME NEW s \in Seq(Nat), NEW t \in Seq(Nat)
      PROVE  Line(s, <<>>, t) = Line(s, t, <<>>)
  <2>1. Len(<<>>) = 0 /\ Len(s) \in Nat /\ Len(t) \in Nat
    OBVIOUS
  <2>2. Len(s) + 0 + Len(t) = Len(s) + Len(t) + 0
    BY <2>1
  <2>3. \A i \in 1 .. Len(s) + Len(t) :
          Line(s, <<>>, t)[i] = Line(s, t, <<>>)[i]
    BY <2>1 DEF Line
  <2> QED
    BY <2>1, <2>2, <2>3 DEF Line
<1>2. <<>> \in Seq(Nat)
  OBVIOUS
<1> DEFINE a == Append(w, Head(c))
           t == Tail(c)
<1>3. a \in Seq(Nat) /\ t \in Seq(Nat)
  BY TailFacts, AppendFacts
<1>4. Line(a, t, <<>>) = Line(w, c, <<>>)
  BY <1>2, RowIsWritten
<1> HIDE DEF a, t
<1>5. Line(a, <<>>, t) = Line(a, t, <<>>)
  BY <1>1, <1>3
<1>6. Line(w, <<>>, c) = Line(w, c, <<>>)
  BY <1>1
<1> QED
  BY <1>4, <1>5, <1>6 DEF a, t

-----------------------------------------------------------------------------
(* The invariant.                                                          *)

MissedIds == {id \in Ids : Missed(id)}
Ahead == Line(wire, rows, channel)

Shape ==
  /\ table \in Seq(Events) /\ pending \subseteq Ids /\ lastId \in 0 .. Len(table)
  /\ acted \in Seq(UserMessages)
  /\ wire \in Seq(Nat) /\ \A i \in 1 .. Len(wire) : wire[i] \in Ids
  /\ rows \in Seq(Nat) /\ \A i \in 1 .. Len(rows) : rows[i] \in Ids
  /\ channel \in Seq(Nat) /\ \A i \in 1 .. Len(channel) : channel[i] \in Ids
  /\ Len(channel) <= ChannelSize

\* What is empty when, and that a frame half read is no longer missed.
Stages ==
  /\ conn \in {"down", "subscribed", "replaying", "live"}
  /\ conn \in {"down", "subscribed"} => wire = <<>> /\ rows = <<>>
  /\ conn = "down" => channel = <<>>
  /\ conn = "live" => rows = <<>>
  /\ halfRead => wire # <<>> /\ Head(wire) \notin MissedIds

\* On an open stream that is not deaf every missed message is ahead, or its handler
\* is still to announce it; and on any, none is ahead only of what comes after it.
Covered ==
  /\ ~deaf => \A id \in MissedIds \ pending : \E i \in DOMAIN Ahead : Ahead[i] = id
  /\ \A i \in DOMAIN Ahead : \A id \in MissedIds :
       id <= Ahead[i] => \E k \in 1 .. i : Ahead[k] = id

Catching ==
  ~disturbed => /\ \A id \in MissedIds : id > lastId
                /\ conn \in {"replaying", "live"} => Covered

StreamInv == Shape /\ Stages /\ Catching

LEMMA AppendActed ==
  ASSUME NEW s \in Seq(UserMessages), NEW e \in UserMessages
  PROVE  Append(s, e) \in Seq(UserMessages) /\ Range(Append(s, e)) = Range(s) \cup {e}
<1>1. /\ Append(s, e) \in Seq(UserMessages) /\ Len(s) \in Nat
      /\ DOMAIN Append(s, e) = 1 .. Len(s) + 1 /\ DOMAIN s = 1 .. Len(s)
      /\ \A i \in 1 .. Len(s) : Append(s, e)[i] = s[i]
      /\ Append(s, e)[Len(s) + 1] = e
  OBVIOUS
<1>2. \A x \in Range(Append(s, e)) : x \in Range(s) \cup {e}
  BY <1>1 DEF Range
<1>3. \A x \in Range(s) \cup {e} : x \in Range(Append(s, e))
  BY <1>1 DEF Range
<1> QED
  BY <1>1, <1>2, <1>3

\* While the table stays, a message that is missed was missed before.
LEMMA MissesShrink ==
  ASSUME table' = table, Range(acted) \subseteq Range(acted')
  PROVE  MissedIds' \subseteq MissedIds
  BY DEF MissedIds, Missed, Ids

LEMMA MissesStay ==
  ASSUME table' = table, acted' = acted
  PROVE  MissedIds' = MissedIds
  BY DEF MissedIds, Missed, Ids

\* Nothing ahead has moved, and nothing more is missed or has been announced.
LEMMA CoveredStays ==
  ASSUME Covered, Ahead' = Ahead, pending' = pending, deaf' = deaf,
         MissedIds' \subseteq MissedIds
  PROVE  Covered'
  BY DEF Covered

-----------------------------------------------------------------------------
(* The handlers that post.                                                 *)

LEMMA PersistKeeps ==
  ASSUME StreamInv, NEW e \in Events, Persist(e)
  PROVE  StreamInv'
<1> USE DEF StreamInv
<1> DEFINE n == Len(table) + 1
<1>1. /\ table' = Append(table, e) /\ pending' = pending \cup {n}
      /\ UNCHANGED <<deaf, conn, channel, rows, wire, halfRead, lastId, acted, disturbed>>
  BY DEF Persist, serverVars, clientVars, histVars
<1>2. /\ table' \in Seq(Events) /\ Len(table) \in Nat /\ Len(table') = n
      /\ \A i \in 1 .. Len(table) : table'[i] = table[i]
  BY <1>1 DEF Shape
<1>3. Ids' = Ids \cup {n} /\ n \notin Ids
  BY <1>2 DEF Ids
<1>4. \A id \in MissedIds' : id \in MissedIds \/ id = n
  BY <1>1, <1>2 DEF MissedIds, Missed, Ids
<1>5. Shape'
  BY <1>1, <1>2, <1>3 DEF Shape
<1>6. Stages'
  <2>1. wire # <<>> => Head(wire) \in Ids
    BY TailFacts DEF Shape
  <2> QED
    BY <1>1, <1>3, <1>4, <2>1 DEF Stages
<1>7. Catching'
  <2>1. Ahead' = Ahead
    BY <1>1 DEF Ahead
  <2>2. \A i \in DOMAIN Ahead : Ahead[i] \in Ids
    BY DEF Ahead, Line, Shape
  <2>3. Covered => Covered'
    <3>1. \A i \in DOMAIN Ahead : ~(n <= Ahead[i])
      BY <1>2, <2>2 DEF Ids
    <3> QED
      BY <1>1, <1>4, <2>1, <3>1 DEF Covered
  <2>4. n > lastId
    BY <1>2 DEF Shape
  <2> QED
    BY <1>1, <1>4, <2>3, <2>4 DEF Catching
<1> QED
  BY <1>5, <1>6, <1>7

LEMMA NotifyKeeps ==
  ASSUME StreamInv, NEW id \in pending, Notify(id)
  PROVE  StreamInv'
<1> USE DEF StreamInv
<1>1. /\ pending' = pending \ {id} /\ disturbed' = (disturbed \/ Disturbs(id))
      /\ channel' = IF conn # "down" /\ ~deaf /\ Len(channel) < ChannelSize
                      THEN Append(channel, id) ELSE channel
      /\ UNCHANGED <<table, deaf, conn, rows, wire, halfRead, lastId, acted>>
  BY DEF Notify, clientVars
<1>2. MissedIds' = MissedIds /\ Ids' = Ids
  BY <1>1, MissesStay DEF Ids
<1>3. id \in Nat /\ id \in Ids
  BY DEF Shape, Ids
<1>4. Shape'
  <2>1. Len(channel) \in Nat /\ ChannelSize \in Nat
    BY SizeAssumption DEF Shape
  <2>2. CASE channel' = channel
    BY <1>1, <1>2, <2>2 DEF Shape
  <2>3. CASE channel' = Append(channel, id) /\ Len(channel) < ChannelSize
    <3>1. /\ channel' \in Seq(Nat) /\ Len(channel') = Len(channel) + 1
          /\ \A i \in 1 .. Len(channel') : channel'[i] \in Ids
      <4>1. /\ Append(channel, id) \in Seq(Nat)
            /\ Len(Append(channel, id)) = Len(channel) + 1
            /\ \A i \in 1 .. Len(channel) : Append(channel, id)[i] = channel[i]
            /\ Append(channel, id)[Len(channel) + 1] = id
        BY <1>3, AppendFacts DEF Shape
      <4>2. \A i \in 1 .. Len(channel) + 1 : i \in 1 .. Len(channel) \/ i = Len(channel) + 1
        BY <2>1
      <4>3. \A i \in 1 .. Len(channel) + 1 : channel'[i] \in Ids
        BY <1>3, <2>3, <4>1, <4>2 DEF Shape
      <4> QED
        BY <2>3, <4>1, <4>3
    <3>2. Len(channel') <= ChannelSize
      BY <2>1, <2>3, <3>1
    <3>3. /\ table' \in Seq(Events) /\ pending' \subseteq Ids' /\ lastId' \in 0 .. Len(table')
          /\ acted' \in Seq(UserMessages)
          /\ wire' \in Seq(Nat) /\ \A i \in 1 .. Len(wire') : wire'[i] \in Ids'
          /\ rows' \in Seq(Nat) /\ \A i \in 1 .. Len(rows') : rows'[i] \in Ids'
      BY <1>1, <1>2 DEF Shape
    <3> QED
      BY <1>2, <3>1, <3>2, <3>3 DEF Shape
  <2> QED
    BY <1>1, <2>2, <2>3
<1>5. Stages'
  BY <1>1, <1>2 DEF Stages
<1>6. Catching'
  <2> SUFFICES ASSUME ~disturbed' PROVE Catching'
    BY DEF Catching
  <2>1. /\ ~disturbed
        /\ conn # "down" /\ ~deaf =>
             Len(channel) < ChannelSize /\ \A k \in pending : ~(k < id)
    <3>1. ~disturbed /\ ~Disturbs(id)
      BY <1>1
    <3>2. conn # "down" /\ ~deaf => Len(channel) # ChannelSize /\ \A k \in pending : ~(k < id)
      BY <3>1 DEF Disturbs
    <3>3. Len(channel) \in Nat /\ ChannelSize \in Nat /\ Len(channel) <= ChannelSize
      BY SizeAssumption DEF Shape
    <3> QED
      BY <3>1, <3>2, <3>3
  <2>2. ASSUME conn \in {"replaying", "live"}, Covered, ~deaf
        PROVE  Covered'
    <3> DEFINE n == Len(wire) + Len(rows) + Len(channel)
    <3>1. /\ n \in Nat /\ DOMAIN Ahead' = 1 .. n + 1
          /\ \A i \in 1 .. n : Ahead'[i] = Ahead[i]
          /\ Ahead'[n + 1] = id
      <4>1. wire \in Seq(Nat) /\ rows \in Seq(Nat) /\ channel \in Seq(Nat)
        BY DEF Shape
      <4>2. Ahead' = Line(wire, rows, Append(channel, id))
        BY <1>1, <2>1, <2>2 DEF Ahead
      <4>3. id \in Nat
        BY <1>3
      <4>4. /\ Len(Append(channel, id)) = Len(channel) + 1
            /\ \A i \in 1 .. Len(channel) : Append(channel, id)[i] = channel[i]
            /\ Append(channel, id)[Len(channel) + 1] = id
            /\ Len(wire) \in Nat /\ Len(rows) \in Nat /\ Len(channel) \in Nat
        BY <4>1, <4>3, AppendFacts
      <4>5. Ahead = Line(wire, rows, channel)
        BY DEF Ahead
      <4> QED
        BY <4>2, <4>4, <4>5 DEF Line
    <3>2. DOMAIN Ahead = 1 .. n
      BY DEF Ahead, Line
    <3> HIDE DEF n
    <3>3. \A x \in MissedIds : x \in Nat /\ (x < id => x \notin pending)
      BY <2>1, <2>2 DEF MissedIds, Ids
    <3>4. \A x \in MissedIds \ pending' : \E i \in DOMAIN Ahead' : Ahead'[i] = x
      BY <1>1, <2>2, <3>1, <3>2 DEF Covered
    <3>5. ASSUME NEW i \in DOMAIN Ahead', NEW x \in MissedIds, x <= Ahead'[i]
          PROVE  \E k \in 1 .. i : Ahead'[k] = x
      <4>1. CASE i \in 1 .. n
        <5>1. PICK k \in 1 .. i : Ahead[k] = x
          BY <2>2, <3>1, <3>2, <3>5, <4>1 DEF Covered
        <5> QED
          BY <3>1, <4>1, <5>1
      <4>2. CASE i = n + 1 /\ x = id
        BY <3>1, <4>2
      <4>3. CASE i = n + 1 /\ x # id
        <5>1. x < id
          BY <1>3, <3>1, <3>3, <3>5, <4>3
        <5>2. PICK k \in 1 .. n : Ahead[k] = x
          BY <2>2, <3>2, <3>3, <5>1 DEF Covered
        <5> QED
          BY <3>1, <4>3, <5>2
      <4> QED
        BY <3>1, <4>1, <4>2, <4>3
    <3> QED
      BY <1>2, <3>4, <3>5 DEF Covered
  <2>3. ASSUME Covered, deaf
        PROVE  Covered'
    BY <1>1, <1>2, <2>3 DEF Covered, Ahead
  <2> QED
    BY <1>1, <1>2, <2>1, <2>2, <2>3 DEF Catching
<1> QED
  BY <1>4, <1>5, <1>6

\* A clear of all sessions takes nothing off the line.
LEMMA ClearAllKeeps ==
  ASSUME StreamInv, ClearAll
  PROVE  StreamInv'
<1> USE DEF StreamInv
<1>1. /\ deaf'
      /\ UNCHANGED <<table, pending, conn, channel, rows, wire, halfRead, lastId, acted,
                    disturbed>>
  BY DEF ClearAll, postVars, clientVars, histVars
<1>2. MissedIds' = MissedIds /\ Ids' = Ids /\ Ahead' = Ahead
  BY <1>1, MissesStay DEF Ids, Ahead
<1> QED
  BY <1>1, <1>2 DEF Shape, Stages, Catching, Covered

LEMMA AppendFailsKeeps ==
  ASSUME StreamInv, NEW id \in pending, AppendFails(id)
  PROVE  StreamInv'
<1> USE DEF StreamInv
<1>1. /\ pending' = pending \ {id} /\ disturbed' = (disturbed \/ conn # "down")
      /\ UNCHANGED <<table, deaf, conn, channel, rows, wire, halfRead, lastId, acted>>
  BY DEF AppendFails, serverVars, clientVars
<1>2. MissedIds' = MissedIds /\ Ids' = Ids
  BY <1>1, MissesStay DEF Ids
<1>3. Shape'
  BY <1>1, <1>2 DEF Shape
<1>4. Stages'
  BY <1>1, <1>2 DEF Stages
<1>5. Catching'
  BY <1>1, <1>2 DEF Catching
<1> QED
  BY <1>3, <1>4, <1>5

-----------------------------------------------------------------------------
(* The stream.                                                             *)

LEMMA ConnectKeeps ==
  ASSUME StreamInv, Connect
  PROVE  StreamInv'
<1> USE DEF StreamInv
<1>1. /\ conn = "down" /\ conn' = "subscribed"
      /\ UNCHANGED <<table, pending, deaf, channel, rows, wire, halfRead, lastId, acted, disturbed>>
  BY DEF Connect, postVars, clientVars, histVars
<1>2. MissedIds' = MissedIds /\ Ids' = Ids
  BY <1>1, MissesStay DEF Ids
<1>3. Shape'
  BY <1>1, <1>2 DEF Shape
<1>4. Stages'
  BY <1>1, <1>2 DEF Stages
<1>5. Catching'
  BY <1>1, <1>2 DEF Catching
<1> QED
  BY <1>3, <1>4, <1>5

\* The replay begins where the client has stopped and reaches to the end of the
\* table, so that all that was missed is in it.
LEMMA ReplayKeeps ==
  ASSUME StreamInv, Replay
  PROVE  StreamInv'
<1> USE DEF StreamInv
<1> DEFINE m == Len(table) - lastId
<1>1. /\ conn = "subscribed" /\ conn' = "replaying" /\ wire = <<>>
      /\ rows' = [k \in 1 .. m |-> lastId + k]
      /\ UNCHANGED <<table, pending, deaf, channel, wire, halfRead, lastId, acted, disturbed>>
  BY DEF Replay, postVars, clientVars, histVars, Stages
<1>2. MissedIds' = MissedIds /\ Ids' = Ids
  BY <1>1, MissesStay DEF Ids
<1>3. /\ lastId \in Nat /\ Len(table) \in Nat /\ m \in Nat /\ lastId + m = Len(table)
  BY DEF Shape
<1> HIDE DEF m
<1>4. /\ rows' \in Seq(Nat) /\ Len(rows') = m
      /\ \A k \in 1 .. m : rows'[k] = lastId + k
  BY <1>1, <1>3
<1>5. Shape'
  <2>1. \A k \in 1 .. Len(rows') : rows'[k] \in Ids
    BY <1>3, <1>4 DEF Ids
  <2> QED
    BY <1>1, <1>2, <1>4, <2>1 DEF Shape
<1>6. Stages'
  BY <1>1, <1>2 DEF Stages
<1>7. Catching'
  <2>1. ASSUME \A id \in MissedIds : id > lastId
        PROVE  Covered'
    <3>1. Len(channel) \in Nat /\ Len(wire) = 0
      BY <1>1 DEF Shape
    <3>2. /\ DOMAIN Ahead' = 1 .. m + Len(channel)
          /\ \A i \in 1 .. m : Ahead'[i] = lastId + i
      <4>1. Ahead' = Line(wire, rows', channel)
        BY <1>1 DEF Ahead
      <4> QED
        BY <1>3, <1>4, <3>1, <4>1 DEF Line
    <3>3. ASSUME NEW id \in MissedIds
          PROVE  id - lastId \in 1 .. m /\ Ahead'[id - lastId] = id
      <4>1. id \in Nat /\ id > lastId /\ id <= Len(table)
        BY <2>1, <1>3 DEF MissedIds, Ids
      <4> QED
        BY <1>3, <3>2, <4>1
    <3>4. \A id \in MissedIds : \E i \in DOMAIN Ahead' : Ahead'[i] = id
      BY <1>3, <3>1, <3>2, <3>3
    <3>5. ASSUME NEW i \in DOMAIN Ahead', NEW id \in MissedIds, id <= Ahead'[i]
          PROVE  \E k \in 1 .. i : Ahead'[k] = id
      <4>1. id - lastId <= i
        <5>1. CASE i <= m
          <6>1. id \in Nat /\ Ahead'[i] = lastId + i
            BY <3>1, <3>2, <5>1, <1>3 DEF MissedIds, Ids
          <6> QED
            BY <1>3, <3>1, <3>2, <3>5, <6>1
        <5>2. CASE i > m
          BY <1>3, <3>1, <3>2, <3>3, <5>2
        <5> QED
          BY <1>3, <3>1, <3>2, <5>1, <5>2
      <4> QED
        BY <1>3, <3>1, <3>2, <3>3, <4>1
    <3> QED
      BY <1>2, <3>4, <3>5 DEF Covered
  <2> QED
    BY <1>1, <1>2, <2>1 DEF Catching
<1> QED
  BY <1>5, <1>6, <1>7

LEMMA WriteKeeps ==
  ASSUME StreamInv, WriteRow \/ WriteLive
  PROVE  StreamInv'
<1> USE DEF StreamInv
<1>1. /\ conn \in {"replaying", "live"}
      /\ UNCHANGED <<table, pending, deaf, conn, halfRead, lastId, acted, disturbed>>
  BY DEF WriteRow, WriteLive, postVars, clientVars, histVars
<1>2. MissedIds' = MissedIds /\ Ids' = Ids
  BY <1>1, MissesStay DEF Ids
<1>3. /\ wire \in Seq(Nat) /\ rows \in Seq(Nat) /\ channel \in Seq(Nat)
      /\ Len(channel) <= ChannelSize /\ ChannelSize \in Nat
      /\ \A i \in 1 .. Len(wire) : wire[i] \in Ids
      /\ \A i \in 1 .. Len(rows) : rows[i] \in Ids
      /\ \A i \in 1 .. Len(channel) : channel[i] \in Ids
  BY SizeAssumption DEF Shape
<1>4. ASSUME NEW from \in Seq(Nat), from # <<>>, \A i \in 1 .. Len(from) : from[i] \in Ids,
             wire' = Append(wire, Head(from))
      PROVE  /\ wire' \in Seq(Nat) /\ \A i \in 1 .. Len(wire') : wire'[i] \in Ids
             /\ Tail(from) \in Seq(Nat) /\ \A i \in 1 .. Len(Tail(from)) : Tail(from)[i] \in Ids
             /\ Len(Tail(from)) \in Nat /\ Len(Tail(from)) <= Len(from)
             /\ wire' # <<>> /\ (wire # <<>> => Head(wire') = Head(wire))
  <2>1. /\ Head(from) \in Nat /\ Head(from) = from[1] /\ Len(from) \in Nat \ {0}
        /\ Tail(from) \in Seq(Nat) /\ Len(Tail(from)) = Len(from) - 1
        /\ \A i \in 1 .. Len(from) - 1 : Tail(from)[i] = from[i + 1]
    BY <1>4, TailFacts
  <2>2. /\ wire' \in Seq(Nat) /\ Len(wire) \in Nat /\ Len(wire') = Len(wire) + 1
        /\ \A i \in 1 .. Len(wire) : wire'[i] = wire[i]
        /\ wire'[Len(wire) + 1] = Head(from)
    BY <1>3, <1>4, <2>1, AppendFacts
  <2>3. Head(from) \in Ids
    BY <1>4, <2>1
  <2>4. \A i \in 1 .. Len(wire') : i \in 1 .. Len(wire) \/ i = Len(wire) + 1
    BY <2>2
  <2>5. \A i \in 1 .. Len(wire') : wire'[i] \in Ids
    BY <1>3, <2>2, <2>3, <2>4
  <2>6. \A i \in 1 .. Len(Tail(from)) : Tail(from)[i] \in Ids
    BY <1>4, <2>1
  <2>7. wire' # <<>> /\ (wire # <<>> => Head(wire') = Head(wire))
    BY <1>3, <1>4, <2>1
  <2> QED
    BY <2>1, <2>2, <2>5, <2>6, <2>7
<1>5. CASE WriteRow
  <2>1. /\ rows # <<>> /\ rows' = Tail(rows) /\ channel' = channel
        /\ wire' = Append(wire, Head(rows)) /\ conn = "replaying"
    BY <1>5 DEF WriteRow, Write
  <2>2. Ahead' = Ahead
    BY <1>3, <2>1, RowIsWritten DEF Ahead
  <2>3. Shape'
    BY <1>1, <1>2, <1>3, <1>4, <2>1 DEF Shape
  <2>4. Stages'
    BY <1>1, <1>2, <1>3, <1>4, <2>1 DEF Stages
  <2>5. Catching'
    BY <1>1, <1>2, <2>2, CoveredStays DEF Catching
  <2> QED
    BY <2>3, <2>4, <2>5
<1>6. CASE WriteLive
  <2>1. /\ channel # <<>> /\ channel' = Tail(channel) /\ rows = <<>> /\ rows' = rows
        /\ wire' = Append(wire, Head(channel)) /\ conn = "live"
    BY <1>6 DEF WriteLive, Write, Stages
  <2>2. Ahead' = Ahead
    BY <1>3, <2>1, LiveIsWritten DEF Ahead
  <2>3. Len(channel') <= ChannelSize
    BY <1>3, <1>4, <2>1
  <2>4. Shape'
    BY <1>1, <1>2, <1>3, <1>4, <2>1, <2>3 DEF Shape
  <2>5. Stages'
    BY <1>1, <1>2, <1>3, <1>4, <2>1 DEF Stages
  <2>6. Catching'
    BY <1>1, <1>2, <2>2, CoveredStays DEF Catching
  <2> QED
    BY <2>4, <2>5, <2>6
<1> QED
  BY <1>5, <1>6

LEMMA ReplayLeavesKeeps ==
  ASSUME StreamInv, ReplayEnds \/ ReplayFails
  PROVE  StreamInv'
<1> USE DEF StreamInv
<1>1. /\ conn' = "live" /\ rows' = <<>>
      /\ disturbed' \/ (conn = "replaying" /\ rows' = rows /\ disturbed' = disturbed)
      /\ UNCHANGED <<table, pending, deaf, channel, wire, halfRead, lastId, acted>>
  BY DEF ReplayEnds, ReplayFails, postVars, clientVars, histVars
<1>2. MissedIds' = MissedIds /\ Ids' = Ids
  BY <1>1, MissesStay DEF Ids
<1>3. Shape'
  BY <1>1, <1>2 DEF Shape
<1>4. Stages'
  BY <1>1, <1>2 DEF Stages
<1>5. Catching'
  <2>1. rows' = rows => Ahead' = Ahead
    BY <1>1 DEF Ahead
  <2> QED
    BY <1>1, <1>2, <2>1, CoveredStays DEF Catching
<1> QED
  BY <1>3, <1>4, <1>5

-----------------------------------------------------------------------------
(* The engine reads; connections break.                                    *)

LEMMA ReadDataKeeps ==
  ASSUME StreamInv, ReadData
  PROVE  StreamInv'
<1> USE DEF StreamInv
<1> DEFINE e == table[Head(wire)]
<1>1. /\ wire # <<>> /\ halfRead'
      /\ acted' = IF e \in UserMessages \ Range(acted) THEN Append(acted, e) ELSE acted
      /\ UNCHANGED <<table, pending, deaf, conn, channel, rows, wire, lastId, disturbed>>
  BY DEF ReadData, postVars, serverVars, histVars
<1>2. /\ acted' \in Seq(UserMessages) /\ Range(acted) \subseteq Range(acted')
      /\ e \in UserMessages => e \in Range(acted')
  BY <1>1, AppendActed DEF Shape
<1>3. MissedIds' \subseteq MissedIds /\ Ids' = Ids
  BY <1>1, <1>2, MissesShrink DEF Ids
<1>4. Head(wire) \notin MissedIds'
  BY <1>1, <1>2 DEF MissedIds, Missed
<1>5. Shape'
  BY <1>1, <1>2, <1>3 DEF Shape
<1>6. Stages'
  BY <1>1, <1>4 DEF Stages
<1>7. Catching'
  <2>1. Ahead' = Ahead
    BY <1>1 DEF Ahead
  <2> QED
    BY <1>1, <1>3, <2>1, CoveredStays DEF Catching
<1> QED
  BY <1>5, <1>6, <1>7

\* The first frame is the only missed id up to its own, and it is missed no
\* more: the client may go on from there.
LEMMA ReadBlankKeeps ==
  ASSUME StreamInv, ReadBlank
  PROVE  StreamInv'
<1> USE DEF StreamInv
<1>1. /\ halfRead /\ ~halfRead' /\ lastId' = Head(wire) /\ wire' = Tail(wire)
      /\ UNCHANGED <<table, pending, deaf, conn, channel, rows, acted, disturbed>>
  BY DEF ReadBlank, postVars, serverVars, histVars
<1>2. MissedIds' = MissedIds /\ Ids' = Ids
  BY <1>1, MissesStay DEF Ids
<1>3. /\ wire # <<>> /\ Head(wire) \notin MissedIds
      /\ wire \in Seq(Nat) /\ rows \in Seq(Nat) /\ channel \in Seq(Nat)
  BY <1>1 DEF Stages, Shape
<1>4. /\ Head(wire) = wire[1] /\ Len(wire) \in Nat \ {0}
      /\ wire' \in Seq(Nat) /\ Len(wire') = Len(wire) - 1
      /\ \A i \in 1 .. Len(wire) - 1 : wire'[i] = wire[i + 1]
      /\ Len(rows) \in Nat /\ Len(channel) \in Nat
  BY <1>1, <1>3, TailFacts
<1>5. Head(wire) \in Ids
  BY <1>4 DEF Shape
<1>6. Shape'
  <2>1. ASSUME NEW i \in 1 .. Len(wire')
        PROVE  wire'[i] \in Ids
    <3>1. i \in 1 .. Len(wire) - 1 /\ i + 1 \in 1 .. Len(wire)
      BY <1>4
    <3>2. wire'[i] = wire[i + 1]
      BY <1>4, <3>1
    <3> QED
      BY <3>1, <3>2 DEF Shape
  <2>2. lastId' \in 0 .. Len(table)
    BY <1>1, <1>5 DEF Ids
  <2> QED
    BY <1>1, <1>2, <1>4, <2>1, <2>2 DEF Shape
<1>7. Stages'
  <2>1. conn \notin {"down", "subscribed"}
    BY <1>3 DEF Stages
  <2> QED
    BY <1>1, <1>2, <2>1 DEF Stages
<1>8. Catching'
  <2> DEFINE n == Len(wire) + Len(rows) + Len(channel)
             h == Head(wire)
  <2>1. /\ n \in Nat \ {0} /\ DOMAIN Ahead = 1 .. n /\ Ahead[1] = h
        /\ DOMAIN Ahead' = 1 .. n - 1
        /\ \A i \in 1 .. n - 1 : Ahead'[i] = Ahead[i + 1]
    <3>1. Ahead' = Line(wire', rows, channel)
      BY <1>1 DEF Ahead
    <3>2. Ahead = Line(wire, rows, channel)
      BY DEF Ahead
    <3> QED
      BY <1>4, <3>1, <3>2 DEF Line
  <2> SUFFICES ASSUME ~disturbed, Covered
               PROVE  (\A id \in MissedIds : id > h) /\ Covered'
    <3>1. conn \in {"replaying", "live"}
      BY <1>3 DEF Stages
    <3> QED
      BY <1>1, <1>2, <3>1 DEF Catching
  <2> HIDE DEF n
  <2>2. h \in Nat /\ h \notin MissedIds /\ MissedIds \subseteq Nat
    BY <1>3, <1>5 DEF MissedIds, Ids
  <2>3. ASSUME NEW id \in MissedIds
        PROVE  id > h
    <3>1. ASSUME id <= h PROVE FALSE
      <4>1. 1 \in DOMAIN Ahead /\ id <= Ahead[1]
        BY <2>1, <3>1
      <4>2. \E k \in 1 .. 1 : Ahead[k] = id
        BY <4>1 DEF Covered
      <4> QED
        BY <2>1, <2>2, <4>2
    <3> QED
      BY <2>2, <3>1
  <2>4. ASSUME NEW id \in MissedIds, NEW k \in 1 .. n, Ahead[k] = id
        PROVE  k - 1 \in 1 .. n - 1 /\ Ahead'[k - 1] = id
    <3>1. k # 1
      BY <2>1, <2>2, <2>4
    <3> QED
      BY <2>1, <2>4, <3>1
  <2>5. ~deaf => \A id \in MissedIds \ pending : \E i \in DOMAIN Ahead' : Ahead'[i] = id
    BY <2>1, <2>4 DEF Covered
  <2>6. ASSUME NEW i \in DOMAIN Ahead', NEW id \in MissedIds, id <= Ahead'[i]
        PROVE  \E k \in 1 .. i : Ahead'[k] = id
    <3>1. i \in 1 .. n - 1 /\ i + 1 \in 1 .. n /\ Ahead'[i] = Ahead[i + 1]
      BY <2>1
    <3>2. PICK k \in 1 .. i + 1 : Ahead[k] = id
      BY <2>1, <2>6, <3>1 DEF Covered
    <3>3. k - 1 \in 1 .. n - 1 /\ Ahead'[k - 1] = id
      BY <2>1, <2>4, <3>1, <3>2
    <3> QED
      BY <2>1, <3>1, <3>2, <3>3
  <2>7. Covered'
    BY <1>1, <1>2, <2>5, <2>6 DEF Covered
  <2> QED
    BY <2>3, <2>7
<1> QED
  BY <1>6, <1>7, <1>8

LEMMA DisconnectKeeps ==
  ASSUME StreamInv, Break \/ DashboardRestarts
  PROVE  StreamInv'
<1> USE DEF StreamInv
<1>1. /\ conn' = "down" /\ channel' = <<>> /\ rows' = <<>> /\ wire' = <<>> /\ ~halfRead'
      /\ pending' \subseteq pending
      /\ UNCHANGED <<table, lastId, acted, disturbed>>
  BY DEF Break, DashboardRestarts, Disconnect, histVars
<1>2. MissedIds' = MissedIds /\ Ids' = Ids
  BY <1>1, MissesStay DEF Ids
<1>3. Shape'
  BY <1>1, <1>2, SizeAssumption DEF Shape
<1>4. Stages'
  BY <1>1 DEF Stages
<1>5. Catching'
  BY <1>1, <1>2 DEF Catching
<1> QED
  BY <1>3, <1>4, <1>5

LEMMA StutterKeeps ==
  ASSUME StreamInv, UNCHANGED vars
  PROVE  StreamInv'
<1> USE DEF StreamInv
<1>1. UNCHANGED <<table, pending, deaf, conn, channel, rows, wire, halfRead, lastId, acted, disturbed>>
  BY DEF vars, postVars, serverVars, clientVars, histVars
<1>2. MissedIds' = MissedIds /\ Ids' = Ids /\ Ahead' = Ahead
  BY <1>1, MissesStay DEF Ids, Ahead
<1> QED
  BY <1>1, <1>2, CoveredStays DEF Shape, Stages, Catching

LEMMA InitInv == Init => StreamInv
<1> SUFFICES ASSUME Init PROVE StreamInv
  OBVIOUS
<1>1. MissedIds = {}
  BY DEF Init, MissedIds, Ids
<1> QED
  BY <1>1, SizeAssumption DEF Init, StreamInv, Shape, Stages, Catching, Ids

LEMMA NextInv == StreamInv /\ [Next]_vars => StreamInv'
  BY PersistKeeps, NotifyKeeps, ClearAllKeeps, AppendFailsKeeps, ConnectKeeps, ReplayKeeps, WriteKeeps,
     ReplayLeavesKeeps, ReadDataKeeps, ReadBlankKeeps, DisconnectKeeps, StutterKeeps
  DEF Next, Handlers, Stream

-----------------------------------------------------------------------------
(* The theorems.                                                           *)

\* listenForUserMessages: the place a reconnect starts from never lies behind a
\* message nobody has acted on, unless the stream was disturbed.
THEOREM PassesOverNothing == Spec => []NothingPassedOver
<1>1. StreamInv => NothingPassedOver
  <2> SUFFICES ASSUME StreamInv, ~disturbed, NEW id \in 1 .. lastId, Missed(id)
               PROVE  FALSE
    BY DEF NothingPassedOver
  <2>1. lastId \in Nat /\ Len(table) \in Nat /\ lastId <= Len(table)
    BY DEF StreamInv, Shape
  <2>2. id \in MissedIds /\ ~(id > lastId)
    BY <2>1 DEF MissedIds, Ids
  <2> QED
    BY <2>2 DEF StreamInv, Catching
<1> QED
  BY <1>1, InitInv, NextInv, PTL DEF Spec

\* Last-Event-ID, the replay and the live events together: an undisturbed stream
\* that has come to rest has missed nothing, however often it was broken, unless a
\* clear of all sessions has left it deaf since it was opened.
THEOREM RestsCaughtUp == Spec => []CaughtUp
<1>1. StreamInv => CaughtUp
  <2> SUFFICES ASSUME StreamInv, ~disturbed, ~deaf, AtRest, NEW id \in Ids, Missed(id)
               PROVE  FALSE
    BY DEF CaughtUp, NothingMissed
  <2>1. id \in MissedIds \ pending
    BY DEF MissedIds, AtRest
  <2>2. conn = "live" /\ rows = <<>> /\ wire = <<>> /\ channel = <<>>
    BY DEF AtRest, StreamInv, Stages
  <2>3. DOMAIN Ahead = {}
    BY <2>2 DEF Ahead, Line
  <2> QED
    BY <2>1, <2>2, <2>3 DEF StreamInv, Catching, Covered
<1> QED
  BY <1>1, InitInv, NextInv, PTL DEF Spec

\* seenMessageIds: a message that a replay, a live copy or a frame that was cut
\* off delivers again is not acted on again.
THEOREM ActsOnce == Spec => []ActedOnce
<1> DEFINE Once == acted \in Seq(UserMessages) /\ ActedOnce
<1>1. Init => Once
  BY DEF Init, ActedOnce
<1>2. Once /\ [Next]_vars => Once'
  <2> SUFFICES ASSUME Once, [Next]_vars PROVE Once'
    OBVIOUS
  <2>1. CASE acted' = acted
    BY <2>1 DEF ActedOnce
  <2>2. ASSUME NEW e \in UserMessages \ Range(acted), acted' = Append(acted, e)
        PROVE  Once'
    <3>1. /\ acted' \in Seq(UserMessages) /\ Len(acted) \in Nat
          /\ DOMAIN acted' = 1 .. Len(acted) + 1 /\ DOMAIN acted = 1 .. Len(acted)
          /\ \A i \in 1 .. Len(acted) : acted'[i] = acted[i]
          /\ acted'[Len(acted) + 1] = e
      <4> HIDE DEF Once
      <4>1. acted \in Seq(UserMessages) /\ e \in UserMessages
        BY <2>2 DEF Once
      <4> QED
        BY <2>2, <4>1
    <3>2. \A i \in 1 .. Len(acted) : acted[i] # e
      BY <3>1 DEF Range
    <3>3. \A i \in DOMAIN acted' : i \in 1 .. Len(acted) \/ i = Len(acted) + 1
      BY <3>1
    <3>4. ActedOnce'
      BY <3>1, <3>2, <3>3 DEF ActedOnce
    <3> QED
      BY <3>1, <3>4
  <2>3. acted' = acted \/ \E e \in UserMessages \ Range(acted) : acted' = Append(acted, e)
    <3>1. CASE ReadData
      BY <3>1 DEF ReadData
    <3>2. CASE ~ReadData
      BY <3>2 DEF Next, Handlers, Stream, Persist, Notify, ClearAll, AppendFails, Connect, Replay,
                  WriteRow, ReplayEnds, ReplayFails, WriteLive, ReadBlank, Break,
                  DashboardRestarts, Disconnect, clientVars, vars
    <3> QED
      BY <3>1, <3>2
  <2> QED
    BY <2>1, <2>2, <2>3
<1>3. Once => ActedOnce
  OBVIOUS
<1> QED
  BY <1>1, <1>2, <1>3, PTL DEF Spec

-----------------------------------------------------------------------------
(* The session's view and its file.                                        *)

\* Unless two have been in Append at once, or one side was changed alone, the
\* file is ahead of the view by the one event whose handler has not got the
\* lock yet.
FileLeads ==
  ~apart =>
    \/ writing = {} /\ view = file
    \/ \E e \in Event : writing = {e} /\ file = ApplyEvent(view, e)

\* The statuses that commands give a row.
Status == {"paused", "active", "error"}

EventsGoRound ==
  /\ outbox \in Seq(Event) /\ writing \subseteq Event
  /\ \A c \in calls : c.then \in Event

DashInv == FileLeads /\ EventsGoRound

\* What the engine does, the updates of the row, and the passing of time.
EngineStep ==
  \/ Start \/ Works \/ RunEnds \/ MarkFailed \/ Exit \/ Dropped
  \/ \E status \in {"completed", "error"} : ReportEnd(status)
  \/ Command("paused", Told("pause")) \/ Command("active", Told("resume"))
  \/ Command("error", Ended("")) \/ \E c \in calls : CallEnds(c)
  \/ GrowsSilent \/ Sweep \/ UNCHANGED dashboardVars

LEMMA EndsAreEvents ==
  /\ \A type \in {"pause", "resume", "other"} : Told(type) \in Event
  /\ \A status \in {"", "completed", "error"} : Ended(status) \in Event
  BY DEF Told, Ended, Event

LEMMA EmitKeepsEvents ==
  ASSUME NEW e \in Event, outbox \in Seq(Event), Emit(e)
  PROVE  outbox' \in Seq(Event)
  BY DEF Emit

LEMMA CallsHoldEvents ==
  ASSUME EventsGoRound, writing' = writing, outbox' \in Seq(Event),
         calls' \subseteq
           calls \cup {[status |-> to, then |-> e] : to \in Status, e \in Event}
  PROVE  EventsGoRound'
  BY DEF EventsGoRound

LEMMA EngineMakesEvents ==
  ASSUME EventsGoRound, EngineStep, writing' = writing
  PROVE  EventsGoRound'
<1>0. outbox \in Seq(Event)
  BY DEF EventsGoRound
<1>1. CASE Start \/ Works
  <2>1. outbox' \in Seq(Event) /\ calls' = calls
    BY <1>0, <1>1, EndsAreEvents, EmitKeepsEvents DEF Start, Works
  <2> QED
    BY <2>1, CallsHoldEvents
<1>2. CASE \/ RunEnds \/ MarkFailed \/ Exit \/ Dropped
           \/ GrowsSilent \/ Sweep \/ UNCHANGED dashboardVars
  <2>1. /\ calls' = calls
        /\ outbox' = outbox \/ outbox' = <<>> \/ (outbox # <<>> /\ outbox' = Tail(outbox))
    BY <1>2 DEF RunEnds, MarkFailed, Exit, Dropped, GrowsSilent,
                Sweep, dashboardVars, engineVars
  <2>2. <<>> \in Seq(Event) /\ (outbox # <<>> => Tail(outbox) \in Seq(Event))
    BY <1>0, EmptySeq, HeadTailProperties
  <2>3. outbox' \in Seq(Event)
    BY <1>0, <2>1, <2>2, Zenon
  <2> QED
    BY <2>1, <2>3, CallsHoldEvents
<1>3. ASSUME NEW status \in {"completed", "error"}, ReportEnd(status)
      PROVE  EventsGoRound'
  <2>1. outbox' \in Seq(Event) /\ calls' = calls
    BY <1>0, <1>3, EndsAreEvents, EmitKeepsEvents DEF ReportEnd
  <2> QED
    BY <2>1, CallsHoldEvents
<1>4. ASSUME NEW to \in Status, NEW e \in Event, Command(to, e)
      PROVE  EventsGoRound'
  <2>1. outbox' = outbox \/ Emit(e)
    BY <1>4 DEF Command
  <2>2. calls' = calls \/ calls' = calls \cup {[status |-> to, then |-> e]}
    BY <1>4 DEF Command
  <2> QED
    BY <1>0, <2>1, <2>2, EmitKeepsEvents, CallsHoldEvents
<1>5. ASSUME NEW c \in calls, CallEnds(c)
      PROVE  EventsGoRound'
  <2>1. calls' = calls \ {c} /\ (outbox' = outbox \/ Emit(c.then))
    BY <1>5 DEF CallEnds
  <2>2. c.then \in Event
    BY DEF EventsGoRound
  <2> QED
    BY <1>0, <2>1, <2>2, EmitKeepsEvents, CallsHoldEvents
<1> QED
  BY <1>1, <1>2, <1>3, <1>4, <1>5, EndsAreEvents DEF EngineStep, Status

\* What an engine does, and the row's updates, leave the store alone.
LEMMA EngineLeavesStore ==
  ASSUME DashInv,
         EngineStep
  PROVE  DashInv'
<1>1. UNCHANGED storeVars
  BY DEF EngineStep, Start, Works, RunEnds, MarkFailed, Exit,
         Dropped, ReportEnd, Command, CallEnds, GrowsSilent, Sweep, dashboardVars
<1>2. FileLeads'
  BY <1>1 DEF DashInv, FileLeads, ApplyEvent, storeVars
<1>3. EventsGoRound'
  BY <1>1, EngineMakesEvents DEF DashInv, storeVars
<1> QED
  BY <1>2, <1>3 DEF DashInv

\* The store's own steps.
LEMMA StoreKeepsLead ==
  ASSUME DashInv,
         Post \/ ApplyWritten \/ Reap \/ Administer \/ Restart
  PROVE  DashInv'
<1> USE DEF DashInv, EventsGoRound, Overlap
<1>1. CASE Post
  <2>1. Head(outbox) \in Event /\ outbox' \in Seq(Event)
    BY <1>1 DEF Post, WriteFile
  <2>2. FileLeads'
    BY <1>1, <2>1 DEF Post, WriteFile, FileLeads
  <2> QED
    BY <1>1, <2>1, <2>2 DEF Post, WriteFile
<1>2. CASE ApplyWritten
  <2>1. PICK e \in writing : writing' = writing \ {e} /\ view' = ApplyEvent(view, e)
    BY <1>2 DEF ApplyWritten
  <2> QED
    BY <1>2, <2>1 DEF ApplyWritten, engineVars, FileLeads
<1>3. CASE Reap
  BY <1>3 DEF Reap, ReapedFile, ApplyEvent, Ended, FileLeads, engineVars
<1>4. CASE CloseStale \/ ClearStale
  BY <1>4 DEF CloseStale, ClearStale, FileLeads, engineVars
<1>5. CASE Forget
  BY <1>5 DEF Forget, FileLeads, engineVars
<1>6. ASSUME NEW to \in {"completed", "error"}, SetSessionStatus(to)
      PROVE  DashInv'
  BY <1>6 DEF SetSessionStatus, ApplyEvent, Ended, FileLeads, engineVars
<1>7. CASE Restart
  <2>1. writing' = {} /\ UNCHANGED <<outbox, calls>>
    BY <1>7 DEF Restart, engineVars
  <2>2. CASE file = NoView
    <3>1. ~Reapable(file)
      BY <2>2 DEF Reapable, NoView, Open
    <3>2. row = "none" => row' = "none"
      BY <1>7 DEF Restart, Swept, Open
    <3>3. file' = file /\ (~apart' => row = "none")
      BY <1>7, <2>2, <3>1 DEF Restart
    <3>4. row' = "none" => view' = NoView
      BY <1>7, <2>2 DEF Restart, Hydrated
    <3> QED
      BY <2>1, <2>2, <3>2, <3>3, <3>4 DEF FileLeads
  <2>3. CASE file # NoView
    <3>1. view' = file'
      BY <1>7, <2>3 DEF Restart, ReapedFile, ApplyEvent, Ended
    <3> QED
      BY <2>1, <3>1 DEF FileLeads
  <2> QED
    BY <2>2, <2>3
<1> QED
  BY <1>1, <1>2, <1>3, <1>4, <1>5, <1>6, <1>7 DEF Administer

\* A restart of the dashboard, which replays the session's file, shows what
\* was shown before, whatever was posted, lost, posted again, reaped or set by
\* an administrator, but for the cases that "apart" records.
THEOREM RestartsAgree == DashboardSpec => []RestartKeepsView
<1>1. DashboardInit => DashInv
  BY DEF DashboardInit, DashInv, FileLeads, EventsGoRound
<1>2. DashInv /\ [DashboardNext]_(dashboardVars) => DashInv'
  BY EngineLeavesStore, StoreKeepsLead DEF DashboardNext, EngineStep
<1>3. DashInv => RestartKeepsView
  BY DEF DashInv, FileLeads, RestartKeepsView
<1> QED
  BY <1>1, <1>2, <1>3, PTL DEF DashboardSpec
=============================================================================
