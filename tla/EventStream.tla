----------------------------- MODULE EventStream -----------------------------
(***************************************************************************)
(* How a message typed into the dashboard reaches a running session: the   *)
(* dashboard's handlers write it into the events table and then notify the *)
(* streams that are open (dashboard/handlers_session.go, internal/events/  *)
(* store.go); a stream begins with a replay from the table; the engine     *)
(* reads the stream, remembers the last id, reconnects when it breaks, and *)
(* acts on each message (listenForUserMessages in engine/messaging.ts).    *)
(* An event is known by its id, its position in the table; the engine's    *)
(* own events travel the same way and are read and ignored.                *)
(***************************************************************************)
EXTENDS Naturals, Sequences, Functions

CONSTANTS
  Events,           \* what is posted, each once
  UserMessages,     \* those of them that are messages of the user
  ChannelSize,      \* the channel of Subscribe (256 in the source)
  WireSize,         \* frames that are written and not read yet
  MaxReplayErrors,  \* bound: replays that fail
  MaxAppendErrors,  \* bound: writes of the store's file that fail
  MaxBreaks,        \* bound: connections that break
  MaxClears         \* bound: how often an admin clears all sessions

ASSUME EventsAssumption == UserMessages \subseteq Events
ASSUME SizeAssumption == ChannelSize \in Nat \ {0} /\ WireSize \in Nat \ {0}
ASSUME BoundAssumption ==
  {MaxReplayErrors, MaxAppendErrors, MaxBreaks, MaxClears} \subseteq Nat

VARIABLES
  table,     \* the events table
  pending,   \* ids whose handler has not reached notifyListeners yet
  conn,      \* how far the handler of the engine's stream has come
  channel,   \* the channel of its subscription
  deaf,      \* the store has forgotten that channel, and the stream is open
  rows,      \* what is left of its replay
  wire,      \* frames on their way to the engine
  halfRead,  \* the engine has read a frame's data line, not its blank line
  lastId,    \* lastEventId, zero before the first
  acted,     \* the messages handed to onMessage (seenMessageIds, in order)
  breaks, replayErrors, appendErrors, clears,
  disturbed  \* history: on an open stream, an event was overtaken by a later
             \* one, dropped, or not announced, or its replay has failed

postVars   == <<table, pending>>
serverVars == <<conn, channel, deaf, rows>>
clientVars == <<halfRead, lastId, acted>>
boundVars  == <<breaks, replayErrors, appendErrors, clears>>
histVars   == <<disturbed>>
vars == <<postVars, serverVars, wire, clientVars, boundVars, histVars>>

Init ==
  /\ table = <<>> /\ pending = {}
  /\ conn = "down" /\ channel = <<>> /\ deaf = FALSE /\ rows = <<>> /\ wire = <<>>
  /\ halfRead = FALSE /\ lastId = 0 /\ acted = <<>>
  /\ breaks = 0 /\ replayErrors = 0 /\ appendErrors = 0 /\ clears = 0
  /\ disturbed = FALSE

-----------------------------------------------------------------------------
(* handlePostEvent, handleUserMessage                                      *)

Persist(e) ==
  /\ e \notin Range(table)
  /\ table' = Append(table, e)
  /\ pending' = pending \cup {Len(table) + 1}
  /\ UNCHANGED <<serverVars, wire, clientVars, boundVars, histVars>>

Disturbs(id) ==
  conn # "down" /\ ~deaf /\ (Len(channel) = ChannelSize \/ \E k \in pending : k < id)

\* notifyListeners: an event that finds the channel full is dropped, and a
\* channel that the store has forgotten gets none.
Notify(id) ==
  /\ id \in pending
  /\ pending' = pending \ {id}
  /\ channel' = IF conn # "down" /\ ~deaf /\ Len(channel) < ChannelSize
                  THEN Append(channel, id) ELSE channel
  /\ disturbed' = (disturbed \/ Disturbs(id))
  /\ UNCHANGED <<table, conn, deaf, rows, wire, clientVars, boundVars>>

\* Store.Append fails before it notifies: handleUserMessage ignores it, and
\* the event stays in the table.
AppendFails(id) ==
  /\ id \in pending /\ appendErrors < MaxAppendErrors
  /\ appendErrors' = appendErrors + 1
  /\ pending' = pending \ {id}
  /\ disturbed' = (disturbed \/ conn # "down")
  /\ UNCHANGED <<table, serverVars, wire, clientVars, breaks, replayErrors, clears>>

\* handleClearAll: Store.ClearAll replaces the map of the listeners, and a stream
\* that is open stays open, is kept alive, and hears nothing any more.
ClearAll ==
  /\ clears < MaxClears /\ clears' = clears + 1
  /\ conn # "down" /\ deaf' = TRUE
  /\ UNCHANGED <<postVars, conn, channel, rows, wire, clientVars, breaks,
                 replayErrors, appendErrors, histVars>>

-----------------------------------------------------------------------------
(* streamEvents, replaySessionEvents                                       *)

\* Mutant: the client gives up on the first break.
ConnectOnce ==
  /\ conn = "down" /\ breaks = 0
  /\ conn' = "subscribed"
  /\ UNCHANGED <<postVars, channel, deaf, rows, wire, clientVars, boundVars, histVars>>

\* The client's (re)connect and Subscribe.
Connect ==
  /\ conn = "down"
  /\ conn' = "subscribed"
  /\ UNCHANGED <<postVars, channel, deaf, rows, wire, clientVars, boundVars, histVars>>

\* Mutant: one row too late.
ReplayTooLate ==
  /\ conn = "subscribed"
  /\ conn' = "replaying"
  /\ rows' = [k \in 1..(Len(table) - (IF lastId = 0 THEN 0 ELSE lastId + 1)) |->
                (IF lastId = 0 THEN 0 ELSE lastId + 1) + k]
  /\ UNCHANGED <<postVars, channel, deaf, wire, clientVars, boundVars, histVars>>

\* The query: the rows with id > Last-Event-ID.
Replay ==
  /\ conn = "subscribed"
  /\ conn' = "replaying"
  /\ rows' = [k \in 1..(Len(table) - lastId) |-> lastId + k]
  /\ UNCHANGED <<postVars, channel, deaf, wire, clientVars, boundVars, histVars>>

Write(id) == Len(wire) < WireSize /\ wire' = Append(wire, id)

WriteRow ==
  /\ conn = "replaying" /\ rows # <<>>
  /\ Write(Head(rows))
  /\ rows' = Tail(rows)
  /\ UNCHANGED <<postVars, conn, channel, deaf, clientVars, boundVars, histVars>>

ReplayEnds ==
  /\ conn = "replaying" /\ rows = <<>>
  /\ conn' = "live"
  /\ UNCHANGED <<postVars, channel, deaf, rows, wire, clientVars, boundVars, histVars>>

\* An error of the query or of a row is logged, and the stream goes live.
ReplayFails ==
  /\ conn \in {"subscribed", "replaying"} /\ replayErrors < MaxReplayErrors
  /\ replayErrors' = replayErrors + 1
  /\ conn' = "live" /\ rows' = <<>>
  /\ disturbed' = TRUE
  /\ UNCHANGED <<postVars, channel, deaf, wire, clientVars, breaks, appendErrors, clears>>

WriteLive ==
  /\ conn = "live" /\ channel # <<>>
  /\ Write(Head(channel))
  /\ channel' = Tail(channel)
  /\ UNCHANGED <<postVars, conn, deaf, rows, clientVars, boundVars, histVars>>

-----------------------------------------------------------------------------
(* listenForUserMessages                                                   *)

\* Mutant: a message that was seen is acted on again.
ReadDataAgain ==
  /\ wire # <<>> /\ ~halfRead
  /\ halfRead' = TRUE
  /\ LET e == table[Head(wire)]
     IN  acted' = IF e \in UserMessages THEN Append(acted, e) ELSE acted
  /\ UNCHANGED <<postVars, serverVars, wire, lastId, boundVars, histVars>>

\* The data line of a frame: a message not seen before is acted on.
ReadData ==
  /\ wire # <<>> /\ ~halfRead
  /\ halfRead' = TRUE
  /\ LET e == table[Head(wire)]
     IN  acted' = IF e \in UserMessages \ Range(acted)
                    THEN Append(acted, e) ELSE acted
  /\ UNCHANGED <<postVars, serverVars, wire, lastId, boundVars, histVars>>

\* Its blank line: the id is remembered, be it smaller than the last one.
ReadBlank ==
  /\ halfRead
  /\ halfRead' = FALSE
  /\ lastId' = Head(wire) /\ wire' = Tail(wire)
  /\ UNCHANGED <<postVars, serverVars, acted, boundVars, histVars>>

-----------------------------------------------------------------------------
(* The connection breaks; the dashboard dies, with its handlers.           *)

Disconnect ==
  /\ conn # "down" /\ breaks < MaxBreaks
  /\ breaks' = breaks + 1
  /\ conn' = "down" /\ channel' = <<>> /\ deaf' = FALSE /\ rows' = <<>>
  /\ wire' = <<>> /\ halfRead' = FALSE
  /\ UNCHANGED <<table, lastId, acted, replayErrors, appendErrors, clears, histVars>>

Break == Disconnect /\ UNCHANGED pending

DashboardRestarts == Disconnect /\ pending' = {}

-----------------------------------------------------------------------------
Handlers == \E id \in pending : Notify(id)

Stream ==
  Connect \/ Replay \/ WriteRow \/ ReplayEnds \/ WriteLive \/ ReadData \/ ReadBlank

Next ==
  \/ \E e \in Events : Persist(e)
  \/ \E id \in pending : AppendFails(id)
  \/ Handlers \/ Stream \/ ClearAll \/ ReplayFails \/ Break \/ DashboardRestarts

Spec == Init /\ [][Next]_vars

\* Handlers end, an open stream is written and read, and the retry timer of a
\* broken one fires.
FairSpec == Spec /\ WF_vars(Handlers) /\ WF_vars(Stream)

-----------------------------------------------------------------------------
Ids == 1..Len(table)

TypeOK ==
  /\ table \in Seq(Events) /\ pending \in SUBSET Ids
  /\ conn \in {"down", "subscribed", "replaying", "live"}
  /\ channel \in Seq(Ids) /\ rows \in Seq(Ids) /\ wire \in Seq(Ids)
  /\ halfRead \in BOOLEAN /\ lastId \in {0} \cup Ids
  /\ acted \in Seq(UserMessages)
  /\ {breaks, replayErrors, appendErrors, clears} \subseteq Nat
  /\ {deaf, disturbed} \subseteq BOOLEAN

\* A message is acted on once, although replays, live copies and frames that
\* were cut off deliver it again.
ActedOnce == \A i, j \in DOMAIN acted : acted[i] = acted[j] => i = j

\* The place a reconnect starts from never lies behind a message that was not
\* acted on, unless the stream was disturbed: then that is how one is lost.
Missed(id) == table[id] \in UserMessages \ Range(acted)
NothingPassedOver == ~disturbed => \A id \in 1..lastId : ~Missed(id)

\* An undisturbed stream that has come to rest has missed nothing: reconnects
\* catch up with what was persisted while the connection was down, or while a
\* clear of all sessions kept it from the stream.
AtRest ==
  conn = "live" /\ wire = <<>> /\ channel = <<>> /\ pending = {}
NothingMissed == \A id \in Ids : ~Missed(id)
CaughtUp == ~disturbed /\ ~deaf /\ AtRest => NothingMissed

\* Messages are acted on in the order in which they were posted, unless the
\* stream was disturbed.
InOrder ==
  ~disturbed =>
    \A i, j \in DOMAIN acted : i < j =>
      \A a, b \in Ids : table[a] = acted[i] /\ table[b] = acted[j] => a < b

\* Every message in the table is acted on in the end, unless the stream is
\* disturbed, or a clear of all sessions leaves it deaf for good.
EveryMessageActedOn ==
  []<>(~deaf) =>
    \A m \in UserMessages : m \in Range(table) ~> m \in Range(acted) \/ disturbed

(* What the documents say, and the code does not do.                       *)

\* Reconnects catch up missed events.
ReconnectsCatchUp == AtRest => NothingMissed
=============================================================================
