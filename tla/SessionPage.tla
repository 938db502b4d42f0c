------------------------------ MODULE SessionPage ------------------------------
(***************************************************************************)
(* The page of one session in the browser (dashboard-next/src): it polls   *)
(* the session's rows of the events table, it listens to the session's     *)
(* stream, and it shows what it has from both (lib/session-events.ts,      *)
(* hooks/usePolling.ts, hooks/useSessionSSE.tsx, lib/api.ts); its panel of *)
(* agents loads the rows once and then follows the stream alone            *)
(* (components/AgentTreePanel.tsx, lib/agents-from-events.ts).  The server *)
(* is that of EventStream, with a stream that is opened in one step.       *)
(*                                                                         *)
(* An event is known by its place in the story, the order in which the     *)
(* session has emitted its events; one agent stands for all.               *)
(***************************************************************************)
EXTENDS Naturals, FiniteSets, Sequences, FiniteSetsExt, SequencesExt, Functions

CONSTANTS
  Stories,      \* what a session may report, in the order in which its engine has
                \* sent it: each event's type, its timestamp, and what the status
                \* of the session in the engine is when the event is sent
  Keep,         \* MAX_EVENTS, the events the page keeps of the stream
  ChannelSize,  \* the channel of the stream in the dashboard
  MaxPolls,     \* bound: polls under way at a time
  MaxLoads,     \* bound: how often the panel is opened
  MaxBreaks,    \* bound: streams that break or are made deaf
  MaxHandlers,  \* bound: handlers of posts at a time
  MaxAgain,     \* bound: events that are recorded a second time
  MaxOvertaken  \* bound: events that are not recorded when a later one is

ASSUME PageAssumption ==
  /\ Stories \subseteq
       Seq([type : {"spawn", "done", "cost", "user", "pause", "resume", "state", "error", "end"},
            at : Nat, is : {"active", "paused", "completed", "error"}])
  /\ {Keep, ChannelSize, MaxHandlers, MaxPolls} \subseteq Nat \ {0}
  /\ {MaxLoads, MaxBreaks, MaxAgain, MaxOvertaken} \subseteq Nat

VARIABLES
  story,    \* the events of this session
  rows,     \* those that are recorded in the table, by id
  pending,  \* ids whose handler has not announced them
  up,       \* the stream is open
  deaf,     \* and the dashboard has forgotten its channel
  feed,     \* ids on their way to the page
  lastId,   \* the id the browser would send when it reconnects
  live,     \* the last events from the stream
  history,  \* how many rows the last poll that arrived has had
  polls,    \* the answers of polls that are under way, likewise
  panel,    \* the status of the agent in the panel
  load,     \* the answer to the panel's load, likewise, while one is under way
  loads, breaks,
  astray    \* something the panel does not recover from, a history

serverVars == <<rows, pending>>
streamVars == <<up, deaf, feed, lastId>>
panelVars  == <<panel, load, loads>>
vars == <<story, serverVars, streamVars, live, history, polls, panelVars, breaks, astray>>

Events == DOMAIN story
Known == Range(rows)

TypeOK ==
  /\ story \in Stories /\ rows \in Seq(Events) /\ pending \subseteq DOMAIN rows
  /\ {up, deaf} \subseteq BOOLEAN /\ feed \in Seq(DOMAIN rows) /\ lastId \in 0 .. Len(rows)
  /\ live \in Seq(Events) /\ Len(live) <= Keep /\ history \in 0 .. Len(rows)
  /\ {polls, load} \subseteq SUBSET (0 .. Len(rows)) /\ Cardinality(load) <= 1
  /\ panel \in {"absent", "running", "done"}
  /\ loads \in 0 .. MaxLoads /\ breaks \in 0 .. MaxBreaks /\ astray \in BOOLEAN

Init ==
  /\ story \in Stories /\ rows = <<>> /\ pending = {}
  /\ up = FALSE /\ deaf = FALSE /\ feed = <<>> /\ lastId = 0 /\ live = <<>>
  /\ history = 0 /\ polls = {}
  /\ panel = "absent" /\ load = {} /\ loads = 0
  /\ breaks = 0 /\ astray = FALSE

-----------------------------------------------------------------------------
(* The dashboard: handlePostEvent and handleUserMessage, which record an     *)
(* event and announce it, one after the other or at once, a post that is     *)
(* tried again, and the stream.                                              *)

\* What has been emitted before n and is not recorded.
Missing(n) == {m \in Events \ Known : m < n}

Record(n) ==
  /\ \/ n \notin Known /\ Cardinality(Missing(n)) <= MaxOvertaken
     \/ n \in Known /\ Len(rows) - Cardinality(Known) < MaxAgain
  /\ Cardinality(pending) < MaxHandlers
  /\ rows' = Append(rows, n) /\ pending' = pending \cup {Len(rows')}
  /\ astray' = (astray \/ \E m \in Known : m > n)
  /\ UNCHANGED <<story, streamVars, live, history, polls, panelVars, breaks>>

Overtakes(id) == astray \/ \E k \in pending : k < id

Hears == up /\ ~deaf

\* notifyListeners, which does not wait for a full channel.
Announce(id) ==
  /\ id \in pending /\ pending' = pending \ {id}
  /\ \/ Hears /\ feed' = Append(feed, id) /\ astray' = Overtakes(id)
     \/ Hears /\ Len(feed) >= ChannelSize /\ UNCHANGED feed /\ astray' = TRUE
     \/ ~Hears /\ UNCHANGED feed /\ astray' = Overtakes(id)
  /\ UNCHANGED <<story, rows, up, deaf, lastId, live, history, polls, panelVars, breaks>>

\* Mutant: the replay begins one row too late.
ConnectTooLate ==
  /\ ~up /\ up' = TRUE
  /\ feed' = [i \in 1 .. Len(rows) - lastId - 1 |-> lastId + 1 + i]
  /\ UNCHANGED <<story, serverVars, deaf, lastId, live, history, polls, panelVars, breaks, astray>>

\* subscribeToSession, and each reconnect of the EventSource: streamEvents
\* replays the rows after the last id.
Connect ==
  /\ ~up /\ up' = TRUE
  /\ feed' = [i \in 1 .. Len(rows) - lastId |-> lastId + i]
  /\ UNCHANGED <<story, serverVars, deaf, lastId, live, history, polls, panelVars, breaks, astray>>

Break ==
  /\ up /\ breaks < MaxBreaks /\ breaks' = breaks + 1
  /\ up' = FALSE /\ deaf' = FALSE /\ feed' = <<>>
  /\ UNCHANGED <<story, serverVars, lastId, live, history, polls, panelVars, astray>>

\* Store.ClearAll: the stream stays open, and hears nothing any more.
ClearAll ==
  /\ Hears /\ breaks < MaxBreaks /\ breaks' = breaks + 1
  /\ deaf' = TRUE /\ astray' = TRUE
  /\ UNCHANGED <<story, serverVars, up, feed, lastId, live, history, polls, panelVars>>

-----------------------------------------------------------------------------
(* The stream in the page: one EventSource, whose events are kept and handed *)
(* to the panel.                                                             *)

Recent(events) ==
  IF Len(events) > Keep THEN SubSeq(events, Len(events) - Keep + 1, Len(events)) ELSE events

\* The rows that the answer to the panel's load has.
Loaded == SubSeq(rows, 1, Max(load))

\* What an event makes of an agent, in the panel and in buildAgentsFromEvents.
AgentAfter(agent, n) ==
  CASE story[n].type = "spawn" -> "running"
    [] story[n].type = "done" /\ agent # "absent" -> "done"
    [] OTHER -> agent

\* An event that the answer does not have will be lost when it arrives.
Receive ==
  /\ up /\ feed # <<>>
  /\ LET n == rows[Head(feed)] IN
       /\ live' = Recent(Append(live, n))
       /\ panel' = IF loads = 0 THEN panel ELSE AgentAfter(panel, n)
       /\ astray' = (astray \/ (load # {} /\ n \notin Range(Loaded)))
  /\ lastId' = Head(feed) /\ feed' = Tail(feed)
  /\ UNCHANGED <<story, serverVars, up, deaf, history, polls, load, loads, breaks>>

-----------------------------------------------------------------------------
(* usePolling: the timer does not wait for the poll before, and each answer *)
(* that arrives replaces the one that came before it.  An answer has all    *)
(* rows (handleAPIGetSessionEvents); a request that is not read yet is as   *)
(* good as one that is not sent.                                            *)

HasAgent == \E n \in Events : story[n].type = "spawn"

\* A poll whose answer the page has already is left out.  Bound: polls overlap
\* where there is no agent; the panel does not see them.
Poll ==
  /\ Cardinality(polls) < MaxPolls /\ Len(rows) # history
  /\ HasAgent => polls = {}
  /\ polls' = polls \cup {Len(rows)}
  /\ UNCHANGED <<story, serverVars, streamVars, live, history, panelVars, breaks, astray>>

PollArrives(k) ==
  /\ k \in polls /\ polls' = polls \ {k} /\ history' = k
  /\ UNCHANGED <<story, serverVars, streamVars, live, panelVars, breaks, astray>>

\* The page goes on with what it has.
PollFails(k) ==
  /\ k \in polls /\ polls' = polls \ {k}
  /\ UNCHANGED <<story, serverVars, streamVars, live, history, panelVars, breaks, astray>>

-----------------------------------------------------------------------------
(* The panel: its effect that loads, and that of the stream, begin at once.  *)

\* Bound: where there is an agent to show.
OpenPanel ==
  /\ load = {} /\ loads < MaxLoads /\ HasAgent /\ loads' = loads + 1
  /\ load' = {Len(rows)} /\ panel' = "absent"
  /\ UNCHANGED <<story, serverVars, streamVars, live, history, polls, breaks, astray>>

\* buildAgentsFromEvents.
AgentFrom(events) == FoldLeft(AgentAfter, "absent", events)

\* The row of the agent in the table agents, which is written apart from the
\* events, and mergeAgents: what the events say of an agent wins.
AgentRow == {"absent", "running", "done"}
MergeAgents(fromEvents) == IF fromEvents = "absent" THEN AgentRow ELSE {fromEvents}

\* The answer replaces what has come from the stream meanwhile.
LoadArrives ==
  /\ load # {} /\ load' = {}
  /\ panel' \in MergeAgents(AgentFrom(Loaded))
  /\ UNCHANGED <<story, serverVars, streamVars, live, history, polls, loads, breaks, astray>>

\* A request that fails counts as an empty answer.
LoadFails ==
  /\ load # {} /\ load' = {}
  /\ panel' \in AgentRow /\ astray' = TRUE
  /\ UNCHANGED <<story, serverVars, streamVars, live, history, polls, loads, breaks>>

-----------------------------------------------------------------------------
(* lib/session-events.ts                                                     *)

\* The key by which two copies of an event are one: that of a message is its
\* id, that of another its type, its agent and its time.
Key(n) == IF story[n].type = "user" THEN <<"user", n>> ELSE <<story[n].type, story[n].at>>

\* mergeSessionEvents: the rows of the last poll, then the stream, each key
\* once.  The row of a user's message has no time.
Entries ==
  [i \in 1 .. history |->
     [n |-> rows[i], at |-> IF story[rows[i]].type = "user" THEN 0 ELSE story[rows[i]].at]]
  \o [i \in DOMAIN live |-> [n |-> live[i], at |-> story[live[i]].at]]

Merged == {i \in DOMAIN Entries : \A j \in 1 .. i - 1 : Key(Entries[j].n) # Key(Entries[i].n)}

\* Mutant: the merged events are not sorted.
BeforeUnsorted(i, j) == i < j

\* The order of the page: by time, and of the same time as they were merged.
Before(i, j) == Entries[i].at < Entries[j].at \/ (Entries[i].at = Entries[j].at /\ i < j)

\* deriveSessionStatus: what an event of these types makes of the status.
Telling == {"state", "pause", "resume", "end", "error"}
Says(event) ==
  CASE event.type = "state"  -> event.is
    [] event.type = "pause"  -> "paused"
    [] event.type = "resume" -> "active"
    [] event.type = "end"    -> "completed"
    [] event.type = "error"  -> "error"

Told(events) == {n \in events : story[n].type \in Telling}

\* The last event that says something of the status, or else the session's row.
DisplayStatus ==
  LET told == {i \in Merged : Entries[i].n \in Told(Events)}
      last == CHOOSE i \in told : \A j \in told \ {i} : Before(j, i)
  IN  IF told = {} THEN "of the row" ELSE Says(story[Entries[last].n])

-----------------------------------------------------------------------------
Next ==
  \/ \E n \in Events : Record(n)
  \/ \E id \in pending : Announce(id)
  \/ Connect \/ Break \/ ClearAll \/ Receive
  \/ Poll
  \/ \E k \in polls : PollArrives(k) \/ PollFails(k)
  \/ OpenPanel \/ LoadArrives \/ LoadFails

\* Handlers end; the browser reconnects and reads; the timer of the polls
\* fires, and polls do not fail for ever; the panel's load is answered.
FairSpec ==
  /\ Init /\ [][Next]_vars
  /\ WF_vars(\E id \in pending : Announce(id)) /\ WF_vars(Connect) /\ WF_vars(Receive)
  /\ WF_vars(Poll)
  /\ SF_vars(\E k \in polls : PollArrives(k))
  /\ WF_vars(LoadArrives \/ LoadFails)

-----------------------------------------------------------------------------
\* What the status was in the engine when it sent the last of what is recorded.
LastTold == Max(Told(Known))
TrueStatus == IF Told(Known) = {} THEN "of the row" ELSE story[LastTold].is

\* Where the page cannot tell it: deriveSessionStatus takes every end for a
\* completion; a pause or resume that the engine has refused is reported all the
\* same; and what was sent last need not have the last timestamp, for that of a
\* pause or resume is taken before the command is carried out.
Misleading ==
  /\ Told(Known) # {}
  /\ \/ story[LastTold].type = "end" /\ story[LastTold].is = "error"
     \/ story[LastTold].type = "pause" /\ story[LastTold].is # "paused"
     \/ story[LastTold].type = "resume" /\ story[LastTold].is # "active"
     \/ story[LastTold].type = "error" /\ story[LastTold].is # "error"
     \/ \E n \in Told(Known) \ {LastTold} : story[n].at >= story[LastTold].at

StatusIsTrue == DisplayStatus = TrueStatus

\* In the end the page shows every recorded event, or one with the same key,
\* and, where it is not misled, the status that the session has in the engine,
\* although the stream breaks, is deaf, drops events and is kept in part, an
\* answer overtakes a later one, and rows are out of order or double.
PageCatchesUp ==
  <>[](/\ {Key(Entries[i].n) : i \in Merged} = {Key(n) : n \in Known}
       /\ Misleading \/ StatusIsTrue)

\* In the end the open panel shows an agent as the events have it, replays and
\* double deliveries notwithstanding, unless a load failed, the answer of a
\* load has replaced a later event, events were dropped or out of order, or all
\* sessions were cleared.
AgentsCatchUp ==
  <>[](loads = 0 \/ astray \/ AgentFrom(rows) \in {"absent", panel})

(* What the documents say, and the code does not do.                       *)

\* The badge shows whether a session is active, completed or in error.
BadgeIsTrue == <>[]StatusIsTrue
=============================================================================
