------------------------------ MODULE A2AClient ------------------------------
(***************************************************************************)
(* A delegation to a remote agent (A2AAdapter in engine/adapters/a2a.ts):  *)
(* as a stream of events where the agent has it, else as a request whose   *)
(* task is polled until it is over.  The streaming and the plain request   *)
(* have a timeout each; the agent card, the polls and the body of a        *)
(* refusal have none.                                                      *)
(***************************************************************************)
EXTENDS Naturals, Delegate

VARIABLES
  call,      \* what delegate waits for
  task,      \* the state of the remote task
  output,    \* the text the remote agent has given so far
  heard,     \* resultText: what of it parseSSEStream has collected
  late       \* the timeout of the present request, or of polling, is over

a2aVars == <<call, task, output, heard, late>>

Over == {"completed", "failed", "canceled"}
Failing == {"failed", "canceled"}

A2ATypeOK ==
  /\ call \in {"new", "card", "stream", "reading", "sync", "refused", "pause", "poll",
               "returned"}
  /\ task \in {"working"} \cup Over
  /\ {output, heard} \subseteq Text
  /\ late \in BOOLEAN

A2AInit == call = "new" /\ task = "working" /\ output = "" /\ heard = "" /\ late = FALSE

A2AFinish(g) ==
  /\ call' = "returned" /\ answer' = g /\ reports' = reports + 1
  /\ UNCHANGED <<task, output, heard, late>>

\* The next thing to wait for, with a timeout of its own where it is a request.
Await(next) ==
  /\ call' = next /\ late' = FALSE /\ UNCHANGED <<answer, reports, task, output, heard>>

MoreText(t, u) == IF "graded" \in {t, u} THEN "graded" ELSE IF u = "" THEN t ELSE u

-----------------------------------------------------------------------------
\* The remote agent: it writes, and its task ends.
RemoteWrites ==
  /\ call \in {"stream", "reading", "sync", "pause", "poll"} /\ task = "working"
  /\ output' \in {MoreText(output, t) : t \in Text \ {""}}
  /\ UNCHANGED <<answer, reports, call, task, heard, late>>

RemoteEnds ==
  /\ call \in {"stream", "reading", "sync", "pause", "poll"} /\ task = "working" /\ task' \in Over
  /\ UNCHANGED <<answer, reports, call, output, heard, late>>

Clock ==
  /\ call \in {"stream", "reading", "sync", "pause", "poll"} /\ ~late /\ late' = TRUE
  /\ UNCHANGED <<answer, reports, call, task, output, heard>>

-----------------------------------------------------------------------------
\* resolveEndpoint finds none, or the agent card is asked for.
A2ABegin == call = "new" /\ (A2AFinish("failed") \/ Await("card"))

\* fetchAgentCard: a card, or none, says whether to stream.
CardAnswers == call = "card" /\ \E next \in {"stream", "sync"} : Await(next)

\* taskToResult and messageToResult.
TaskToResult == IF task \in Failing THEN "failed" ELSE GradeOf(output)
MessageToResult == GradeOf(output)

\* An RPC error, an answer of no known kind, or no connection.
RequestFails == call \in {"stream", "sync"} /\ A2AFinish("failed")

\* An HTTP error: the timer is cleared before its body is read, so that nothing
\* ends the wait for a body that does not come.
Refused == call \in {"stream", "sync"} /\ Await("refused")
RefusalRead == call = "refused" /\ A2AFinish("failed")

\* delegateStreaming: an agent that does not stream is asked again without;
\* one that answers in one piece is taken at its word, its task over or not.
StreamUnsupported == call = "stream" /\ Await("sync")

StreamIsPlain == call = "stream" /\ \E g \in {TaskToResult, MessageToResult} : A2AFinish(g)

StreamOpens ==
  /\ call = "stream" /\ call' = "reading"
  /\ UNCHANGED <<answer, reports, task, output, heard, late>>

\* parseSSEStream: events with a text come whole, or cut by the end of a
\* chunk between the data and the blank line, and such an event is lost.
EventHeard ==
  /\ call = "reading" /\ heard # output /\ heard' = output
  /\ UNCHANGED <<answer, reports, call, task, output, late>>

\* The stream ends.  The state of the task does not count here, only the text
\* that came; the artifacts of the task itself may add to it.
StreamCloses ==
  /\ call = "reading" /\ \E text \in {heard, output} : A2AFinish(GradeOf(text))

StreamBreaks == call = "reading" /\ A2AFinish("failed")

\* The AbortController of a request, while its timer runs.
RequestAborts == call \in {"stream", "reading", "sync"} /\ late /\ A2AFinish("failed")

\* delegateSync: a canceled or rejected task is polled like a working one.
SyncAnswers ==
  /\ call = "sync"
  /\ \/ A2AFinish(MessageToResult)
     \/ task \in {"completed", "failed"} /\ A2AFinish(TaskToResult)
     \/ task \in {"working", "canceled"} /\ Await("pause")

\* A mutant: every poll is given the time of the whole task.
PollBeginsAnew ==
  /\ call = "pause" /\ call' = "poll" /\ late' = FALSE
  /\ UNCHANGED <<answer, reports, task, output, heard>>

\* pollTask: the clock is looked at between two polls only, and what goes
\* wrong with a poll is ignored.
PollBegins ==
  /\ call = "pause"
  /\ IF late THEN A2AFinish("failed")
     ELSE call' = "poll" /\ UNCHANGED <<answer, reports, task, output, heard, late>>

PollAnswers ==
  /\ call = "poll"
  /\ \/ task \in Over /\ A2AFinish(TaskToResult)
     \/ call' = "pause" /\ UNCHANGED <<answer, reports, task, output, heard, late>>

A2AStep ==
  \/ RemoteWrites \/ RemoteEnds \/ Clock
  \/ A2ABegin \/ CardAnswers \/ RequestFails \/ Refused \/ RefusalRead
  \/ StreamUnsupported \/ StreamIsPlain \/ StreamOpens \/ EventHeard \/ StreamCloses \/ StreamBreaks \/ RequestAborts
  \/ SyncAnswers \/ PollBegins \/ PollAnswers

A2ATimely == A2ABegin \/ Clock \/ RequestAborts \/ PollBegins
=============================================================================
