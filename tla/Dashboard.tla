------------------------------ MODULE Dashboard ------------------------------
(***************************************************************************)
(* One session as the engine reports it and the dashboard keeps it: the    *)
(* events the emitter posts one after the other, the updates of the        *)
(* session's row, which are sent by commands and by the run that do not    *)
(* wait for each other, and on the dashboard's side the view in memory,    *)
(* the file of the session and its row (dashboard/internal/events/store.go,*)
(* database.go, main.go, handlers_session.go, handlers_pg.go).             *)
(*                                                                         *)
(* Time passes in GrowsSilent; the reaper and the sweep, which wait 10 and *)
(* 30 minutes, act in any order after it.                                 *)
(***************************************************************************)
EXTENDS Naturals, FiniteSets, Sequences, SessionView

CONSTANTS
  MaxPosts,   \* bound: events that wait in the emitter
  MaxCalls,   \* bound: updates of the row under way at a time
  MaxLate     \* bound: answers to posts that get lost

ASSUME DashboardAssumption == {MaxPosts, MaxCalls} \subseteq Nat \ {0} /\ MaxLate \in Nat

VARIABLES
  life,     \* how far Orchestrator.run is
  outbox,   \* events the emitter has and has not posted yet
  calls,    \* updates of the row that are under way
  row,      \* the status of the session's row
  view,     \* the session in the store's memory
  file,     \* what its file would replay to
  writing,  \* events whose handlers have written the file and wait for the lock
  late,     \* how many answers to posts have got lost
  silent,   \* nothing has happened for 10 minutes, or for 30
  apart     \* something may have made the view and the file differ, a history

engineVars == <<life, outbox>>
storeVars == <<view, file, writing, apart>>
dashboardVars == <<engineVars, calls, row, storeVars, late, silent>>

\* An update of the row, and the event its sender emits when it is over.
Call == [status : Open \cup Shut, then : Event]

DashboardTypeOK ==
  /\ life \in {"unborn", "running", "failing", "ending", "over"}
  /\ outbox \in Seq(Event) /\ calls \subseteq Call
  /\ row \in Open \cup Shut \cup {"none"}
  /\ {view, file} \subseteq View
  /\ writing \subseteq Event /\ late \in 0 .. MaxLate
  /\ {silent, apart} \subseteq BOOLEAN

DashboardInit ==
  /\ life = "unborn" /\ outbox = <<>> /\ calls = {}
  /\ row = "none" /\ view = NoView /\ file = NoView /\ writing = {}
  /\ late = 0 /\ silent = FALSE /\ apart = FALSE

-----------------------------------------------------------------------------
\* The engine: Orchestrator.run and its commands.

Emit(e) == Len(outbox) < MaxPosts /\ outbox' = Append(outbox, e)

\* sessionStart, and pgCreateSession, which may fail for good.
Start ==
  /\ life = "unborn" /\ life' = "running"
  /\ Emit(Told("other"))
  /\ row' \in {"none", "active"}
  /\ UNCHANGED <<calls, storeVars, late, silent>>

Works ==
  /\ life = "running" /\ Emit(Told("other"))
  /\ UNCHANGED <<life, calls, row, storeVars, late, silent>>

\* handleSteerCommand.  If the session's status changes (SessionControl says
\* when it does) the row is updated first, and the event is emitted when that
\* is over, whatever the run does meanwhile; a command that comes too late is
\* emitted all the same.
Command(to, e) ==
  /\ life \in {"running", "failing", "ending"}
  /\ \/ /\ Cardinality(calls) < MaxCalls
        /\ calls' = calls \cup {[status |-> to, then |-> e]} /\ UNCHANGED outbox
     \/ Emit(e) /\ UNCHANGED calls
  /\ UNCHANGED <<life, row, storeVars, late, silent>>

RunEnds ==
  /\ life = "running" /\ life' \in {"failing", "ending"}
  /\ UNCHANGED <<outbox, calls, row, storeVars, late, silent>>

\* A row that does not exist is not made by an update.
SetRow(status) == row' = IF row = "none" THEN row ELSE status

\* The chain has thrown: the row is marked failed before the end is reported.
MarkFailed ==
  /\ life = "failing" /\ life' = "ending"
  /\ SetRow("error") \/ UNCHANGED row
  /\ UNCHANGED <<outbox, calls, storeVars, late, silent>>

\* sessionEnd.
ReportEnd(status) ==
  /\ life = "ending" /\ life' = "over"
  /\ SetRow(status) \/ UNCHANGED row
  /\ Emit(Ended(status))
  /\ UNCHANGED <<calls, storeVars, late, silent>>

\* The process is killed, or ends before its events are posted.
Exit ==
  /\ life # "unborn" /\ life' = "over" /\ outbox' = <<>>
  /\ UNCHANGED <<calls, row, storeVars, late, silent>>

\* An update gets through, or is given up after some tries; the command that
\* sent it goes on, if its process still lives.
CallEnds(c) ==
  /\ calls' = calls \ {c}
  /\ SetRow(c.status) \/ UNCHANGED row
  /\ Emit(c.then) \/ (life = "over" /\ UNCHANGED outbox)
  /\ UNCHANGED <<life, storeVars, late, silent>>

-----------------------------------------------------------------------------
\* The dashboard's handler of an event.

\* Two are in Append at once: the last in the file need not be the last applied.
Overlap == apart \/ writing # {}

\* Append writes the file before it takes the lock.
WriteFile(e) ==
  /\ file' = ApplyEvent(file, e) /\ apart' = Overlap
  /\ writing' = writing \cup {e} /\ UNCHANGED view

\* handlePostEvent records the event in the database first: without a row it
\* fails.  The emitter waits for the answer, but the connection may break: it
\* goes on with the next event, or posts this one again, while the handler
\* goes on too.
Post ==
  /\ outbox # <<>> /\ row # "none"
  /\ WriteFile(Head(outbox))
  /\ \/ outbox' = Tail(outbox) /\ late' = IF writing = {} THEN late ELSE late + 1
     \/ UNCHANGED outbox /\ late' = late + 1
  /\ late' <= MaxLate /\ silent' = FALSE
  /\ UNCHANGED <<life, calls, row>>

\* The tries are used up.
Dropped ==
  /\ outbox # <<>> /\ outbox' = Tail(outbox)
  /\ UNCHANGED <<life, calls, row, storeVars, late, silent>>

ApplyWritten ==
  /\ \E e \in writing : writing' = writing \ {e} /\ view' = ApplyEvent(view, e)
  /\ UNCHANGED <<engineVars, calls, row, file, apart, late, silent>>

-----------------------------------------------------------------------------
\* What closes a session whose end was not reported.

GrowsSilent ==
  /\ silent' = TRUE
  /\ UNCHANGED <<engineVars, calls, row, storeVars, late>>

\* Mutant: a paused session waits for its operator for ever.
ReapableUnpaused(v) == v \in {"active", "waiting"}

Reapable(v) == v \in Open

\* Mutant: the end is only kept in memory.
ReapedFileUnwritten(f) == f

ReapedFile(f) == ApplyEvent(f, Ended("completed"))

\* ReapInactiveSessions, every minute.
Reap ==
  /\ Reapable(view) /\ silent
  /\ view' = "completed"
  /\ file' = ReapedFile(file) /\ apart' = Overlap
  /\ UNCHANGED <<engineVars, calls, row, writing, late, silent>>

\* Mutant: the sweep does not look at paused sessions.
SweptUnpaused(status) == IF status \in {"active", "waiting"} THEN "completed" ELSE status

Swept(status) == IF status \in Open THEN "completed" ELSE status

\* MarkStaleSessions, every 5 minutes.
Sweep ==
  /\ silent /\ row' = Swept(row)
  /\ UNCHANGED <<engineVars, calls, storeVars, late, silent>>

-----------------------------------------------------------------------------
\* The administrators' handlers.

\* handleCloseStale: in memory and in the database, not in the file.
CloseStale ==
  /\ view \in Open
  /\ view' = "completed" /\ row' = Swept(row)
  /\ apart' = TRUE
  /\ UNCHANGED <<engineVars, calls, file, writing, late, silent>>

\* handleClearStale: an old session without agents, in memory only.
ClearStale ==
  /\ view = "active" /\ view' = "error"
  /\ apart' = TRUE
  /\ UNCHANGED <<engineVars, calls, row, file, writing, late, silent>>

\* handleSetSessionStatus: the end that is written to the file has no status.
SetSessionStatus(to) ==
  /\ view # NoView
  /\ view' = to /\ file' = ApplyEvent(file, Ended(""))
  /\ SetRow(to)
  /\ apart' = (Overlap \/ to = "error")
  /\ UNCHANGED <<engineVars, calls, writing, late, silent>>

\* handleDeleteSession and handleClearAll: the view and the file go, the row
\* stays.
Forget ==
  /\ view' = NoView /\ file' = NoView
  /\ apart' = (writing # {})
  /\ SetRow("error") \/ row' = Swept(row)
  /\ UNCHANGED <<engineVars, calls, writing, late, silent>>

-----------------------------------------------------------------------------
\* hydration of a session that has no file: a row that is active belongs to
\* a run that cannot be there any more.
Hydrated ==
  IF row = "none" THEN NoView ELSE IF row = "active" THEN "error" ELSE row

\* main: the files are replayed, silent sessions reaped and rows swept, and
\* sessions without a file are taken from the database.
Restart ==
  LET reaps == Reapable(file) /\ silent IN
  /\ writing' = {}
  /\ row' = IF silent THEN Swept(row) ELSE row
  /\ file' = IF reaps THEN ReapedFile(file) ELSE file
  /\ view' = IF file = NoView THEN Hydrated' ELSE IF reaps THEN "completed" ELSE file
  /\ apart' = (file = NoView /\ row # "none")
  /\ UNCHANGED <<engineVars, calls, late, silent>>

Administer ==
  \/ CloseStale \/ ClearStale \/ Forget
  \/ \E to \in {"completed", "error"} : SetSessionStatus(to)

DashboardNext ==
  \/ Start \/ Works \/ RunEnds \/ MarkFailed \/ Exit
  \/ \E status \in {"completed", "error"} : ReportEnd(status)
  \/ Command("paused", Told("pause")) \/ Command("active", Told("resume"))
  \/ Command("error", Ended("")) \/ \E c \in calls : CallEnds(c)
  \/ Post \/ Dropped \/ ApplyWritten
  \/ GrowsSilent \/ Reap \/ Sweep
  \/ Administer \/ Restart

\* Time passes, the two timers of the dashboard fire, handlers end, and what
\* has been sent arrives or not.
DashboardSpec ==
  /\ DashboardInit /\ [][DashboardNext]_dashboardVars
  /\ WF_dashboardVars(GrowsSilent) /\ WF_dashboardVars(Reap) /\ WF_dashboardVars(Sweep)
  /\ WF_dashboardVars(ApplyWritten)
  /\ WF_dashboardVars(Post \/ Dropped)
  /\ WF_dashboardVars(\E c \in calls : CallEnds(c))

-----------------------------------------------------------------------------
\* What a restart would read from the file is what the dashboard shows,
\* unless an administrator has closed the session in memory only, the file
\* was written by two at once, or there was no file.
RestartKeepsView == writing = {} /\ ~apart => view = file

\* When the engine is gone the row ends up closed, although its last update
\* was lost, or one of a command came after that of the run.
RowIsClosed == <>[](life = "over" => row \notin Open)

\* So does the view, although the end was never posted, a pause was posted
\* after it, or a restart brought back what had been closed by hand.
ViewIsClosed == <>[](life = "over" => view \notin Open)
=============================================================================
