----------------------------- MODULE SessionView -----------------------------
(***************************************************************************)
(* What the dashboard shows of one session, as a fold of the session's     *)
(* events (applyEvent of dashboard/internal/events/store.go).  Of a view   *)
(* only its status is kept, and a session file is represented by the view  *)
(* it would replay to.                                                     *)
(***************************************************************************)

\* The statuses a view or a row of the table sessions may have.  "error" also
\* stands for "failed" and "deleted", which only a row can have.
Open == {"active", "waiting", "paused"}
Shut == {"completed", "error"}

\* A session the store does not have, a file that does not exist.
NoView == "none"

View == Open \cup Shut \cup {NoView}

\* The events that the status of a session depends on; "other" stands for
\* the rest.
Event ==
  [type : {"pause", "resume", "other"}, status : {""}]
  \cup [type : {"session_end"}, status : {"completed", "error"}]

Told(type) == [type |-> type, status |-> ""]

\* An end without a status is one that completes the session.
Ended(status) ==
  [type |-> "session_end", status |-> IF status = "" THEN "completed" ELSE status]

\* applyEvent: an event of an unknown session makes an active one.
ApplyEvent(view, e) ==
  CASE e.type = "session_end" -> e.status
    [] e.type = "pause"  -> "paused"
    [] e.type = "resume" -> "active"
    [] OTHER -> IF view = NoView THEN "active" ELSE view
=============================================================================
