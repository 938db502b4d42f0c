----------------------------- MODULE MCSessionPage -----------------------------
EXTENDS SessionPage

e(type, at, is) == [type |-> type, at |-> at, is |-> is]

\* A pause that is taken back; an agent; two events that look the same; a message
\* and a run that completes; one that is stopped; a pause whose time is that
\* of the command, before a report of the supervision that was sent first; and one
\* that comes while the end is being sent.
SomeStories ==
  { <<e("pause", 1, "paused"), e("resume", 2, "active")>>,
    <<e("spawn", 1, "active"), e("done", 2, "active")>>,
    <<e("cost", 1, "active"), e("cost", 1, "active")>>,
    <<e("user", 1, "active"), e("end", 2, "completed")>>,
    <<e("state", 1, "active"), e("end", 2, "error")>>,
    <<e("state", 2, "active"), e("pause", 1, "paused")>>,
    <<e("end", 1, "completed"), e("pause", 2, "completed")>> }
=============================================================================
