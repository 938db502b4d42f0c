---------------------------- MODULE SessionState ----------------------------
(***************************************************************************)
(* The status machine of one session (engine/session-state.ts): the table  *)
(* of allowed transitions, and transitionStatus, through which every part  *)
(* of the engine changes a session's status.  A rejected transition leaves *)
(* the status as it is and returns FALSE.                                  *)
(***************************************************************************)

SessionStatus == {"active", "paused", "completed", "error"}

\* VALID_TRANSITIONS: completed and error have no successor.
ValidTransitions ==
  [from \in SessionStatus |->
     IF from = "active" THEN {"paused", "completed", "error"}
     ELSE IF from = "paused" THEN {"active", "completed", "error"}
     ELSE {}]

\* What transitionStatus(session, to) returns.
CanTransition(from, to) == to \in ValidTransitions[from]

\* The status transitionStatus(session, to) leaves behind.
Transition(from, to) == IF CanTransition(from, to) THEN to ELSE from

\* The statuses "nothing can overwrite" (session-state.ts:10-11).
Terminal == {"completed", "error"}
=============================================================================
