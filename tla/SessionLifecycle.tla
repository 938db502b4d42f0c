-------------------------- MODULE SessionLifecycle --------------------------
(***************************************************************************)
(* What a session promises to whoever watches it from outside              *)
(* (docs/concepts.md, "Session Lifecycle"), with no word on how the engine *)
(* keeps it: the status only moves along the table, a step begins on a    *)
(* live session only, a session is completed between steps, and a run that *)
(* leaves on its own does so with a terminal status.                       *)
(***************************************************************************)
EXTENDS SessionState

VARIABLES
  status,   \* what the operator sees
  atWork,   \* a step's agents or command are at work
  over      \* the run has left: nothing changes any more

vars == <<status, atWork, over>>

Init == status = "active" /\ atWork = FALSE /\ over = FALSE

\* Paused, resumed, stopped or failed, at any time.
Steer ==
  /\ ~over
  /\ \E to \in SessionStatus \ {"completed"} : status' = Transition(status, to)
  /\ UNCHANGED <<atWork, over>>

Complete ==
  /\ ~over /\ ~atWork
  /\ CanTransition(status, "completed")
  /\ status' = "completed"
  /\ UNCHANGED <<atWork, over>>

BeginWork ==
  /\ ~over /\ ~atWork
  /\ status \notin Terminal
  /\ atWork' = TRUE
  /\ UNCHANGED <<status, over>>

\* The work ends well, or takes the session down with it.
EndWork ==
  /\ ~over /\ atWork
  /\ status' \in {status, Transition(status, "error")}
  /\ atWork' = FALSE
  /\ UNCHANGED over

Leave ==
  /\ ~over /\ ~atWork
  /\ status \in Terminal
  /\ over' = TRUE
  /\ UNCHANGED <<status, atWork>>

\* The process dies, in any state.
Die ==
  /\ ~over
  /\ over' = TRUE /\ atWork' = FALSE
  /\ UNCHANGED status

\* A new run is started from the old one's checkpoint.
Restart ==
  /\ over
  /\ status' = "active" /\ atWork' = FALSE /\ over' = FALSE

Next ==
  Steer \/ Complete \/ BeginWork \/ EndWork \/ Leave \/ Die \/ Restart

Spec == Init /\ [][Next]_vars
=============================================================================
