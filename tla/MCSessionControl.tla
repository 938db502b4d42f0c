-------------------------- MODULE MCSessionControl --------------------------
(***************************************************************************)
(* Small instances of SessionControl for TLC.                              *)
(***************************************************************************)
EXTENDS SessionControl

CONSTANTS A, B   \* two teams

MCTeams == {A, B}
OneTeam == {A}
OneItem == {1}
AgentOnly == <<"agent">>
IsolatedThenCommand == <<"isolated", "deterministic">>
=============================================================================
