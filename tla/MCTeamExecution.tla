--------------------------- MODULE MCTeamExecution ---------------------------
(* Two teams, one whose workers need decisions of their lead, on two slots. *)
EXTENDS TeamExecution

CONSTANTS build, review, ann, bob, eve

TwoTeams == {build, review}
TwoAndOne == [t \in TwoTeams |-> IF t = build THEN <<ann, bob>> ELSE <<eve>>]
NoneOrReview == {{}, {review}}

\* AcquireAll is the fold of Acquire over the callers.
ASSUME AcquireAllIsRepeated ==
  \A active \in 0 .. 2, max \in 1 .. 2, n \in 0 .. 3, line \in {<<>>, <<eve>>} :
    LET lim == [active |-> active, waiting |-> line]
        whos == SubSeq(<<ann, bob, eve>>, 1, n)
    IN AcquireAll(lim, max, whos) = FoldLeft(LAMBDA l, w : Acquire(l, max, w), lim, whos)
=============================================================================
