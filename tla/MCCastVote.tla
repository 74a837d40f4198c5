------------------------------ MODULE MCCastVote ------------------------------
(***************************************************************************)
(* Small instances of CastVote over a radio poll and a checkbox poll, with *)
(* requests on two processes.                                              *)
(***************************************************************************)
EXTENDS CastVote, TLC

CONSTANTS ana, bia, r1, r2, r3, api, ui, radio, check, x, y, z

\* One ballot that both polls accept: the interleavings are what matters.
OneBallot == {<<x>>}

\* No answer, a legal one, two answers, one answer twice, an answer of neither.
OddBallots == {<<>>, <<x>>, <<x, y>>, <<y, y>>, <<z>>}

MCHostOf == [r \in Requests |-> IF r = r1 THEN api ELSE ui]

MCOffered == radio :> {x} @@ check :> {x, y}

\* The checkbox poll opens when the radio poll has closed.
MCOpensAt == radio :> 0 @@ check :> 1
Windows == radio :> 0 @@ check :> 1
AlwaysOpen == [p \in Polls |-> MaxTime]
===============================================================================
