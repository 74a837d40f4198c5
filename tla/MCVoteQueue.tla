----------------------------- MODULE MCVoteQueue ------------------------------
(***************************************************************************)
(* Small instances of VoteQueue: one poll, a legal and an illegal ballot.  *)
(***************************************************************************)
EXTENDS VoteQueue

CONSTANTS ana, bia, q1, q2, q3, poll, good, bad
===============================================================================
