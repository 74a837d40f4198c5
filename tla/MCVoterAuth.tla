----------------------------- MODULE MCVoterAuth ------------------------------
(***************************************************************************)
(* Small instances of VoterAuth.                                           *)
(***************************************************************************)
EXTENDS VoterAuth, TLC

CONSTANTS ana, bia, a1, a2, a3

\* Attempts are interchangeable; sound for the invariants of the run "auth".
SameAttempts == Permutations(Attempts)
===============================================================================
