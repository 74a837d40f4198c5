---------------------------- MODULE MCAdminAccess -----------------------------
(***************************************************************************)
(* Small instances of AdminAccess.                                         *)
(***************************************************************************)
EXTENDS AdminAccess

CONSTANTS super, ana, p1, p2, c1, c2

\* Two revocations of the super administrator, one of the other account.
VersionBound == [u \in Accounts |-> IF u = Super THEN 2 ELSE 1]
===============================================================================
