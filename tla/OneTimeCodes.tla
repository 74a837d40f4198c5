----------------------------- MODULE OneTimeCodes -----------------------------
(***************************************************************************)
(* What govote promises about the codes it sends to a phone, with nothing  *)
(* of how it is done: a code is issued to one person and replaces the one  *)
(* before it; only a code that is live is found right; and who has found   *)
(* it right is let in, now or later, which takes back whatever code the    *)
(* person has by then.                                                     *)
(*                                                                         *)
(* VoterAuth (passcodes of voters) and AdminAccess (temporary passwords of *)
(* administrators) implement this specification.                           *)
(***************************************************************************)
EXTENDS Integers

CONSTANT
    People      \* who may be sent a code

VARIABLES
    live,       \* the code of each person, 0 if there is none
    issued,     \* codes issued so far, which are numbered from 1
    checked,    \* codes found right by those about to be let in
    granted     \* codes somebody has been let in with

vars == <<live, issued, checked, granted>>

Init ==
    /\ live = [p \in People |-> 0]
    /\ issued = 0
    /\ checked = {}
    /\ granted = {}

Issue(p) ==
    /\ issued' = issued + 1
    /\ live' = [live EXCEPT ![p] = issued + 1]
    /\ UNCHANGED <<checked, granted>>

Check(p) ==
    /\ live[p] # 0
    /\ checked' = checked \union {<<p, live[p]>>}
    /\ UNCHANGED <<live, issued, granted>>

\* Others may have found the same code right.
Grant(p, c) ==
    /\ <<p, c>> \in checked
    /\ live' = [live EXCEPT ![p] = 0]
    /\ checked' \in {checked, checked \ {<<p, c>>}}
    /\ granted' = granted \union {<<p, c>>}
    /\ UNCHANGED issued

GiveUp(p, c) ==
    /\ checked' = checked \ {<<p, c>>}
    /\ UNCHANGED <<live, issued, granted>>

\* Codes run out, or are used up elsewhere.
Withdraw(S) ==
    /\ live' = [p \in People |-> IF p \in S THEN 0 ELSE live[p]]
    /\ UNCHANGED <<issued, checked, granted>>

Next ==
    \/ \E p \in People : Issue(p) \/ Check(p)
    \/ \E p \in People, c \in 1..issued : Grant(p, c) \/ GiveUp(p, c)
    \/ \E S \in SUBSET People : Withdraw(S)

Spec == Init /\ [][Next]_vars

-------------------------------------------------------------------------------
(* What follows from it *)

\* A code that has let somebody in is nobody's live code any more.
UsedOnce == \A g \in granted : \A p \in People : live[p] # g[2]

\* A code lets in one person.
OneOwner == \A g, h \in granted : g[2] = h[2] => g[1] = h[1]
===============================================================================
