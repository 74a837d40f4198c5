------------------------------ MODULE VoteLedger ------------------------------
(***************************************************************************)
(* What govote promises about votes, with nothing of how it is done: a     *)
(* ledger in which every voter has at most one ballot per poll, to which   *)
(* ballots are only ever added, and receipts that are only handed out for  *)
(* a ballot that is in the ledger.                                         *)
(*                                                                         *)
(* CastVote (the SQLite transaction) and VoteQueue (the ways to it)        *)
(* implement this specification.                                           *)
(***************************************************************************)
CONSTANTS
    Polls,      \* the polls
    Voters,     \* the voters
    Ballots     \* what a voter can put in a poll: lists of answers

VARIABLES
    ledger,     \* the ballots recorded so far
    receipts    \* the ballots some client was told are recorded

vars == <<ledger, receipts>>

Entries == [poll: Polls, voter: Voters, answers: Ballots]

HasBallot(p, v) == \E e \in ledger : e.poll = p /\ e.voter = v

Init == ledger = {} /\ receipts = {}

\* The receipt may go out at once.
Record(e) ==
    /\ ~HasBallot(e.poll, e.voter)
    /\ ledger' = ledger \union {e}
    /\ receipts' \in {receipts, receipts \union {e}}

Acknowledge(e) ==
    /\ e \in ledger
    /\ receipts' = receipts \union {e}
    /\ UNCHANGED ledger

Next == \E e \in Entries : Record(e) \/ Acknowledge(e)

Spec == Init /\ [][Next]_vars
===============================================================================
