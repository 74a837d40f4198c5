----------------------------- MODULE MCPollBoard ------------------------------
(***************************************************************************)
(* Small instances of PollBoard.                                           *)
(***************************************************************************)
EXTENDS PollBoard

CONSTANTS p1, c1, c2

Text(s, offset, zone, blank) ==
    [digits |-> s, offset |-> offset, zone |-> zone, blank |-> blank]

Utc(s)    == Text(s, 0, "Z", "no")
East(s)   == Text(s, 1, "offset", "no")
Field(s)  == Text(s, 0, "none", "no")
Padded(s, where) == Text(s, 0, "Z", where)

\* Open from second 0 to second 1: as UTC, an offset further east, and with a blank
\* before the start or after the end.
FourTexts == {[start |-> Utc(0), end |-> Utc(1)],
              [start |-> East(1), end |-> East(2)],
              [start |-> Padded(0, "before"), end |-> Utc(1)],
              [start |-> Utc(0), end |-> Padded(1, "after")]}

\* What the fields of the page of creation send.
FormOnly == {[start |-> Field(0), end |-> Field(1)]}
===============================================================================
