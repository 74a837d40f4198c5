------------------------------ MODULE VoterAuth -------------------------------
(***************************************************************************)
(* Passcodes and the lockout of failed attempts.  HandleVerify and         *)
(* HandleUIVerify run at once for any number of attempts; each is a        *)
(* sequence of statements on the tables voters and auth_lockout, none of   *)
(* them in a transaction, and what one has read another may have changed   *)
(* by the time it writes.  Every statement may fail, which the lockout     *)
(* ignores, and an attempt is lost when its process dies.                  *)
(*                                                                         *)
(* A code is the number of the request that issued it: 0 stands for NULL   *)
(* and for a guess that is no code.  A time of 0 stands for NULL.          *)
(***************************************************************************)
EXTENDS Integers, FiniteSets

CONSTANTS
    Voters,         \* people, by CPF
    Attempts,       \* calls of the verify handlers, each made once
    NoRow,          \* no row of auth_lockout
    MaxFailures,    \* GOVOTE_LOCKOUT_MAX_FAILURES
    LockTime,       \* GOVOTE_LOCKOUT_MINUTES
    CodeTime,       \* PasscodeTTL
    MaxTime,        \* bound: the clock stops here
    MaxCodes        \* bound: codes issued in a behaviour

LockRow == [fails: Nat, until: Nat]

ASSUME AuthAssumption ==
    /\ Voters # {} /\ IsFiniteSet(Attempts)
    /\ NoRow \notin LockRow
    /\ MaxFailures \in Nat \ {0}
    /\ LockTime \in Nat \ {0}
    /\ CodeTime \in Nat \ {0}
    /\ MaxTime \in Nat
    /\ MaxCodes \in Nat

VARIABLES
    now,        \* the clock, which starts at 1
    issued,     \* codes issued so far
    voters,     \* table voters, the columns of the passcode
    lockout,    \* table auth_lockout, the row of each voter
    pc,         \* next step of each attempt
    guess,      \* whom it is for and the code it brings
    seen,       \* what RecordFailure has read, and when
    result,     \* its HTTP status, 0 while there is none
    failed      \* failures recorded since a voter's counter was last cleared,
                \* for FailuresLock only

attempt == <<pc, guess, seen, result>>
vars    == <<now, issued, voters, lockout, pc, guess, seen, result, failed>>

-------------------------------------------------------------------------------
(* State *)

Codes == 0..MaxCodes

VoterRow == [code: Codes, expires: Nat, used: BOOLEAN, verified: BOOLEAN]

\* Past the check of the code.
Passed == {"clear", "mark"}

Steps == Passed \union
    {"idle", "lock", "unlock", "check", "count", "insert", "raise", "done", "lost"}

TypeOK ==
    /\ now \in 1..MaxTime + 1
    /\ issued \in Codes
    /\ voters \in [Voters -> VoterRow]
    /\ lockout \in [Voters -> LockRow \union {NoRow}]
    /\ pc \in [Attempts -> Steps]
    /\ guess \in [Attempts -> [voter: Voters, code: Codes]]
    /\ seen \in [Attempts -> [fails: Nat, at: Nat]]
    /\ result \in [Attempts -> {0, 200, 401, 429, 500}]
    /\ failed \in [Voters -> Nat]

For(a) == guess[a].voter

\* The voter's row says that attempts are to be turned away.
Locked(v) == lockout[v] # NoRow /\ now < lockout[v].until

\* A lock that has been set and not cleared, whether it has run out or not.
LockSet(v) == lockout[v] # NoRow /\ lockout[v].until # 0

-------------------------------------------------------------------------------
(* The steps of an attempt *)

Goto(a, step) == pc' = [pc EXCEPT ![a] = step] /\ UNCHANGED <<guess, result>>

Finish(a, status) ==
    /\ pc' = [pc EXCEPT ![a] = "done"]
    /\ result' = [result EXCEPT ![a] = status]
    /\ seen' = [seen EXCEPT ![a] = [fails |-> 0, at |-> 0]]
    /\ UNCHANGED guess

\* A code that was issued, or something else.
Submit(a) ==
    /\ pc[a] = "idle"
    /\ \E v \in Voters, c \in 0..issued :
            guess' = [guess EXCEPT ![a] = [voter |-> v, code |-> c]]
    /\ pc' = [pc EXCEPT ![a] = "lock"]
    /\ UNCHANGED <<now, issued, voters, lockout, seen, result, failed>>

\* IsLocked, its SELECT: a row that cannot be read is no lock.
ReadLock(a) ==
    /\ pc[a] = "lock"
    /\ \/ Locked(For(a)) /\ Finish(a, 429)
       \/ LockSet(For(a)) /\ ~Locked(For(a)) /\ Goto(a, "unlock") /\ UNCHANGED seen
       \/ ~LockSet(For(a)) /\ Goto(a, "check") /\ UNCHANGED seen
       \/ Goto(a, "check") /\ UNCHANGED seen
    /\ UNCHANGED <<now, issued, voters, lockout, failed>>

\* Faulty: the lock is lifted and the count stays.
ClearExpiredKeepingCount(a) ==
    /\ pc[a] = "unlock"
    /\ lockout' = [lockout EXCEPT ![For(a)] =
                    IF @ = NoRow THEN NoRow ELSE [@ EXCEPT !.until = 0]]
    /\ failed' = [failed EXCEPT ![For(a)] = 0]
    /\ Goto(a, "check")
    /\ UNCHANGED <<now, issued, voters, seen>>

\* IsLocked, its UPDATE, of whatever the row holds by now.
ClearExpired(a) ==
    /\ pc[a] = "unlock"
    /\ \/ /\ lockout' = [lockout EXCEPT ![For(a)] =
                            IF @ = NoRow THEN NoRow ELSE [fails |-> 0, until |-> 0]]
          /\ failed' = [failed EXCEPT ![For(a)] = 0]
       \/ UNCHANGED <<lockout, failed>>
    /\ Goto(a, "check")
    /\ UNCHANGED <<now, issued, voters, seen>>

\* Faulty: the SELECT looks for the code and not for the CPF.
CodeMatchesAny(a) ==
    \E v \in Voters : /\ voters[v].code # 0 /\ voters[v].code = guess[a].code
                      /\ ~voters[v].used
                      /\ now < voters[v].expires

CodeMatches(a) ==
    LET row == voters[For(a)]
    IN  /\ row.code # 0 /\ row.code = guess[a].code
        /\ ~row.used
        /\ now < row.expires

\* A failed SELECT is a wrong code.
CheckCode(a) ==
    /\ pc[a] = "check"
    /\ \/ CodeMatches(a) /\ Goto(a, "clear")
       \/ Goto(a, "count")
    /\ UNCHANGED <<now, issued, voters, lockout, seen, failed>>

\* RecordFailure, its SELECT; under a lock nothing is counted.
CountFailure(a) ==
    /\ pc[a] = "count"
    /\ \/ lockout[For(a)] = NoRow /\ Goto(a, "insert") /\ UNCHANGED seen
       \/ /\ lockout[For(a)] # NoRow /\ ~Locked(For(a))
          /\ seen' = [seen EXCEPT ![a] = [fails |-> lockout[For(a)].fails, at |-> now]]
          /\ Goto(a, "raise")
       \/ Finish(a, 401)
    /\ UNCHANGED <<now, issued, voters, lockout, failed>>

\* RecordFailure returns; the failure was recorded, as far as it can tell.
Recorded(a) ==
    /\ failed' = [failed EXCEPT ![For(a)] = @ + 1]
    /\ Finish(a, 401)

\* Faulty: the INSERT does not return, and the UPDATE counts the failure again.
InsertFailureTwice(a) ==
    /\ pc[a] = "insert" /\ lockout[For(a)] = NoRow
    /\ lockout' = [lockout EXCEPT ![For(a)] = [fails |-> 1, until |-> 0]]
    /\ seen' = [seen EXCEPT ![a] = [fails |-> 1, at |-> now]]
    /\ Goto(a, "raise")
    /\ UNCHANGED <<now, issued, voters, failed>>

\* The INSERT fails on the primary key when another attempt was faster.
InsertFailure(a) ==
    /\ pc[a] = "insert"
    /\ \/ /\ lockout[For(a)] = NoRow
          /\ lockout' = [lockout EXCEPT ![For(a)] = [fails |-> 1, until |-> 0]]
          /\ Recorded(a)
       \/ lockout[For(a)] # NoRow /\ Recorded(a) /\ UNCHANGED lockout
       \/ Finish(a, 401) /\ UNCHANGED <<lockout, failed>>
    /\ UNCHANGED <<now, issued, voters>>

\* Faulty: locked_until is left out.
RaisedWithoutLock(s) == [fails |-> s.fails + 1]

\* The row RecordFailure writes, from what it has read.
Raised(s) ==
    IF s.fails + 1 >= MaxFailures
    THEN [fails |-> MaxFailures, until |-> s.at + LockTime]
    ELSE [fails |-> s.fails + 1, until |-> 0]

\* The UPDATE, of no row if a success has deleted it.
RaiseFailure(a) ==
    /\ pc[a] = "raise"
    /\ \/ /\ lockout' = [lockout EXCEPT ![For(a)] =
                            IF @ = NoRow THEN NoRow ELSE Raised(seen[a])]
          /\ Recorded(a)
       \/ Finish(a, 401) /\ UNCHANGED <<lockout, failed>>
    /\ UNCHANGED <<now, issued, voters>>

ClearFailures(a) ==
    /\ pc[a] = "clear"
    /\ \/ /\ lockout' = [lockout EXCEPT ![For(a)] = NoRow]
          /\ failed' = [failed EXCEPT ![For(a)] = 0]
       \/ UNCHANGED <<lockout, failed>>
    /\ Goto(a, "mark")
    /\ UNCHANGED <<now, issued, voters, seen>>

\* Faulty: the UPDATE has lost its WHERE.
MarkVerifiedAll(a) ==
    /\ pc[a] = "mark"
    /\ voters' = [v \in Voters |->
                    [code |-> 0, expires |-> 0, used |-> TRUE, verified |-> TRUE]]
    /\ Finish(a, 200)
    /\ UNCHANGED <<now, issued, lockout, failed>>

\* Faulty: the code stays in the row, and is not marked used.
MarkVerifiedKeepingCode(a) ==
    /\ pc[a] = "mark"
    /\ voters' = [voters EXCEPT ![For(a)].verified = TRUE]
    /\ Finish(a, 200)
    /\ UNCHANGED <<now, issued, lockout, failed>>

\* The UPDATE looks at the CPF only: a code issued since the check is lost.  The
\* status stands for what the handler has decided; the client may never see it.
MarkVerified(a) ==
    /\ pc[a] = "mark"
    /\ \/ /\ voters' = [voters EXCEPT ![For(a)] =
                    [code |-> 0, expires |-> 0, used |-> TRUE, verified |-> TRUE]]
          /\ Finish(a, 200)
       \/ Finish(a, 500) /\ UNCHANGED voters
    /\ UNCHANGED <<now, issued, lockout, failed>>

Crash(a) ==
    /\ pc[a] \notin {"idle", "done", "lost"}
    /\ Goto(a, "lost")
    /\ seen' = [seen EXCEPT ![a] = [fails |-> 0, at |-> 0]]
    /\ UNCHANGED <<now, issued, voters, lockout, failed>>

-------------------------------------------------------------------------------
(* The rest of the system *)

\* The upsert of a passcode request, the same for WhatsApp, Telegram and HTML.
RequestPasscode(v) ==
    /\ issued < MaxCodes
    /\ issued' = issued + 1
    /\ voters' = [voters EXCEPT ![v] = [code |-> issued', expires |-> now + CodeTime,
                                        used |-> FALSE, verified |-> FALSE]]
    /\ UNCHANGED <<now, lockout, attempt, failed>>

\* The UPDATE of CastVote, for a voter who has been given a vote token.
ConsumeCode(v) ==
    /\ \E a \in Attempts : For(a) = v /\ result[a] = 200
    /\ voters' = [voters EXCEPT ![v] = [@ EXCEPT !.code = 0, !.used = TRUE]]
    /\ UNCHANGED <<now, issued, lockout, attempt, failed>>

Tick ==
    /\ now <= MaxTime
    /\ now' = now + 1
    /\ UNCHANGED <<issued, voters, lockout, attempt, failed>>

Init ==
    /\ now = 1
    /\ issued = 0
    /\ voters = [v \in Voters |->
                    [code |-> 0, expires |-> 0, used |-> FALSE, verified |-> FALSE]]
    /\ lockout = [v \in Voters |-> NoRow]
    /\ pc = [a \in Attempts |-> "idle"]
    /\ guess = [a \in Attempts |-> [voter |-> CHOOSE v \in Voters : TRUE, code |-> 0]]
    /\ seen = [a \in Attempts |-> [fails |-> 0, at |-> 0]]
    /\ result = [a \in Attempts |-> 0]
    /\ failed = [v \in Voters |-> 0]

Step(a) == \/ ReadLock(a) \/ ClearExpired(a) \/ CheckCode(a)
           \/ CountFailure(a) \/ InsertFailure(a) \/ RaiseFailure(a)
           \/ ClearFailures(a) \/ MarkVerified(a)

Next ==
    \/ \E a \in Attempts : Submit(a) \/ Step(a) \/ Crash(a)
    \/ \E v \in Voters : RequestPasscode(v) \/ ConsumeCode(v)
    \/ Tick

Spec == Init /\ [][Next]_vars

-------------------------------------------------------------------------------
(* Properties *)

\* A lock goes with a full count.  A full count goes with a lock when the threshold is
\* above one; with a threshold of one the first failure inserts a full count and no lock.
\* So no order of clears and stale writes locks a voter with attempts left, or, above a
\* threshold of one, leaves one counted out without a lock that will run out.
LockWithFullCount ==
    \A v \in Voters : lockout[v] # NoRow =>
        /\ lockout[v].fails <= MaxFailures
        /\ lockout[v].until # 0 => lockout[v].fails = MaxFailures
        /\ MaxFailures > 1 /\ lockout[v].fails = MaxFailures => lockout[v].until # 0

\* A voter is only locked after as many attempts for that voter have failed as the
\* threshold says, however stale the counts they wrote.
LockHasCause ==
    \A v \in Voters : LockSet(v) =>
        Cardinality({a \in Attempts : For(a) = v /\ result[a] = 401}) >= MaxFailures

\* Once an attempt has been answered with success its code is out of the table, and
\* no later check can accept it.
SpentCodeGone ==
    \A a \in Attempts : result[a] = 200 => voters[For(a)].code # guess[a].code

\* A voter is marked verified only after an attempt for that very voter has been
\* answered with success.
VerifiedHasProof ==
    \A v \in Voters : voters[v].verified =>
        \E a \in Attempts : For(a) = v /\ result[a] = 200

\* The code a voter could be verified with now.
LiveCode(v) == IF ~voters[v].used /\ now < voters[v].expires THEN voters[v].code ELSE 0

Live == [v \in Voters |-> LiveCode(v)]

Pair(a) == <<For(a), guess[a].code>>

\* Found right, and answered with success.
Checked == {Pair(a) : a \in {b \in Attempts : pc[b] \in Passed}}
Granted == {Pair(a) : a \in {b \in Attempts : result[b] = 200}}

OneTime == INSTANCE OneTimeCodes WITH
    People <- Voters, live <- Live, checked <- Checked, granted <- Granted

\* Whatever attempts, requests and votes interleave, passcodes keep the promise of
\* OneTimeCodes: only a voter's own live code is found right, a success comes only after
\* that and takes back the code the voter has by then, and nothing makes an old code live.
ImplementsOneTime == OneTime!Spec

\* After MaxFailures recorded failures the voter is locked: RecordFailure
\* "increments the failure counter for key and locks when threshold is reached".
FailuresLock ==
    \A v \in Voters : failed[v] >= MaxFailures => LockSet(v)
===============================================================================
