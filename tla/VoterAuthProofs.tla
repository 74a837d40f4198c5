--------------------------- MODULE VoterAuthProofs ----------------------------
(***************************************************************************)
(* Theorems about VoterAuth, for any number of voters and attempts, any    *)
(* threshold and any times.  What RecordFailure writes is as old as its    *)
(* SELECT, so the invariant bounds not only the rows of auth_lockout but   *)
(* also the counts that attempts carry, by the attempts that have failed,  *)
(* and it ties a code that was accepted to the codes issued so far.        *)
(***************************************************************************)
EXTENDS VoterAuth, FiniteSetTheorems, TLAPS

Failures(v) == {a \in Attempts : For(a) = v /\ result[a] = 401}

\* An attempt is answered by its last step.
Unanswered == \A a \in Attempts : pc[a] # "done" => result[a] = 0

\* No one has a code that was not issued, and the guess of an attempt that was
\* accepted is a code.
CodesIssued ==
    /\ \A v \in Voters : voters[v].code <= issued
    /\ \A a \in Attempts : guess[a].code <= issued

AcceptedIsCode ==
    \A a \in Attempts : pc[a] \in Passed \/ result[a] = 200 => guess[a].code # 0

\* Every count, in the table or on its way to it, is one of failed attempts.
CountsHaveCause ==
    /\ \A v \in Voters : lockout[v] # NoRow =>
            lockout[v].fails <= Cardinality(Failures(v))
    /\ \A a \in Attempts : pc[a] = "raise" =>
            seen[a].fails <= Cardinality(Failures(For(a)))

CodeInv ==
    /\ Unanswered
    /\ CodesIssued
    /\ AcceptedIsCode
    /\ SpentCodeGone
    /\ VerifiedHasProof

CountInv ==
    /\ LockWithFullCount
    /\ CountsHaveCause

IInv == TypeOK /\ CodeInv /\ CountInv

-------------------------------------------------------------------------------
(* Counting the failed attempts *)

\* The failures of a voter can be counted.
LEMMA FailuresFinite ==
    ASSUME NEW v
    PROVE  IsFiniteSet(Failures(v)) /\ Cardinality(Failures(v)) \in Nat
<1>1. Failures(v) \subseteq Attempts
  BY DEF Failures
<1> QED
  BY <1>1, FS_Subset, FS_CardinalityType, AuthAssumption

\* Answering an attempt never lowers a count of failures, and a 401 raises that of
\* its voter.
LEMMA FinishCounts ==
    ASSUME TypeOK, Unanswered, NEW a \in Attempts, pc[a] # "done",
           NEW s \in {200, 401, 429, 500}, Finish(a, s), NEW v \in Voters
    PROVE  /\ Cardinality(Failures(v)') \in Nat
           /\ Cardinality(Failures(v)) <= Cardinality(Failures(v)')
           /\ s = 401 /\ v = For(a) =>
                Cardinality(Failures(v)') = Cardinality(Failures(v)) + 1
<1>1. IsFiniteSet(Failures(v)) /\ Cardinality(Failures(v)) \in Nat
  BY FailuresFinite
<1>2. a \notin Failures(v)
  BY DEF Unanswered, Failures
<1>3. CASE s = 401 /\ v = For(a)
  <2>1. Failures(v)' = Failures(v) \union {a}
    BY <1>3 DEF Failures, For, Finish, TypeOK
  <2>2. Cardinality(Failures(v) \union {a}) = Cardinality(Failures(v)) + 1
    <3> DEFINE F == Failures(v)
    <3>1. IsFiniteSet(F) /\ a \notin F
      BY <1>1, <1>2
    <3> HIDE DEF F
    <3>2. Cardinality(F \union {a}) = Cardinality(F) + 1
      BY <3>1, FS_AddElement
    <3> QED
      BY <3>2 DEF F
  <2>3. Cardinality(Failures(v)') = Cardinality(Failures(v)) + 1
    BY <2>1, <2>2
  <2> QED
    BY <2>3, <1>1
<1>4. CASE ~(s = 401 /\ v = For(a))
  <2>1. Failures(v)' = Failures(v)
    BY <1>4, <1>2 DEF Failures, For, Finish, TypeOK
  <2> QED
    BY <2>1, <1>1, <1>4
<1> QED
  BY <1>3, <1>4

\* A step that answers no attempt leaves the failures alone.
LEMMA SameFailures ==
    ASSUME guess' = guess, result' = result, NEW v
    PROVE  Failures(v)' = Failures(v)
BY DEF Failures, For

-------------------------------------------------------------------------------
(* The invariant holds initially *)

\* Nothing is issued, counted or answered at the start.
LEMMA InitInv == Init => IInv
<1> SUFFICES ASSUME Init PROVE IInv
  OBVIOUS
<1>1. (CHOOSE v \in Voters : TRUE) \in Voters
  BY AuthAssumption
<1>2. TypeOK
  BY <1>1, AuthAssumption DEF Init, TypeOK, VoterRow, Steps, Codes
<1>3. CodeInv
  BY <1>1, AuthAssumption DEF Init, CodeInv, Unanswered, CodesIssued, AcceptedIsCode, Passed,
     SpentCodeGone, VerifiedHasProof, For
<1>4. CountInv
  BY DEF Init, CountInv, LockWithFullCount, CountsHaveCause
<1> QED
  BY <1>2, <1>3, <1>4 DEF IInv

-------------------------------------------------------------------------------
(* Types *)

\* Moving an attempt on keeps its types.
LEMMA GotoType ==
    ASSUME TypeOK, NEW a \in Attempts, NEW step \in Steps, Goto(a, step)
    PROVE  /\ pc' \in [Attempts -> Steps]
           /\ guess' \in [Attempts -> [voter: Voters, code: Codes]]
           /\ result' \in [Attempts -> {0, 200, 401, 429, 500}]
BY DEF TypeOK, Goto

\* So does answering it.
LEMMA FinishType ==
    ASSUME TypeOK, NEW a \in Attempts, NEW s \in {200, 401, 429, 500}, Finish(a, s)
    PROVE  /\ pc' \in [Attempts -> Steps]
           /\ guess' \in [Attempts -> [voter: Voters, code: Codes]]
           /\ seen' \in [Attempts -> [fails: Nat, at: Nat]]
           /\ result' \in [Attempts -> {0, 200, 401, 429, 500}]
<1>1. pc' \in [Attempts -> Steps]
  BY DEF TypeOK, Finish, Steps
<1>2. result' \in [Attempts -> {0, 200, 401, 429, 500}]
  BY DEF TypeOK, Finish
<1>3. seen' \in [Attempts -> [fails: Nat, at: Nat]]
  BY DEF TypeOK, Finish
<1> QED
  BY <1>1, <1>2, <1>3 DEF TypeOK, Finish

\* Every step keeps the types.
LEMMA TypeStep == TypeOK /\ [Next]_vars => TypeOK'
<1> SUFFICES ASSUME TypeOK, [Next]_vars PROVE TypeOK'
  OBVIOUS
<1> USE AuthAssumption DEF TypeOK
<1>1. ASSUME NEW a \in Attempts, Submit(a) PROVE TypeOK'
  BY <1>1 DEF Submit, Codes, Steps
<1>2. ASSUME NEW a \in Attempts, ReadLock(a) PROVE TypeOK'
  <2>1. CASE Finish(a, 429)
    BY <1>2, <2>1, FinishType DEF ReadLock
  <2>2. CASE (Goto(a, "unlock") \/ Goto(a, "check")) /\ UNCHANGED seen
    BY <1>2, <2>2, GotoType DEF ReadLock, Steps
  <2> QED
    BY <1>2, <2>1, <2>2 DEF ReadLock
<1>3. ASSUME NEW a \in Attempts, ClearExpired(a) PROVE TypeOK'
  <2>1. [fails |-> 0, until |-> 0] \in LockRow
    BY DEF LockRow
  <2>2. lockout' \in [Voters -> LockRow \union {NoRow}]
    BY <1>3, <2>1 DEF ClearExpired
  <2>3. failed' \in [Voters -> Nat]
    BY <1>3 DEF ClearExpired
  <2> QED
    BY <1>3, <2>2, <2>3, GotoType DEF ClearExpired, Steps
<1>4. ASSUME NEW a \in Attempts, CheckCode(a) PROVE TypeOK'
  BY <1>4, GotoType DEF CheckCode, Steps, Passed
<1>5. ASSUME NEW a \in Attempts, CountFailure(a) PROVE TypeOK'
  <2>1. CASE Finish(a, 401)
    BY <1>5, <2>1, FinishType DEF CountFailure
  <2>2. CASE Goto(a, "insert") /\ UNCHANGED seen
    BY <1>5, <2>2, GotoType DEF CountFailure, Steps
  <2>3. CASE /\ lockout[For(a)] # NoRow
             /\ seen' = [seen EXCEPT ![a] = [fails |-> lockout[For(a)].fails, at |-> now]]
             /\ Goto(a, "raise")
    <3>1. lockout[For(a)].fails \in Nat /\ now \in Nat
      BY <2>3 DEF For, LockRow
    <3>2. seen' \in [Attempts -> [fails: Nat, at: Nat]]
      BY <2>3, <3>1
    <3> QED
      BY <1>5, <2>3, <3>2, GotoType DEF CountFailure, Steps
  <2> QED
    BY <1>5, <2>1, <2>2, <2>3 DEF CountFailure
<1>6. ASSUME NEW a \in Attempts, InsertFailure(a) PROVE TypeOK'
  <2>1. Finish(a, 401)
    BY <1>6 DEF InsertFailure, Recorded
  <2>2. lockout' \in [Voters -> LockRow \union {NoRow}]
    BY <1>6 DEF InsertFailure, LockRow
  <2>3. failed' \in [Voters -> Nat]
    BY <1>6 DEF InsertFailure, Recorded
  <2> QED
    BY <1>6, <2>1, <2>2, <2>3, FinishType DEF InsertFailure
<1>7. ASSUME NEW a \in Attempts, RaiseFailure(a) PROVE TypeOK'
  <2>1. Raised(seen[a]) \in LockRow
    BY DEF Raised, LockRow
  <2>2. Finish(a, 401)
    BY <1>7 DEF RaiseFailure, Recorded
  <2>3. lockout' \in [Voters -> LockRow \union {NoRow}]
    <3> DEFINE row == Raised(seen[a])
    <3>1. row \in LockRow
      BY <2>1
    <3>2. \/ UNCHANGED lockout
          \/ lockout' = [lockout EXCEPT ![For(a)] =
                            IF lockout[For(a)] = NoRow THEN NoRow ELSE row]
      BY <1>7 DEF RaiseFailure
    <3> HIDE DEF row
    <3> QED
      BY <3>1, <3>2
  <2>4. failed' \in [Voters -> Nat]
    BY <1>7 DEF RaiseFailure, Recorded
  <2> QED
    BY <1>7, <2>2, <2>3, <2>4, FinishType DEF RaiseFailure
<1>8. ASSUME NEW a \in Attempts, ClearFailures(a) PROVE TypeOK'
  <2>1. lockout' \in [Voters -> LockRow \union {NoRow}]
    BY <1>8 DEF ClearFailures
  <2>2. failed' \in [Voters -> Nat]
    BY <1>8 DEF ClearFailures
  <2> QED
    BY <1>8, <2>1, <2>2, GotoType DEF ClearFailures, Steps, Passed
<1>9. ASSUME NEW a \in Attempts, MarkVerified(a) PROVE TypeOK'
  <2>1. voters' \in [Voters -> VoterRow]
    <3> DEFINE row == [code |-> 0, expires |-> 0, used |-> TRUE, verified |-> TRUE]
    <3>1. row \in VoterRow
      BY DEF VoterRow, Codes
    <3>2. UNCHANGED voters \/ voters' = [voters EXCEPT ![For(a)] = row]
      BY <1>9 DEF MarkVerified
    <3> HIDE DEF row
    <3> QED
      BY <3>1, <3>2
  <2> QED
    BY <1>9, <2>1, FinishType DEF MarkVerified
<1>10. ASSUME NEW a \in Attempts, Crash(a) PROVE TypeOK'
  BY <1>10, GotoType DEF Crash, Steps
<1>11. ASSUME NEW v \in Voters, RequestPasscode(v) PROVE TypeOK'
  BY <1>11 DEF RequestPasscode, VoterRow, Codes, attempt
<1>12. ASSUME NEW v \in Voters, ConsumeCode(v) PROVE TypeOK'
  <2>1. [voters[v] EXCEPT !.code = 0, !.used = TRUE] \in VoterRow
    <3> DEFINE row == voters[v]
    <3>1. row \in VoterRow /\ 0 \in Codes
      BY DEF Codes
    <3> HIDE DEF row
    <3>2. [row EXCEPT !.code = 0, !.used = TRUE] \in VoterRow
      BY <3>1 DEF VoterRow
    <3> QED
      BY <3>2 DEF row
  <2> QED
    BY <1>12, <2>1 DEF ConsumeCode, attempt
<1>13. ASSUME Tick PROVE TypeOK'
  BY <1>13 DEF Tick, attempt
<1>14. ASSUME UNCHANGED vars PROVE TypeOK'
  BY <1>14 DEF vars
<1> QED
  BY <1>1, <1>2, <1>3, <1>4, <1>5, <1>6, <1>7, <1>8, <1>9, <1>10, <1>11, <1>12, <1>13,
     <1>14 DEF Next, Step

-------------------------------------------------------------------------------
(* Codes *)

\* A step within an attempt that neither accepts it nor touches table voters.
LEMMA CodeMoves ==
    ASSUME TypeOK, CodeInv, NEW a \in Attempts, pc[a] # "done",
           UNCHANGED <<issued, voters>>,
           \/ \E step \in Steps \ {"done"} :
                /\ Goto(a, step)
                /\ step \in Passed => guess[a].code # 0
           \/ \E s \in {401, 429, 500} : Finish(a, s)
    PROVE  CodeInv'
<1> USE DEF CodeInv, TypeOK, Goto, Finish, For
<1>1. Unanswered'
  BY DEF Unanswered
<1>2. CodesIssued'
  BY DEF CodesIssued
<1>3. AcceptedIsCode'
  BY DEF AcceptedIsCode, Passed
<1>4. SpentCodeGone'
  BY DEF SpentCodeGone
<1>5. VerifiedHasProof'
  BY DEF VerifiedHasProof, Unanswered
<1> QED
  BY <1>1, <1>2, <1>3, <1>4, <1>5

\* Every step keeps what the invariant says of codes.
LEMMA CodeStep == IInv /\ [Next]_vars => CodeInv'
<1> SUFFICES ASSUME IInv, [Next]_vars PROVE CodeInv'
  OBVIOUS
<1> USE DEF IInv, CodeInv
<1>1. ASSUME NEW a \in Attempts, Submit(a) PROVE CodeInv'
  <2> USE <1>1 DEF Submit, TypeOK, Codes, For
  <2>1. result[a] = 0
    BY DEF Unanswered
  <2>2. Unanswered' /\ CodesIssued' /\ AcceptedIsCode' /\ SpentCodeGone'
    BY <2>1 DEF Unanswered, CodesIssued, AcceptedIsCode, SpentCodeGone, Passed
  <2>3. VerifiedHasProof'
    BY <2>1 DEF VerifiedHasProof
  <2> QED
    BY <2>2, <2>3
<1>2. ASSUME NEW a \in Attempts, ReadLock(a) PROVE CodeInv'
  BY <1>2, CodeMoves DEF ReadLock, Steps, Passed
<1>3. ASSUME NEW a \in Attempts, ClearExpired(a) PROVE CodeInv'
  BY <1>3, CodeMoves DEF ClearExpired, Steps, Passed
<1>4. ASSUME NEW a \in Attempts, CheckCode(a) PROVE CodeInv'
  <2>1. CodeMatches(a) => guess[a].code # 0
    BY DEF CodeMatches
  <2> QED
    BY <1>4, <2>1, CodeMoves DEF CheckCode, Steps, Passed
<1>5. ASSUME NEW a \in Attempts, CountFailure(a) PROVE CodeInv'
  BY <1>5, CodeMoves DEF CountFailure, Steps, Passed
<1>6. ASSUME NEW a \in Attempts, InsertFailure(a) PROVE CodeInv'
  BY <1>6, CodeMoves DEF InsertFailure, Recorded
<1>7. ASSUME NEW a \in Attempts, RaiseFailure(a) PROVE CodeInv'
  BY <1>7, CodeMoves DEF RaiseFailure, Recorded
<1>8. ASSUME NEW a \in Attempts, ClearFailures(a) PROVE CodeInv'
  BY <1>8, CodeMoves DEF ClearFailures, Steps, Passed, AcceptedIsCode
<1>9. ASSUME NEW a \in Attempts, MarkVerified(a) PROVE CodeInv'
  <2>1. CASE Finish(a, 500) /\ UNCHANGED voters
    BY <1>9, <2>1, CodeMoves DEF MarkVerified
  <2>2. CASE Finish(a, 200) /\ voters' = [voters EXCEPT ![For(a)] =
                [code |-> 0, expires |-> 0, used |-> TRUE, verified |-> TRUE]]
    <3> USE <1>9, <2>2 DEF MarkVerified, Finish, TypeOK, For
    <3>1. guess[a].code # 0
      BY DEF AcceptedIsCode, Passed
    <3>2. Unanswered'
      BY DEF Unanswered
    <3>3. CodesIssued'
      BY DEF CodesIssued, Codes
    <3>4. AcceptedIsCode'
      BY <3>1 DEF AcceptedIsCode, Passed
    <3>5. SpentCodeGone'
      BY <3>1 DEF SpentCodeGone, AcceptedIsCode
    <3>6. VerifiedHasProof'
      BY DEF VerifiedHasProof
    <3> QED
      BY <3>2, <3>3, <3>4, <3>5, <3>6
  <2> QED
    BY <1>9, <2>1, <2>2 DEF MarkVerified
<1>10. ASSUME NEW a \in Attempts, Crash(a) PROVE CodeInv'
  BY <1>10, CodeMoves DEF Crash, Steps, Passed
<1>11. ASSUME NEW v \in Voters, RequestPasscode(v) PROVE CodeInv'
  <2> USE <1>11 DEF RequestPasscode, TypeOK, attempt, For, VoterRow, Codes
  <2>1. Unanswered' /\ AcceptedIsCode'
    BY DEF Unanswered, AcceptedIsCode
  <2>2. CodesIssued'
    BY DEF CodesIssued
  <2>3. SpentCodeGone'
    BY DEF SpentCodeGone, CodesIssued
  <2>4. VerifiedHasProof'
    BY DEF VerifiedHasProof
  <2> QED
    BY <2>1, <2>2, <2>3, <2>4
<1>12. ASSUME NEW v \in Voters, ConsumeCode(v) PROVE CodeInv'
  <2> USE <1>12 DEF ConsumeCode, TypeOK, attempt, For, VoterRow, Codes
  <2>1. Unanswered' /\ AcceptedIsCode'
    BY DEF Unanswered, AcceptedIsCode
  <2>2. CodesIssued'
    BY DEF CodesIssued
  <2>3. SpentCodeGone'
    BY DEF SpentCodeGone, AcceptedIsCode
  <2>4. VerifiedHasProof'
    BY DEF VerifiedHasProof
  <2> QED
    BY <2>1, <2>2, <2>3, <2>4
<1>13. ASSUME Tick \/ UNCHANGED vars PROVE CodeInv'
  BY <1>13 DEF Tick, vars, attempt, Unanswered, CodesIssued, AcceptedIsCode, SpentCodeGone,
     VerifiedHasProof, For
<1> QED
  BY <1>1, <1>2, <1>3, <1>4, <1>5, <1>6, <1>7, <1>8, <1>9, <1>10, <1>11, <1>12, <1>13
  DEF Next, Step

-------------------------------------------------------------------------------
(* Counts *)

\* A step that changes no row and answers no attempt.
LEMMA CountMoves ==
    ASSUME TypeOK, CountInv, NEW a \in Attempts, NEW step \in Steps \ {"raise"},
           Goto(a, step), UNCHANGED <<lockout, seen>>
    PROVE  CountInv'
<1>1. \A v \in Voters : Failures(v)' = Failures(v)
  BY SameFailures DEF Goto
<1>2. LockWithFullCount'
  BY DEF CountInv, LockWithFullCount
<1>3. CountsHaveCause'
  BY <1>1 DEF CountInv, CountsHaveCause, Goto, TypeOK, For
<1> QED
  BY <1>2, <1>3 DEF CountInv

\* An answer only adds failures; the row it writes, if any, has to be one of the
\* counts the invariant allows.
LEMMA CountAnswers ==
    ASSUME TypeOK, Unanswered, CountInv, NEW a \in Attempts, pc[a] # "done",
           NEW s \in {200, 401, 429, 500}, Finish(a, s),
           lockout' \in [Voters -> LockRow \union {NoRow}],
           \A v \in Voters : lockout'[v] # lockout[v] =>
                /\ v = For(a) /\ s = 401
                /\ lockout'[v].fails <= Cardinality(Failures(v)) + 1
                /\ lockout'[v].fails <= MaxFailures
                /\ lockout'[v].until # 0 => lockout'[v].fails = MaxFailures
                /\ MaxFailures > 1 /\ lockout'[v].fails = MaxFailures
                        => lockout'[v].until # 0
    PROVE  CountInv'
<1>1. ASSUME NEW v \in Voters
      PROVE  /\ Cardinality(Failures(v)) \in Nat
             /\ Cardinality(Failures(v)') \in Nat
             /\ Cardinality(Failures(v)) <= Cardinality(Failures(v)')
             /\ s = 401 /\ v = For(a) =>
                    Cardinality(Failures(v)') = Cardinality(Failures(v)) + 1
  BY FailuresFinite, FinishCounts
<1>2. LockWithFullCount'
  BY DEF CountInv, LockWithFullCount
<1>3. ASSUME NEW v \in Voters, lockout'[v] # NoRow
      PROVE  lockout'[v].fails <= Cardinality(Failures(v)')
  <2>1. lockout'[v].fails \in Nat
    BY <1>3 DEF LockRow
  <2>2. CASE lockout'[v] = lockout[v]
    BY <1>1, <1>3, <2>1, <2>2 DEF CountInv, CountsHaveCause
  <2>3. CASE lockout'[v] # lockout[v]
    BY <1>1, <2>3
  <2> QED
    BY <2>2, <2>3
<1>4. ASSUME NEW b \in Attempts, pc'[b] = "raise"
      PROVE  (seen[b].fails <= Cardinality(Failures(For(b))))'
  <2>1. b # a /\ pc[b] = "raise" /\ seen'[b] = seen[b] /\ guess' = guess
    BY <1>4 DEF Finish, TypeOK
  <2>2. For(b) \in Voters /\ For(b)' = For(b) /\ seen[b].fails \in Nat
    BY <2>1 DEF For, TypeOK
  <2>3. PICK v \in Voters : v = For(b)
    BY <2>2
  <2>4. Failures(For(b)) = Failures(v) /\ Failures(For(b))' = Failures(v)'
    BY <2>2, <2>3 DEF Failures
  <2>5. seen[b].fails <= Cardinality(Failures(v))
    BY <2>1, <2>3, <2>4 DEF CountInv, CountsHaveCause
  <2>6. seen'[b].fails <= Cardinality(Failures(v)')
    BY <1>1, <2>1, <2>2, <2>5
  <2> QED
    BY <2>4, <2>6
<1>5. CountsHaveCause'
  BY <1>3, <1>4 DEF CountsHaveCause
<1> QED
  BY <1>2, <1>5 DEF CountInv

\* Every step keeps what the invariant says of counts.
LEMMA CountStep == IInv /\ [Next]_vars => CountInv'
<1> SUFFICES ASSUME IInv, [Next]_vars PROVE CountInv'
  OBVIOUS
<1> USE DEF IInv
<1>0. TypeOK' /\ Unanswered
  BY TypeStep DEF CodeInv
<1>1. ASSUME NEW a \in Attempts, Submit(a) PROVE CountInv'
  <2>1. result[a] = 0 /\ result' = result
    BY <1>0, <1>1 DEF Submit, Unanswered
  <2>2. ASSUME NEW b \in Attempts, b # a PROVE For(b)' = For(b)
    BY <1>1, <2>2 DEF Submit, TypeOK, For
  <2>3. ASSUME NEW v \in Voters PROVE Failures(v)' = Failures(v)
    BY <2>1, <2>2 DEF Failures
  <2>4. LockWithFullCount'
    BY <1>1 DEF Submit, CountInv, LockWithFullCount
  <2>5. ASSUME NEW b \in Attempts, pc'[b] = "raise"
        PROVE  (seen[b].fails <= Cardinality(Failures(For(b))))'
    <3>1. b # a /\ pc[b] = "raise" /\ seen' = seen
      BY <1>1, <2>5 DEF Submit, TypeOK
    <3>2. PICK v \in Voters : v = For(b)
      BY DEF TypeOK, For
    <3>3. Failures(For(b)) = Failures(v) /\ Failures(For(b))' = Failures(v)'
      BY <2>2, <3>1, <3>2 DEF Failures
    <3> QED
      BY <2>3, <3>1, <3>2, <3>3 DEF CountInv, CountsHaveCause
  <2>6. CountsHaveCause'
    BY <1>1, <2>3, <2>5 DEF Submit, CountInv, CountsHaveCause
  <2> QED
    BY <2>4, <2>6 DEF CountInv
<1>2. ASSUME NEW a \in Attempts, ReadLock(a) PROVE CountInv'
  <2>1. CASE Finish(a, 429)
    BY <1>0, <1>2, <2>1, CountAnswers DEF ReadLock, TypeOK
  <2>2. CASE (Goto(a, "unlock") \/ Goto(a, "check")) /\ UNCHANGED seen
    BY <1>2, <2>2, CountMoves DEF ReadLock, Steps
  <2> QED
    BY <1>2, <2>1, <2>2 DEF ReadLock
<1>3. ASSUME NEW a \in Attempts, ClearExpired(a) PROVE CountInv'
  <2>1. CASE UNCHANGED lockout
    BY <1>3, <2>1, CountMoves DEF ClearExpired, Steps
  <2>2. CASE lockout' = [lockout EXCEPT ![For(a)] =
                            IF @ = NoRow THEN NoRow ELSE [fails |-> 0, until |-> 0]]
    <3>1. \A v \in Voters : Failures(v)' = Failures(v)
      BY <1>3, SameFailures DEF ClearExpired, Goto
    <3>2. \A v \in Voters : \/ lockout'[v] = lockout[v]
                            \/ lockout'[v] = [fails |-> 0, until |-> 0]
      BY <2>2 DEF TypeOK
    <3>3. LockWithFullCount'
      BY <3>2, AuthAssumption DEF CountInv, LockWithFullCount
    <3>4. CountsHaveCause'
      <4>1. \A v \in Voters : 0 <= Cardinality(Failures(v))
        BY FailuresFinite
      <4>2. \A b \in Attempts : pc'[b] = "raise" =>
                pc[b] = "raise" /\ seen' = seen /\ guess' = guess
        BY <1>3 DEF ClearExpired, Goto, TypeOK
      <4> QED
        BY <3>1, <3>2, <4>1, <4>2 DEF CountInv, CountsHaveCause, For, TypeOK
    <3> QED
      BY <3>3, <3>4 DEF CountInv
  <2> QED
    BY <1>3, <2>1, <2>2 DEF ClearExpired
<1>4. ASSUME NEW a \in Attempts, CheckCode(a) PROVE CountInv'
  BY <1>4, CountMoves DEF CheckCode, Steps, Passed
<1>5. ASSUME NEW a \in Attempts, CountFailure(a) PROVE CountInv'
  <2>1. CASE Finish(a, 401)
    BY <1>0, <1>5, <2>1, CountAnswers DEF CountFailure, TypeOK
  <2>2. CASE Goto(a, "insert") /\ UNCHANGED seen
    BY <1>5, <2>2, CountMoves DEF CountFailure, Steps
  <2>3. CASE /\ lockout[For(a)] # NoRow
             /\ seen' = [seen EXCEPT ![a] = [fails |-> lockout[For(a)].fails, at |-> now]]
             /\ Goto(a, "raise")
    <3>1. \A v \in Voters : Failures(v)' = Failures(v)
      BY <2>3, SameFailures DEF Goto
    <3>2. LockWithFullCount'
      BY <1>5 DEF CountFailure, CountInv, LockWithFullCount
    <3>3. ASSUME NEW b \in Attempts, pc'[b] = "raise"
          PROVE  seen'[b].fails <= Cardinality(Failures(For(b)))
      <4>1. CASE b = a
        BY <2>3, <4>1 DEF CountInv, CountsHaveCause, TypeOK, For
      <4>2. CASE b # a
        BY <2>3, <3>3, <4>2 DEF CountInv, CountsHaveCause, TypeOK, Goto
      <4> QED
        BY <4>1, <4>2
    <3>4. CountsHaveCause'
      BY <1>5, <2>3, <3>1, <3>3 DEF CountFailure, CountInv, CountsHaveCause, Goto, For,
         TypeOK
    <3> QED
      BY <3>2, <3>4 DEF CountInv
  <2> QED
    BY <1>5, <2>1, <2>2, <2>3 DEF CountFailure
<1>6. ASSUME NEW a \in Attempts, InsertFailure(a) PROVE CountInv'
  <2>1. Finish(a, 401) /\ pc[a] # "done"
    BY <1>6 DEF InsertFailure, Recorded
  <2>2. ASSUME NEW v \in Voters, lockout'[v] # lockout[v]
        PROVE  v = For(a) /\ lockout'[v] = [fails |-> 1, until |-> 0]
    BY <1>6, <2>2 DEF InsertFailure, TypeOK
  <2>3. \A v \in Voters : 1 <= Cardinality(Failures(v)) + 1
    BY FailuresFinite
  <2>4. lockout' \in [Voters -> LockRow \union {NoRow}]
    BY <1>0 DEF TypeOK
  <2> QED
    BY <1>0, <2>1, <2>2, <2>3, <2>4, CountAnswers, AuthAssumption
<1>7. ASSUME NEW a \in Attempts, RaiseFailure(a) PROVE CountInv'
  <2>1. Finish(a, 401) /\ pc[a] = "raise"
    BY <1>7 DEF RaiseFailure, Recorded
  <2>2. ASSUME NEW v \in Voters, lockout'[v] # lockout[v]
        PROVE  v = For(a) /\ lockout'[v] = Raised(seen[a])
    BY <1>7, <2>2 DEF RaiseFailure, TypeOK
  <2>3. PICK v \in Voters : v = For(a)
    BY DEF TypeOK, For
  <2>4. seen[a].fails <= Cardinality(Failures(v)) /\ seen[a] \in [fails: Nat, at: Nat]
    BY <2>1, <2>3 DEF CountInv, CountsHaveCause, TypeOK
  <2>5. /\ Raised(seen[a]).fails <= Cardinality(Failures(v)) + 1
        /\ Raised(seen[a]).fails <= MaxFailures
        /\ Raised(seen[a]).until # 0 => Raised(seen[a]).fails = MaxFailures
        /\ Raised(seen[a]).fails = MaxFailures => Raised(seen[a]).until # 0
    BY <2>4, FailuresFinite, AuthAssumption DEF Raised
  <2>6. lockout' \in [Voters -> LockRow \union {NoRow}]
    BY <1>0 DEF TypeOK
  <2> QED
    BY <1>0, <2>1, <2>2, <2>3, <2>5, <2>6, CountAnswers
<1>8. ASSUME NEW a \in Attempts, ClearFailures(a) PROVE CountInv'
  <2>1. CASE UNCHANGED lockout
    BY <1>8, <2>1, CountMoves DEF ClearFailures, Steps, Passed
  <2>2. CASE lockout' = [lockout EXCEPT ![For(a)] = NoRow]
    <3>1. \A v \in Voters : Failures(v)' = Failures(v)
      BY <1>8, SameFailures DEF ClearFailures, Goto
    <3>2. \A v \in Voters : lockout'[v] = lockout[v] \/ lockout'[v] = NoRow
      BY <2>2 DEF TypeOK
    <3>3. LockWithFullCount'
      BY <3>2 DEF CountInv, LockWithFullCount
    <3>4. CountsHaveCause'
      <4>1. \A b \in Attempts : pc'[b] = "raise" =>
                pc[b] = "raise" /\ seen' = seen /\ guess' = guess
        BY <1>8 DEF ClearFailures, Goto, TypeOK
      <4> QED
        BY <3>1, <3>2, <4>1 DEF CountInv, CountsHaveCause, For, TypeOK
    <3> QED
      BY <3>3, <3>4 DEF CountInv
  <2> QED
    BY <1>8, <2>1, <2>2 DEF ClearFailures
<1>9. ASSUME NEW a \in Attempts, MarkVerified(a) PROVE CountInv'
  <2>1. pc[a] # "done" /\ UNCHANGED lockout /\ (Finish(a, 200) \/ Finish(a, 500))
    BY <1>9 DEF MarkVerified
  <2>2. lockout' \in [Voters -> LockRow \union {NoRow}]
    BY <1>0 DEF TypeOK
  <2> QED
    BY <1>0, <2>1, <2>2, CountAnswers
<1>10. ASSUME NEW a \in Attempts, Crash(a) PROVE CountInv'
  <2>1. \A v \in Voters : Failures(v)' = Failures(v)
    BY <1>10, SameFailures DEF Crash, Goto
  <2>2. LockWithFullCount'
    BY <1>10 DEF Crash, CountInv, LockWithFullCount
  <2>3. \A b \in Attempts : pc'[b] = "raise" =>
            pc[b] = "raise" /\ seen'[b] = seen[b] /\ guess' = guess
    BY <1>10 DEF Crash, Goto, TypeOK
  <2>4. CountsHaveCause'
    BY <1>10, <2>1, <2>3 DEF Crash, CountInv, CountsHaveCause, For, TypeOK
  <2> QED
    BY <2>2, <2>4 DEF CountInv
<1>11. ASSUME UNCHANGED <<lockout, attempt>> PROVE CountInv'
  <2>1. \A v \in Voters : Failures(v)' = Failures(v)
    BY <1>11, SameFailures DEF attempt
  <2>2. LockWithFullCount'
    BY <1>11 DEF CountInv, LockWithFullCount
  <2>3. CountsHaveCause'
    BY <1>11, <2>1 DEF attempt, CountInv, CountsHaveCause, For, TypeOK
  <2> QED
    BY <2>2, <2>3 DEF CountInv
<1>12. ASSUME NEW v \in Voters, RequestPasscode(v) \/ ConsumeCode(v) PROVE CountInv'
  BY <1>11, <1>12 DEF RequestPasscode, ConsumeCode
<1>13. ASSUME Tick \/ UNCHANGED vars PROVE CountInv'
  BY <1>11, <1>13 DEF Tick, vars, attempt
<1> QED
  BY <1>1, <1>2, <1>3, <1>4, <1>5, <1>6, <1>7, <1>8, <1>9, <1>10, <1>12, <1>13
  DEF Next, Step

-------------------------------------------------------------------------------
(* Theorems *)

\* The invariant behind the theorems below: counts in the table and on their way to
\* it are counts of failed attempts, and accepted codes are codes that were issued.
THEOREM Invariance == Spec => []IInv
<1>1. IInv /\ [Next]_vars => IInv'
  BY TypeStep, CodeStep, CountStep DEF IInv
<1> QED
  BY InitInv, <1>1, PTL DEF Spec

\* Every reachable state is well typed.
THEOREM TypeCorrect == Spec => []TypeOK
<1>1. IInv => TypeOK
  BY DEF IInv
<1> QED
  BY Invariance, <1>1, PTL

\* A lock goes with a full count; a full count goes with a lock if the threshold is above
\* one (with a threshold of one RecordFailure inserts a full count without a lock).
THEOREM LocksAreConsistent == Spec => []LockWithFullCount
<1>1. IInv => LockWithFullCount
  BY DEF IInv, CountInv
<1> QED
  BY Invariance, <1>1, PTL

\* No voter is locked before MaxFailures attempts for that voter have failed.
THEOREM LocksAreEarned == Spec => []LockHasCause
<1>1. ASSUME IInv, NEW v \in Voters, LockSet(v)
      PROVE  Cardinality({a \in Attempts : For(a) = v /\ result[a] = 401}) >= MaxFailures
  <2>1. lockout[v] # NoRow /\ lockout[v].fails = MaxFailures
    BY <1>1 DEF LockSet, IInv, CountInv, LockWithFullCount
  <2>2. MaxFailures <= Cardinality(Failures(v))
    BY <1>1, <2>1 DEF IInv, CountInv, CountsHaveCause
  <2> QED
    BY <2>2, FailuresFinite, AuthAssumption DEF Failures
<1>2. IInv => LockHasCause
  BY <1>1 DEF LockHasCause
<1> QED
  BY Invariance, <1>2, PTL

\* A code that an attempt was told is right is out of the table for good.
THEOREM CodesAreSpent == Spec => []SpentCodeGone
<1>1. IInv => SpentCodeGone
  BY DEF IInv, CodeInv
<1> QED
  BY Invariance, <1>1, PTL

\* A voter is marked verified only after a successful attempt for that voter.
THEOREM VerifiedIsProven == Spec => []VerifiedHasProof
<1>1. IInv => VerifiedHasProof
  BY DEF IInv, CodeInv
<1> QED
  BY Invariance, <1>1, PTL
-------------------------------------------------------------------------------
(* Passcodes are one-time codes *)

\* An attempt that goes nowhere near a success.
LEMMA Elsewhere ==
    ASSUME TypeOK, NEW a \in Attempts, pc[a] \notin Passed, pc'[a] \notin Passed,
           UNCHANGED <<guess, voters, issued, now>>,
           \A b \in Attempts \ {a} : pc'[b] = pc[b] /\ result'[b] = result[b],
           result'[a] = 200 <=> result[a] = 200
    PROVE  UNCHANGED <<Live, issued, Checked, Granted>>
<1>1. Live' = Live
  BY DEF Live, LiveCode
<1>2. \A b \in Attempts : /\ Pair(b)' = Pair(b)
                          /\ pc'[b] \in Passed <=> pc[b] \in Passed
                          /\ result'[b] = 200 <=> result[b] = 200
  BY DEF Pair, For
<1>3. Checked' = Checked
  BY <1>2 DEF Checked
<1>4. Granted' = Granted
  BY <1>2 DEF Granted
<1> QED
  BY <1>1, <1>3, <1>4

\* One that leaves without it gives up, unless another has found the same code right.
LEMMA Leaves ==
    ASSUME TypeOK, NEW a \in Attempts, pc[a] \in Passed, pc'[a] \notin Passed,
           guess' = guess,
           \A b \in Attempts \ {a} : pc'[b] = pc[b]
    PROVE  Checked' \in {Checked, Checked \ {Pair(a)}} /\ Pair(a) \in Checked
<1>1. \A b \in Attempts : Pair(b)' = Pair(b)
  BY DEF Pair, For
<1>2. Checked' \subseteq Checked /\ Checked \ {Pair(a)} \subseteq Checked'
  BY <1>1 DEF Checked
<1>3. Pair(a) \in Checked
  BY DEF Checked
<1> QED
  BY <1>2, <1>3

LEMMA OneTimeStep ==
    ASSUME IInv, [Next]_vars
    PROVE  [OneTime!Next]_OneTime!vars
<1>0. TypeOK /\ CodeInv /\ issued \in Nat
  BY DEF IInv, TypeOK, Codes
<1>s. CASE UNCHANGED <<Live, issued, Checked, Granted>>
  BY <1>s DEF OneTime!vars
<1>w. ASSUME NEW S \in SUBSET Voters, UNCHANGED <<issued, Checked, Granted>>,
             Live' = [v \in Voters |-> IF v \in S THEN 0 ELSE Live[v]]
      PROVE  OneTime!Next
  BY <1>w DEF OneTime!Next, OneTime!Withdraw
<1>p. ASSUME NEW a \in Attempts, pc[a] \in Passed
      PROVE  guess[a].code \in 1..issued /\ For(a) \in Voters
  BY <1>0, <1>p DEF TypeOK, CodeInv, CodesIssued, AcceptedIsCode, For, Codes
<1>1. ASSUME NEW a \in Attempts, Submit(a)
      PROVE  UNCHANGED <<Live, issued, Checked, Granted>>
  <2>1. /\ pc[a] = "idle" /\ pc'[a] = "lock" /\ result[a] = 0
        /\ UNCHANGED <<issued, voters, now, result>>
        /\ \A b \in Attempts \ {a} : pc'[b] = pc[b] /\ guess'[b] = guess[b]
    BY <1>0, <1>1 DEF Submit, TypeOK, CodeInv, Unanswered
  <2>2. Live' = Live
    BY <2>1 DEF Live, LiveCode
  <2>3. \A b \in Attempts \ {a} : Pair(b)' = Pair(b)
    BY <2>1 DEF Pair, For
  <2>4. Checked' = Checked
    BY <2>1, <2>3 DEF Checked, Passed
  <2>5. Granted' = Granted
    BY <2>1, <2>3 DEF Granted
  <2> QED
    BY <2>1, <2>2, <2>4, <2>5
<1>2. ASSUME NEW a \in Attempts,
             \/ ReadLock(a) \/ ClearExpired(a)
             \/ CountFailure(a) \/ InsertFailure(a) \/ RaiseFailure(a)
      PROVE  UNCHANGED <<Live, issued, Checked, Granted>>
  <2>1. /\ pc[a] \notin Passed /\ pc[a] # "done" /\ UNCHANGED <<voters, issued, now>>
        /\ \/ \E step \in Steps \ (Passed \union {"done"}) : Goto(a, step)
           \/ \E s \in {401, 429} : Finish(a, s)
    BY <1>2 DEF ReadLock, ClearExpired, CountFailure, InsertFailure, RaiseFailure,
       Recorded, Steps, Passed
  <2>2. /\ pc'[a] \notin Passed /\ guess' = guess
        /\ \A b \in Attempts \ {a} : pc'[b] = pc[b] /\ result'[b] = result[b]
        /\ result'[a] = 200 <=> result[a] = 200
    BY <1>0, <2>1 DEF Goto, Finish, TypeOK, Passed, CodeInv, Unanswered
  <2> QED
    BY <1>0, <2>1, <2>2, Elsewhere
<1>3. ASSUME NEW a \in Attempts, CheckCode(a)
      PROVE  [OneTime!Next]_OneTime!vars
  <2>1. /\ pc[a] = "check" /\ UNCHANGED <<now, issued, voters, guess, result>>
        /\ \A b \in Attempts \ {a} : pc'[b] = pc[b]
    BY <1>0, <1>3 DEF CheckCode, Goto, TypeOK
  <2>2. CASE Goto(a, "count")
    <3>1. pc'[a] = "count"
      BY <1>0, <2>2 DEF Goto, TypeOK
    <3> QED
      BY <1>0, <1>s, <2>1, <3>1, Elsewhere DEF Passed
  <2>3. CASE CodeMatches(a) /\ Goto(a, "clear")
    <3>1. pc'[a] = "clear"
      BY <1>0, <2>3 DEF Goto, TypeOK
    <3>2. For(a) \in Voters /\ Live[For(a)] = guess[a].code /\ guess[a].code # 0
      BY <1>0, <2>3 DEF CodeMatches, Live, LiveCode, For, TypeOK
    <3>3. \A b \in Attempts : Pair(b)' = Pair(b)
      BY <2>1 DEF Pair, For
    <3>4. Checked' = Checked \union {<<For(a), Live[For(a)]>>}
      BY <2>1, <3>1, <3>2, <3>3 DEF Checked, Passed, Pair
    <3>5. Live' = Live /\ Granted' = Granted
      BY <2>1, <3>3 DEF Live, LiveCode, Granted
    <3> QED
      BY <2>1, <3>2, <3>4, <3>5 DEF OneTime!Next, OneTime!Check
  <2> QED
    BY <1>3, <2>2, <2>3 DEF CheckCode
<1>4. ASSUME NEW a \in Attempts, ClearFailures(a)
      PROVE  UNCHANGED <<Live, issued, Checked, Granted>>
  <2>1. /\ pc[a] = "clear" /\ pc'[a] = "mark"
        /\ UNCHANGED <<now, issued, voters, guess, result>>
        /\ \A b \in Attempts \ {a} : pc'[b] = pc[b]
    BY <1>0, <1>4 DEF ClearFailures, Goto, TypeOK
  <2>2. \A b \in Attempts : Pair(b)' = Pair(b) /\ (pc'[b] \in Passed <=> pc[b] \in Passed)
    BY <2>1 DEF Pair, For, Passed
  <2> QED
    BY <2>1, <2>2 DEF Live, LiveCode, Checked, Granted
<1>5. ASSUME NEW a \in Attempts, MarkVerified(a)
      PROVE  [OneTime!Next]_OneTime!vars
  <2>1. /\ pc[a] \in Passed /\ pc'[a] \notin Passed
        /\ UNCHANGED <<now, issued, guess>> /\ result[a] = 0
        /\ \A b \in Attempts \ {a} : pc'[b] = pc[b] /\ result'[b] = result[b]
    BY <1>0, <1>5 DEF MarkVerified, Finish, TypeOK, Passed, CodeInv, Unanswered
  <2>2. Checked' \in {Checked, Checked \ {Pair(a)}} /\ Pair(a) \in Checked
    BY <1>0, <2>1, Leaves
  <2>3. guess[a].code \in 1..issued /\ For(a) \in Voters
    BY <1>p, <2>1
  <2>4. \A b \in Attempts : Pair(b)' = Pair(b)
    BY <2>1 DEF Pair, For
  <2>5. CASE Finish(a, 200) /\ voters' = [voters EXCEPT ![For(a)] =
                    [code |-> 0, expires |-> 0, used |-> TRUE, verified |-> TRUE]]
    <3>1. result'[a] = 200
      BY <1>0, <2>5 DEF Finish, TypeOK
    <3>2. Granted' = Granted \union {Pair(a)}
      BY <2>1, <2>4, <3>1 DEF Granted
    <3>3. /\ voters'[For(a)].used
          /\ \A v \in Voters \ {For(a)} : voters'[v] = voters[v]
      BY <1>0, <2>3, <2>5 DEF TypeOK
    <3>4. Live' = [Live EXCEPT ![For(a)] = 0]
      BY <2>1, <2>3, <3>3 DEF Live, LiveCode
    <3> QED
      BY <2>1, <2>2, <2>3, <3>2, <3>4 DEF OneTime!Next, OneTime!Grant, Pair
  <2>6. CASE Finish(a, 500) /\ UNCHANGED voters
    <3>1. result'[a] = 500
      BY <1>0, <2>6 DEF Finish, TypeOK
    <3>2. Granted' = Granted
      BY <2>1, <2>4, <3>1 DEF Granted
    <3>3. Live' = Live
      BY <2>1, <2>6 DEF Live, LiveCode
    <3> QED
      BY <1>s, <2>1, <2>2, <2>3, <3>2, <3>3 DEF OneTime!Next, OneTime!GiveUp, Pair
  <2> QED
    BY <1>5, <2>5, <2>6 DEF MarkVerified
<1>6. ASSUME NEW a \in Attempts, Crash(a)
      PROVE  [OneTime!Next]_OneTime!vars
  <2>1. /\ pc'[a] = "lost" /\ UNCHANGED <<now, issued, voters, guess, result>>
        /\ \A b \in Attempts \ {a} : pc'[b] = pc[b]
    BY <1>0, <1>6 DEF Crash, Goto, TypeOK
  <2>2. CASE pc[a] \notin Passed
    BY <1>0, <1>s, <2>1, <2>2, Elsewhere DEF Passed
  <2>3. CASE pc[a] \in Passed
    <3>1. Checked' \in {Checked, Checked \ {Pair(a)}}
      BY <1>0, <2>1, <2>3, Leaves DEF Passed
    <3>2. guess[a].code \in 1..issued /\ For(a) \in Voters
      BY <1>p, <2>3
    <3>3. Granted' = Granted /\ Live' = Live
      BY <2>1 DEF Granted, Pair, For, Live, LiveCode
    <3> QED
      BY <1>s, <2>1, <3>1, <3>2, <3>3 DEF OneTime!Next, OneTime!GiveUp, Pair
  <2> QED
    BY <2>2, <2>3
<1>7. ASSUME NEW v \in Voters, RequestPasscode(v)
      PROVE  OneTime!Next
  <2>1. /\ issued' = issued + 1 /\ UNCHANGED <<now, pc, guess, result>>
        /\ voters' = [voters EXCEPT ![v] = [code |-> issued + 1, expires |-> now + CodeTime,
                                            used |-> FALSE, verified |-> FALSE]]
    BY <1>7 DEF RequestPasscode, attempt
  <2>2. now < now + CodeTime
    BY <1>0, AuthAssumption DEF TypeOK
  <2>3. LiveCode(v)' = issued + 1 /\ \A w \in Voters \ {v} : LiveCode(w)' = LiveCode(w)
    BY <1>0, <2>1, <2>2 DEF LiveCode, TypeOK
  <2>4. Live' = [Live EXCEPT ![v] = issued + 1]
    BY <2>3 DEF Live
  <2>5. Checked' = Checked /\ Granted' = Granted
    BY <2>1 DEF Checked, Granted, Pair, For
  <2> QED
    BY <2>1, <2>4, <2>5 DEF OneTime!Next, OneTime!Issue
<1>8. ASSUME NEW v \in Voters, ConsumeCode(v)
      PROVE  OneTime!Next
  <2>1. /\ UNCHANGED <<now, issued, pc, guess, result>>
        /\ voters' = [voters EXCEPT ![v] = [@ EXCEPT !.code = 0, !.used = TRUE]]
    BY <1>8 DEF ConsumeCode, attempt
  <2>2. LiveCode(v)' = 0 /\ \A w \in Voters \ {v} : LiveCode(w)' = LiveCode(w)
    BY <1>0, <2>1 DEF LiveCode, TypeOK, VoterRow
  <2>3. Live' = [w \in Voters |-> IF w \in {v} THEN 0 ELSE Live[w]]
    BY <2>2 DEF Live
  <2>4. Checked' = Checked /\ Granted' = Granted
    BY <2>1 DEF Checked, Granted, Pair, For
  <2> QED
    BY <1>w, <2>1, <2>3, <2>4
<1>9. ASSUME Tick
      PROVE  OneTime!Next
  <2> DEFINE S == {v \in Voters : ~(now + 1 < voters[v].expires)}
  <2>1. now' = now + 1 /\ UNCHANGED <<issued, voters, pc, guess, result>>
    BY <1>9 DEF Tick, attempt
  <2>2. \A v \in Voters : LiveCode(v)' = IF v \in S THEN 0 ELSE LiveCode(v)
    <3>1. \A v \in Voters : now + 1 < voters[v].expires => now < voters[v].expires
      BY <1>0 DEF TypeOK, VoterRow
    <3> QED
      BY <2>1, <3>1 DEF LiveCode
  <2>3. Live' = [v \in Voters |-> IF v \in S THEN 0 ELSE Live[v]]
    BY <2>2 DEF Live
  <2>4. Checked' = Checked /\ Granted' = Granted
    BY <2>1 DEF Checked, Granted, Pair, For
  <2> QED
    BY <1>w, <2>1, <2>3, <2>4
<1>10. CASE UNCHANGED vars
  BY <1>s, <1>10 DEF vars, attempt, Live, LiveCode, Checked, Granted, Pair, For
<1> QED
  BY <1>s, <1>1, <1>2, <1>3, <1>4, <1>5, <1>6, <1>7, <1>8, <1>9, <1>10 DEF Next, Step

\* For any voters and attempts VoterAuth implements OneTimeCodes: no interleaving of
\* attempts, requests, votes and time lets anybody in without the voter's own live code.
THEOREM CodesAreOneTime == Spec => ImplementsOneTime
<1>1. Init => OneTime!Init
  <2> SUFFICES ASSUME Init
               PROVE  OneTime!Init
    OBVIOUS
  <2>1. Checked = {} /\ Granted = {}
    BY DEF Init, Checked, Granted, Passed
  <2>2. Live = [v \in Voters |-> 0]
    BY DEF Init, Live, LiveCode
  <2> QED
    BY <2>1, <2>2 DEF Init, OneTime!Init
<1>2. IInv /\ [Next]_vars => [OneTime!Next]_OneTime!vars
  BY OneTimeStep
<1> QED
  BY <1>1, <1>2, Invariance, PTL DEF Spec, ImplementsOneTime, OneTime!Spec

Sound == INSTANCE OneTimeCodesProofs WITH
    People <- Voters, live <- Live, checked <- Checked, granted <- Granted

\* What a passcode proves: two attempts that succeeded with one code were for one voter,
\* and no voter can be verified with it any more.
THEOREM CodesOfOneVoter == Spec => [](OneTime!UsedOnce /\ OneTime!OneOwner)
<1>1. OneTime!Init => Sound!Init
  BY DEF OneTime!Init, Sound!Init
<1>2. [OneTime!Next]_OneTime!vars => [Sound!Next]_Sound!vars
  BY DEF OneTime!Next, OneTime!Issue, OneTime!Check, OneTime!Grant, OneTime!GiveUp,
     OneTime!Withdraw, OneTime!vars, Sound!Next, Sound!Issue, Sound!Check, Sound!Grant,
     Sound!GiveUp, Sound!Withdraw, Sound!vars
<1>3. Sound!UsedOnce /\ Sound!OneOwner => OneTime!UsedOnce /\ OneTime!OneOwner
  BY DEF Sound!UsedOnce, Sound!OneOwner, OneTime!UsedOnce, OneTime!OneOwner
<1>4. Sound!Spec => [](Sound!UsedOnce /\ Sound!OneOwner)
  BY Sound!CodesAreSound
<1> QED
  BY <1>1, <1>2, <1>3, <1>4, CodesAreOneTime, PTL
  DEF ImplementsOneTime, OneTime!Spec, Sound!Spec
===============================================================================
