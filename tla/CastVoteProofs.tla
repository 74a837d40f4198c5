---------------------------- MODULE CastVoteProofs ----------------------------
(***************************************************************************)
(* Theorems about CastVote, for any set of voters, polls, requests and     *)
(* processes.  None of the safety properties is inductive: what a request  *)
(* found out before it took the write lock is only worth something because *)
(* of where the request stands, so the invariant below ties the steps to   *)
(* the lock, to the checks that were passed and to the rows stored.        *)
(***************************************************************************)
EXTENDS CastVote, FiniteSetTheorems, TLAPS

\* The steps a request reaches only after the poll has been found acceptable,
\* and those it reaches only after its answers have.
AfterPoll == {"answers", "conn", "begin"} \union InTransaction
AfterAnswers == {"conn", "begin"} \union InTransaction

\* The write lock is held by the one request that is inside its transaction.
LockMatchesStep ==
    \A r \in Requests : pc[r] \in InTransaction <=> writer = r

\* What the validating reads established, and time cannot undo.
ChecksHold ==
    \A r \in Requests :
        /\ pc[r] \in AfterPoll =>
              /\ job[r].poll \in Polls
              /\ FitsType(job[r].poll, job[r].answers)
              /\ OpensAt[job[r].poll] <= now
        /\ pc[r] \in AfterAnswers =>
              /\ AnswersExist(job[r].poll, job[r].answers)
              /\ OpensAt[job[r].poll] <= stamp[r]

\* A row was written by a request that has committed, and that answers 201 once
\* the audit row is out of the way.
RowsMatchRequests ==
    \A b \in votes :
        /\ b.poll = job[b.by].poll
        /\ b.voter = job[b.by].voter
        /\ b.answers = job[b.by].answers
        /\ pc[b.by] \in {"audit", "reply", "done", "lost"}
        /\ pc[b.by] \in {"reply", "done"} => reply[b.by] = 201

\* A request has no outcome before the step that decides it.
UndecidedBefore ==
    \A r \in Requests : pc[r] \notin {"reply", "done", "lost"} => reply[r] = 0

\* A request that has committed has its row.
CreatedHasRow ==
    \A r \in Requests : reply[r] = 201 \/ pc[r] = "audit"
                            => \E b \in votes : b.by = r

IInv ==
    /\ TypeOK
    /\ LockMatchesStep
    /\ ChecksHold
    /\ RowsMatchRequests
    /\ UndecidedBefore
    /\ CreatedHasRow
    /\ CheckedVoterStaysFree
    /\ ConflictIsTrue
    /\ OneVotePerVoter
    /\ StoredVotesLegal

-------------------------------------------------------------------------------
(* The invariant holds initially *)

\* Nothing is stored, locked or answered at the start.
LEMMA InitInv == Init => IInv
<1> SUFFICES ASSUME Init PROVE IInv
  OBVIOUS
<1>1. PICK v \in Voters, b \in Ballots : TRUE
  BY ConstantsAssumption
<1>2. [poll |-> NoPoll, voter |-> v, answers |-> b] \in Job
  BY DEF Job
<1>3. (CHOOSE j \in Job : TRUE) \in Job
  BY <1>2
<1>4. TypeOK
  BY <1>3, ConstantsAssumption DEF Init, TypeOK, VoterRow, Steps, Statuses
<1>5. LockMatchesStep
  BY ConstantsAssumption DEF Init, LockMatchesStep, InTransaction
<1>6. ChecksHold
  BY DEF Init, ChecksHold, AfterPoll, AfterAnswers, InTransaction
<1>7. RowsMatchRequests /\ UndecidedBefore /\ CreatedHasRow
  BY DEF Init, RowsMatchRequests, UndecidedBefore, CreatedHasRow
<1>8. CheckedVoterStaysFree /\ ConflictIsTrue /\ OneVotePerVoter /\ StoredVotesLegal
  BY DEF Init, CheckedVoterStaysFree, ConflictIsTrue, OneVotePerVoter, StoredVotesLegal
<1> QED
  BY <1>4, <1>5, <1>6, <1>7, <1>8 DEF IInv

-------------------------------------------------------------------------------
(* The invariant is preserved: first the shapes that steps share *)

Busy == Steps \ {"idle", "audit", "reply", "done", "lost"}

\* An early return keeps the invariant, if a 409 is said to a voter with a row.
LEMMA RefuseInv ==
    ASSUME IInv, NEW r \in Requests, pc[r] \in Busy,
           NEW s \in Statuses \ {201}, Refuse(r, s),
           s = 409 => \E b \in votes : b.poll = job[r].poll /\ b.voter = job[r].voter
    PROVE  IInv'
<1> USE DEF IInv, Refuse, Finish, Rollback, dbVars, Busy, Steps, InTransaction
<1>1. TypeOK'
  BY DEF TypeOK
<1>2. LockMatchesStep'
  BY ConstantsAssumption DEF TypeOK, LockMatchesStep
<1>3. ChecksHold'
  BY DEF TypeOK, ChecksHold, AfterPoll, AfterAnswers
<1>4. RowsMatchRequests'
  BY DEF TypeOK, RowsMatchRequests, VoteRow
<1>5. UndecidedBefore'
  BY DEF TypeOK, UndecidedBefore
<1>6. CreatedHasRow'
  BY DEF TypeOK, CreatedHasRow
<1>7. CheckedVoterStaysFree'
  BY DEF TypeOK, CheckedVoterStaysFree, Existing
<1>8. ConflictIsTrue'
  BY DEF TypeOK, ConflictIsTrue
<1>9. OneVotePerVoter' /\ StoredVotesLegal'
  BY DEF OneVotePerVoter, StoredVotesLegal
<1> QED
  BY <1>1, <1>2, <1>3, <1>4, <1>5, <1>6, <1>7, <1>8, <1>9

\* So does a step that only moves a request on, provided what the invariant says
\* of the step it moves to is already true.
LEMMA ProceedInv ==
    ASSUME IInv, NEW r \in Requests, pc[r] \in Busy,
           NEW step \in Busy, Proceed(r, step),
           step \in InTransaction <=> pc[r] \in InTransaction,
           step \in AfterPoll => /\ job[r].poll \in Polls
                                 /\ FitsType(job[r].poll, job[r].answers)
                                 /\ OpensAt[job[r].poll] <= now,
           step \in AfterAnswers => pc[r] \in AfterAnswers,
           step \in {"insert", "update", "commit"} => ~Existing(job[r].poll, job[r].voter)
    PROVE  IInv'
<1> USE DEF IInv, Proceed, Goto, dbVars, Busy, Steps, InTransaction
<1>1. TypeOK'
  BY DEF TypeOK
<1>2. LockMatchesStep'
  BY ConstantsAssumption DEF TypeOK, LockMatchesStep
<1>3. ChecksHold'
  BY DEF TypeOK, ChecksHold, AfterPoll, AfterAnswers
<1>4. RowsMatchRequests'
  BY DEF TypeOK, RowsMatchRequests, VoteRow
<1>5. UndecidedBefore'
  BY DEF TypeOK, UndecidedBefore
<1>6. CreatedHasRow'
  BY DEF TypeOK, CreatedHasRow
<1>7. CheckedVoterStaysFree'
  BY DEF TypeOK, CheckedVoterStaysFree, Existing
<1>8. ConflictIsTrue'
  BY DEF TypeOK, ConflictIsTrue
<1>9. OneVotePerVoter' /\ StoredVotesLegal'
  BY DEF OneVotePerVoter, StoredVotesLegal
<1> QED
  BY <1>1, <1>2, <1>3, <1>4, <1>5, <1>6, <1>7, <1>8, <1>9

\* So does whatever happens to voters alone.
LEMMA VotersInv ==
    ASSUME IInv, voters' \in [Voters -> VoterRow], verifying' \subseteq Voters,
           UNCHANGED <<now, votes, reqVars>>
    PROVE  IInv'
  BY DEF IInv, reqVars, TypeOK, LockMatchesStep, ChecksHold, RowsMatchRequests,
         UndecidedBefore, CreatedHasRow, CheckedVoterStaysFree, Existing,
         ConflictIsTrue, OneVotePerVoter, StoredVotesLegal

-------------------------------------------------------------------------------
(* The invariant is preserved: the steps that no shape covers *)

\* A call that begins holds no lock and has no row.
LEMMA StartInv == ASSUME IInv, NEW r \in Requests, Start(r) PROVE IInv'
<1> USE DEF IInv, Start, dbVars, Steps, InTransaction
<1>1. TypeOK'
  <2>1. PICK j \in Job : job' = [job EXCEPT ![r] = j]
    OBVIOUS
  <2>2. job' \in [Requests -> Job]
    BY <2>1 DEF TypeOK
  <2>3. pc' = [pc EXCEPT ![r] = "voter"] \/ pc' = [pc EXCEPT ![r] = "reply"]
    OBVIOUS
  <2>4. pc' \in [Requests -> Steps]
    BY <2>3 DEF TypeOK
  <2>5. reply' = reply \/ reply' = [reply EXCEPT ![r] = 400]
    OBVIOUS
  <2>6. reply \in [Requests -> Statuses] /\ 400 \in Statuses
    BY DEF TypeOK, Statuses
  <2>7. reply' \in [Requests -> Statuses]
    BY <2>5, <2>6
  <2> QED
    BY <2>2, <2>4, <2>7 DEF TypeOK
<1>2. LockMatchesStep' /\ UndecidedBefore'
  BY DEF TypeOK, LockMatchesStep, UndecidedBefore
<1>3. ChecksHold'
  BY DEF TypeOK, ChecksHold, AfterPoll, AfterAnswers
<1>4. \A b \in votes : b.by # r
  BY DEF RowsMatchRequests
<1>5. RowsMatchRequests' /\ CreatedHasRow'
  BY <1>4 DEF TypeOK, VoteRow, RowsMatchRequests, CreatedHasRow, UndecidedBefore
<1>6. CheckedVoterStaysFree'
  BY DEF TypeOK, CheckedVoterStaysFree, Existing
<1>7. ConflictIsTrue'
  <2>1. reply[r] = 0 /\ reply'[r] \in {0, 400}
    BY DEF UndecidedBefore, TypeOK
  <2>2. \A q \in Requests \ {r} : reply'[q] = reply[q] /\ job'[q] = job[q]
    BY DEF TypeOK
  <2> QED
    BY <2>1, <2>2 DEF ConflictIsTrue
<1>8. OneVotePerVoter' /\ StoredVotesLegal'
  BY DEF OneVotePerVoter, StoredVotesLegal
<1> QED
  BY <1>1, <1>2, <1>3, <1>5, <1>6, <1>7, <1>8

\* ReadAnswers, when all the answers exist.
LEMMA StampInv ==
    ASSUME IInv, NEW r \in Requests, pc[r] = "answers",
           AnswersExist(job[r].poll, job[r].answers),
           stamp' = [stamp EXCEPT ![r] = now],
           Goto(r, "conn"), UNCHANGED <<now, writer>>
    PROVE  IInv'
<1> USE DEF IInv, Goto, dbVars, Steps, InTransaction
<1>1. TypeOK'
  BY ConstantsAssumption DEF TypeOK
<1>2. LockMatchesStep' /\ UndecidedBefore'
  BY DEF TypeOK, LockMatchesStep, UndecidedBefore
<1>3. ChecksHold'
  BY DEF TypeOK, ChecksHold, AfterPoll, AfterAnswers
<1>4. RowsMatchRequests' /\ CreatedHasRow'
  BY DEF TypeOK, VoteRow, RowsMatchRequests, CreatedHasRow
<1>5. CheckedVoterStaysFree' /\ ConflictIsTrue'
  BY DEF TypeOK, CheckedVoterStaysFree, Existing, ConflictIsTrue
<1>6. OneVotePerVoter' /\ StoredVotesLegal'
  BY DEF OneVotePerVoter, StoredVotesLegal
<1> QED
  BY <1>1, <1>2, <1>3, <1>4, <1>5, <1>6

\* Begin, when the lock is free: no other request is inside its transaction.
LEMMA LockInv ==
    ASSUME IInv, NEW r \in Requests, pc[r] = "begin", WriteLockFree,
           writer' = r, Goto(r, "dup"), UNCHANGED <<now, stamp>>
    PROVE  IInv'
<1> USE DEF IInv, Goto, dbVars, Steps, InTransaction
<1>1. TypeOK'
  BY DEF TypeOK
<1>2. LockMatchesStep' /\ UndecidedBefore'
  BY ConstantsAssumption
     DEF TypeOK, LockMatchesStep, UndecidedBefore, WriteLockFree
<1>3. ChecksHold'
  BY DEF TypeOK, ChecksHold, AfterPoll, AfterAnswers
<1>4. RowsMatchRequests' /\ CreatedHasRow'
  BY DEF TypeOK, VoteRow, RowsMatchRequests, CreatedHasRow
<1>5. CheckedVoterStaysFree' /\ ConflictIsTrue'
  BY DEF TypeOK, CheckedVoterStaysFree, Existing, ConflictIsTrue
<1>6. OneVotePerVoter' /\ StoredVotesLegal'
  BY DEF OneVotePerVoter, StoredVotesLegal
<1> QED
  BY <1>1, <1>2, <1>3, <1>4, <1>5, <1>6

\* Commit, when it succeeds: the one step that stores a row.  The row is new
\* because the voter was found free under the lock, and no other request has a
\* check to lose because none but this one holds the lock.
LEMMA StoreInv ==
    ASSUME IInv, NEW r \in Requests, pc[r] = "commit",
           votes' = votes \union {RowOf(r)},
           voters' = [voters EXCEPT ![job[r].voter] = Consumed(@)],
           writer' = Nobody, pc' = [pc EXCEPT ![r] = "audit"],
           UNCHANGED <<now, verifying, job, stamp, reply>>
    PROVE  IInv'
<1> USE DEF IInv, Steps, InTransaction
<1>1. /\ writer = r
      /\ job[r].poll \in Polls
      /\ FitsType(job[r].poll, job[r].answers)
      /\ AnswersExist(job[r].poll, job[r].answers)
      /\ OpensAt[job[r].poll] <= stamp[r]
      /\ ~Existing(job[r].poll, job[r].voter)
  BY DEF LockMatchesStep, ChecksHold, AfterPoll, AfterAnswers,
         CheckedVoterStaysFree
<1>2. RowOf(r) \in VoteRow
  BY <1>1 DEF TypeOK, RowOf, VoteRow, Job
<1>3. TypeOK'
  <2>1. voters' \in [Voters -> VoterRow]
    BY DEF TypeOK, VoterRow, Consumed, Job
  <2> QED
    BY <1>2, <2>1 DEF TypeOK, Statuses
<1>4. LockMatchesStep' /\ UndecidedBefore'
  BY <1>1, ConstantsAssumption DEF TypeOK, LockMatchesStep, UndecidedBefore
<1>5. ChecksHold'
  BY DEF TypeOK, ChecksHold, AfterPoll, AfterAnswers
<1>6. RowsMatchRequests'
  BY DEF TypeOK, VoteRow, RowsMatchRequests, RowOf
<1>7. CreatedHasRow'
  <2>1. RowOf(r).by = r
    BY DEF RowOf
  <2>2. \A q \in Requests \ {r} : reply'[q] = reply[q]
    BY DEF TypeOK
  <2> QED
    BY <2>1, <2>2 DEF CreatedHasRow
<1>8. CheckedVoterStaysFree'
  BY <1>1 DEF TypeOK, CheckedVoterStaysFree, LockMatchesStep
<1>9. ConflictIsTrue'
  BY DEF TypeOK, ConflictIsTrue
<1>10. OneVotePerVoter'
  BY <1>1 DEF OneVotePerVoter, Existing, RowOf
<1>11. StoredVotesLegal'
  BY <1>1 DEF StoredVotesLegal, RowOf
<1> QED
  BY <1>3, <1>4, <1>5, <1>6, <1>7, <1>8, <1>9, <1>10, <1>11

\* The request past COMMIT answers 201, and has its row.
LEMMA AuditInv == ASSUME IInv, NEW r \in Requests, Audit(r) PROVE IInv'
<1> USE DEF IInv, Audit, Finish, dbVars, Steps, InTransaction
<1>1. TypeOK'
  BY DEF TypeOK, Statuses
<1>2. LockMatchesStep' /\ UndecidedBefore'
  BY DEF TypeOK, LockMatchesStep, UndecidedBefore
<1>3. ChecksHold'
  BY DEF TypeOK, ChecksHold, AfterPoll, AfterAnswers
<1>4. RowsMatchRequests' /\ CreatedHasRow'
  BY DEF TypeOK, VoteRow, RowsMatchRequests, CreatedHasRow
<1>5. CheckedVoterStaysFree' /\ ConflictIsTrue'
  BY DEF TypeOK, CheckedVoterStaysFree, Existing, ConflictIsTrue
<1>6. OneVotePerVoter' /\ StoredVotesLegal'
  BY DEF OneVotePerVoter, StoredVotesLegal
<1> QED
  BY <1>1, <1>2, <1>3, <1>4, <1>5, <1>6

\* Writing the response changes nothing the invariant looks at.
LEMMA RespondInv == ASSUME IInv, NEW r \in Requests, Respond(r) PROVE IInv'
<1> USE DEF IInv, Respond, dbVars, Steps, InTransaction
<1>1. TypeOK'
  BY DEF TypeOK
<1>2. LockMatchesStep' /\ UndecidedBefore'
  BY DEF TypeOK, LockMatchesStep, UndecidedBefore
<1>3. ChecksHold'
  BY DEF TypeOK, ChecksHold, AfterPoll, AfterAnswers
<1>4. RowsMatchRequests' /\ CreatedHasRow'
  BY DEF TypeOK, VoteRow, RowsMatchRequests, CreatedHasRow
<1>5. CheckedVoterStaysFree' /\ ConflictIsTrue'
  BY DEF TypeOK, CheckedVoterStaysFree, Existing, ConflictIsTrue
<1>6. OneVotePerVoter' /\ StoredVotesLegal'
  BY DEF OneVotePerVoter, StoredVotesLegal
<1> QED
  BY <1>1, <1>2, <1>3, <1>4, <1>5, <1>6

\* A crash gives back the lock of the process that dies, and no other.
LEMMA CrashInv == ASSUME IInv, NEW h \in Hosts, Crash(h) PROVE IInv'
<1> USE DEF IInv, Crash, InFlight, dbVars, Steps, InTransaction
<1>1. TypeOK'
  BY DEF TypeOK
<1>2. LockMatchesStep' /\ UndecidedBefore'
  BY ConstantsAssumption DEF TypeOK, LockMatchesStep, UndecidedBefore
<1>3. ChecksHold'
  BY DEF TypeOK, ChecksHold, AfterPoll, AfterAnswers
<1>4. RowsMatchRequests' /\ CreatedHasRow'
  BY DEF TypeOK, VoteRow, RowsMatchRequests, CreatedHasRow
<1>5. CheckedVoterStaysFree' /\ ConflictIsTrue'
  BY DEF TypeOK, CheckedVoterStaysFree, Existing, ConflictIsTrue
<1>6. OneVotePerVoter' /\ StoredVotesLegal'
  BY DEF OneVotePerVoter, StoredVotesLegal
<1> QED
  BY <1>1, <1>2, <1>3, <1>4, <1>5, <1>6

\* A poll that has opened stays opened.
LEMMA TickInv == ASSUME IInv, Tick PROVE IInv'
<1> USE DEF IInv, Tick, dbVars, reqVars
<1>1. now \in Nat /\ now + 1 \in 0..MaxTime
  BY ConstantsAssumption DEF TypeOK
<1>2. TypeOK'
  BY <1>1 DEF TypeOK
<1>3. ChecksHold'
  BY <1>1, ConstantsAssumption DEF TypeOK, ChecksHold
<1>4. (LockMatchesStep /\ RowsMatchRequests /\ UndecidedBefore /\ CreatedHasRow)'
  BY DEF LockMatchesStep, RowsMatchRequests, UndecidedBefore, CreatedHasRow
<1>5. (CheckedVoterStaysFree /\ ConflictIsTrue /\ OneVotePerVoter /\ StoredVotesLegal)'
  BY DEF CheckedVoterStaysFree, Existing, ConflictIsTrue, OneVotePerVoter,
         StoredVotesLegal
<1> QED
  BY <1>2, <1>3, <1>4, <1>5

-------------------------------------------------------------------------------
(* The theorems *)

\* Every statement of CastVote keeps the invariant.
LEMMA StepInv == ASSUME IInv, NEW r \in Requests, Step(r) PROVE IInv'
<1> USE DEF InTransaction, AfterPoll, AfterAnswers
<1>a. {400, 401, 404, 409, 410, 500} \subseteq Statuses \ {201}
  BY DEF Statuses
<1>b. {"voter", "poll", "answers", "conn", "begin", "dup", "insert", "update", "commit"}
        \subseteq Busy
  BY DEF Busy, Steps
<1>1. CASE ReadVoter(r)
  <2>1. CASE Refuse(r, 401)
    BY <1>1, <1>a, <1>b, <2>1, RefuseInv DEF ReadVoter
  <2>2. CASE Proceed(r, "poll")
    BY <1>1, <1>b, <2>2, ProceedInv DEF ReadVoter
  <2> QED
    BY <1>1, <2>1, <2>2 DEF ReadVoter
<1>2. CASE ReadPoll(r)
  <2>1. CASE \E s \in {400, 404, 410, 500} : Refuse(r, s)
    BY <1>2, <1>a, <1>b, <2>1, RefuseInv DEF ReadPoll
  <2>2. CASE /\ Proceed(r, "answers")
             /\ job[r].poll \in Polls
             /\ IsActive(job[r].poll)
             /\ FitsType(job[r].poll, job[r].answers)
    <3>1. OpensAt[job[r].poll] <= now
      BY <2>2 DEF IsActive
    <3> QED
      BY <1>2, <1>b, <2>2, <3>1, ProceedInv DEF ReadPoll
  <2> QED
    BY <1>2, <2>1, <2>2 DEF ReadPoll
<1>3. CASE ReadAnswers(r)
  <2>1. CASE \E s \in {400, 500} : Refuse(r, s)
    BY <1>3, <1>a, <1>b, <2>1, RefuseInv DEF ReadAnswers
  <2>2. CASE ~ \E s \in {400, 500} : Refuse(r, s)
    BY <1>3, <2>2, StampInv DEF ReadAnswers
  <2> QED
    BY <2>1, <2>2
<1>4. CASE Acquire(r)
  <2>1. CASE Refuse(r, 500)
    BY <1>4, <1>a, <1>b, <2>1, RefuseInv DEF Acquire
  <2>2. CASE Proceed(r, "begin")
    BY <1>4, <1>b, <2>2, ProceedInv DEF Acquire, IInv, ChecksHold
  <2> QED
    BY <1>4, <2>1, <2>2 DEF Acquire
<1>5. CASE Begin(r)
  BY <1>5, <1>a, <1>b, RefuseInv, LockInv DEF Begin
<1>6. CASE CheckDuplicate(r)
  <2>1. CASE Refuse(r, 500)
    BY <1>6, <1>a, <1>b, <2>1, RefuseInv DEF CheckDuplicate
  <2>2. CASE Existing(job[r].poll, job[r].voter) /\ Refuse(r, 409)
    BY <1>6, <1>a, <1>b, <2>2, RefuseInv DEF CheckDuplicate, Existing
  <2>3. CASE ~Existing(job[r].poll, job[r].voter) /\ Proceed(r, "insert")
    BY <1>6, <1>b, <2>3, ProceedInv DEF CheckDuplicate, IInv, ChecksHold
  <2> QED
    BY <1>6, <2>1, <2>2, <2>3 DEF CheckDuplicate
<1>7. CASE Insert(r)
  <2>1. CASE Refuse(r, 500)
    BY <1>7, <1>a, <1>b, <2>1, RefuseInv DEF Insert
  <2>2. CASE ~Existing(job[r].poll, job[r].voter) /\ Proceed(r, "update")
    BY <1>7, <1>b, <2>2, ProceedInv DEF Insert, IInv, ChecksHold
  <2> QED
    BY <1>7, <2>1, <2>2 DEF Insert
<1>8. CASE UpdateVoter(r)
  <2>1. CASE Refuse(r, 500)
    BY <1>8, <1>a, <1>b, <2>1, RefuseInv DEF UpdateVoter
  <2>2. CASE Proceed(r, "commit")
    BY <1>8, <1>b, <2>2, ProceedInv
       DEF UpdateVoter, IInv, ChecksHold, CheckedVoterStaysFree
  <2> QED
    BY <1>8, <2>1, <2>2 DEF UpdateVoter
<1>9. CASE Commit(r)
  BY <1>9, <1>a, <1>b, RefuseInv, StoreInv DEF Commit
<1>10. CASE Audit(r)
  BY <1>10, AuditInv
<1>11. CASE Respond(r)
  BY <1>11, RespondInv
<1> QED
  BY <1>1, <1>2, <1>3, <1>4, <1>5, <1>6, <1>7, <1>8, <1>9, <1>10, <1>11
     DEF Step

\* Every step of the system keeps the invariant.
LEMMA NextInv == ASSUME IInv, [Next]_vars PROVE IInv'
<1>1. ASSUME NEW v \in Voters,
             \/ RequestPasscode(v) \/ CheckCode(v)
             \/ MarkVerified(v) \/ AbandonVerify(v)
      PROVE  IInv'
  <2>1. voters' \in [Voters -> VoterRow] /\ verifying' \subseteq Voters
    <3> USE DEF IInv, TypeOK, VoterRow
    <3>1. CASE RequestPasscode(v)
      BY <3>1 DEF RequestPasscode
    <3>2. CASE CheckCode(v)
      BY <3>2 DEF CheckCode
    <3>3. CASE MarkVerified(v)
      BY <3>3 DEF MarkVerified
    <3>4. CASE AbandonVerify(v)
      BY <3>4 DEF AbandonVerify
    <3> QED
      BY <1>1, <3>1, <3>2, <3>3, <3>4
  <2>2. UNCHANGED <<now, votes, reqVars>>
    BY <1>1 DEF RequestPasscode, CheckCode, MarkVerified, AbandonVerify
  <2> QED
    BY <2>1, <2>2, VotersInv
<1>2. CASE UNCHANGED vars
  <2>1. voters' \in [Voters -> VoterRow] /\ verifying' \subseteq Voters
    BY <1>2 DEF vars, IInv, TypeOK
  <2> QED
    BY <1>2, <2>1, VotersInv DEF vars, reqVars
<1> QED
  BY <1>1, <1>2, StartInv, StepInv, CrashInv, TickInv DEF Next

\* IInv holds in every reachable state.
THEOREM Invariance == Spec => []IInv
<1>1. Init => IInv
  BY InitInv
<1>2. IInv /\ [Next]_vars => IInv'
  BY NextInv
<1> QED
  BY <1>1, <1>2, PTL DEF Spec

\* Every variable keeps its type, whatever the constants.
THEOREM TypeCorrect == Spec => []TypeOK
<1>1. IInv => TypeOK
  BY DEF IInv
<1> QED
  BY <1>1, Invariance, PTL

\* A voter has at most one vote per poll, however many requests, processes and
\* crashes there are: what UNIQUE (poll_id, voter_hash) and BEGIN IMMEDIATE are for.
THEOREM VoteOnce == Spec => []OneVotePerVoter
<1>1. IInv => OneVotePerVoter
  BY DEF IInv
<1> QED
  BY <1>1, Invariance, PTL

\* The duplicate check made under the write lock cannot go stale before COMMIT.
THEOREM CheckStaysTrue == Spec => []CheckedVoterStaysFree
<1>1. IInv => CheckedVoterStaysFree
  BY DEF IInv
<1> QED
  BY <1>1, Invariance, PTL

\* An answered request was answered 201 exactly when its row is stored.
THEOREM AnswersAreTrue == Spec => []AcceptedIffStored
<1>1. IInv => AcceptedIffStored
  BY DEF IInv, AcceptedIffStored, RowsMatchRequests, CreatedHasRow
<1> QED
  BY <1>1, Invariance, PTL

\* A 409 is only said to a voter who has a vote in that poll.
THEOREM ConflictsAreTrue == Spec => []ConflictIsTrue
<1>1. IInv => ConflictIsTrue
  BY DEF IInv
<1> QED
  BY <1>1, Invariance, PTL

\* Every stored vote can be counted and was cast after its poll opened, though
\* all of it is checked before the transaction begins.
THEOREM VotesLegal == Spec => []StoredVotesLegal
<1>1. IInv => StoredVotesLegal
  BY DEF IInv
<1> QED
  BY <1>1, Invariance, PTL

-------------------------------------------------------------------------------
(* What a step does to the table, and the ledger it implements *)

\* Every step either leaves the table alone or is the COMMIT of one request.
LEMMA TableSteps ==
    ASSUME [Next]_vars
    PROVE  \/ votes' = votes
           \/ \E r \in Requests :
                 /\ pc[r] = "commit"
                 /\ votes' = votes \union {RowOf(r)}
                 /\ pc' = [pc EXCEPT ![r] = "audit"]
                 /\ UNCHANGED <<job, stamp, reply>>
<1>1. ASSUME NEW r \in Requests, NEW s, Refuse(r, s) PROVE votes' = votes
  BY <1>1 DEF Refuse, dbVars
<1>2. ASSUME NEW r \in Requests, Start(r) PROVE votes' = votes
  BY <1>2 DEF Start, dbVars
<1>3. ASSUME NEW r \in Requests, Commit(r)
      PROVE  \/ votes' = votes
             \/ /\ pc[r] = "commit"
                /\ votes' = votes \union {RowOf(r)}
                /\ pc' = [pc EXCEPT ![r] = "audit"]
                /\ UNCHANGED <<job, stamp, reply>>
  BY <1>1, <1>3 DEF Commit
<1>4. ASSUME NEW r \in Requests, Step(r), ~Commit(r) PROVE votes' = votes
  BY <1>1, <1>4 DEF Step, ReadVoter, ReadPoll, ReadAnswers, Acquire, Begin,
     CheckDuplicate, Insert, UpdateVoter, Audit, Respond, Proceed, Goto, dbVars
<1>5. ASSUME NEW v \in Voters,
             \/ RequestPasscode(v) \/ CheckCode(v)
             \/ MarkVerified(v) \/ AbandonVerify(v)
      PROVE  votes' = votes
  BY <1>5 DEF RequestPasscode, CheckCode, MarkVerified, AbandonVerify
<1>6. ASSUME NEW h \in Hosts, Crash(h) PROVE votes' = votes
  BY <1>6 DEF Crash, dbVars
<1>7. Tick => votes' = votes
  BY DEF Tick, dbVars
<1>8. UNCHANGED vars => votes' = votes
  BY DEF vars
<1> QED
  BY <1>2, <1>3, <1>4, <1>5, <1>6, <1>7, <1>8 DEF Next

\* A code in the table can be used: neither of the two statements that set used_at
\* leaves a code behind, and the one that issues a code clears used_at.
THEOREM CodesUsable == Spec => []LiveCodeUsable
<1>1. Init => LiveCodeUsable
  BY DEF Init, LiveCodeUsable
<1>2. IInv /\ LiveCodeUsable /\ [Next]_vars => LiveCodeUsable'
  <2> SUFFICES ASSUME IInv, LiveCodeUsable, [Next]_vars PROVE LiveCodeUsable'
    OBVIOUS
  <2> USE DEF LiveCodeUsable
  <2>a. voters \in [Voters -> VoterRow]
    BY DEF IInv, TypeOK
  <2>1. CASE voters' = voters
    BY <2>1
  <2>2. ASSUME NEW r \in Requests, Step(r), voters' # voters
        PROVE  LiveCodeUsable'
    <3>1. voters' = [voters EXCEPT ![job[r].voter] = Consumed(@)]
      BY <2>2 DEF Step, ReadVoter, ReadPoll, ReadAnswers, Acquire, Begin,
         CheckDuplicate, Insert, UpdateVoter, Commit, Audit, Respond, Proceed, Goto, Refuse, dbVars
    <3> QED
      BY <2>a, <3>1 DEF Consumed, VoterRow
  <2>3. ASSUME NEW v \in Voters,
               \/ RequestPasscode(v) \/ CheckCode(v)
               \/ MarkVerified(v) \/ AbandonVerify(v)
        PROVE  LiveCodeUsable'
    BY <2>a, <2>3 DEF RequestPasscode, CheckCode, MarkVerified, AbandonVerify
  <2>4. ASSUME NEW r \in Requests, Start(r) PROVE voters' = voters
    BY <2>4 DEF Start, dbVars
  <2>5. ASSUME NEW h \in Hosts, Crash(h) PROVE voters' = voters
    BY <2>5 DEF Crash, dbVars
  <2>6. Tick \/ UNCHANGED vars => voters' = voters
    BY DEF Tick, dbVars, vars
  <2> QED
    BY <2>1, <2>2, <2>3, <2>4, <2>5, <2>6 DEF Next
<1> QED
  BY <1>1, <1>2, Invariance, PTL DEF Spec

\* CastVote implements VoteLedger: a COMMIT records an entry the ledger does not
\* have, sending a 201 acknowledges one it has, and every other step is a stutter.
THEOREM LedgerImplemented == Spec => ImplementsLedger
<1> DEFINE Rows == {EntryOf(b) : b \in votes}
           Sent == {r \in Requests : pc[r] = "done" /\ reply[r] = 201}
           Told == {EntryOf(job[r]) : r \in Sent}
<1>1. Init => Ledger!Init
  BY DEF Init, Ledger!Init
<1>2. IInv /\ [Next]_vars => [Ledger!Next]_Ledger!vars
  <2> SUFFICES ASSUME IInv, [Next]_vars PROVE [Ledger!Next]_Ledger!vars
    OBVIOUS
  <2>1. ASSUME NEW r \in Requests, pc[r] = "commit",
               pc' = [pc EXCEPT ![r] = "audit"], UNCHANGED <<job, reply>>,
               votes' = votes \union {RowOf(r)}
        PROVE  Ledger!Next
    <3>1. ~Existing(job[r].poll, job[r].voter) /\ job[r].poll \in Polls
      BY <2>1 DEF IInv, CheckedVoterStaysFree, ChecksHold, AfterPoll, InTransaction
    <3>2. Rows' = Rows \union {EntryOf(RowOf(r))}
      BY <2>1 DEF EntryOf
    <3>3. ~Ledger!HasBallot(job[r].poll, job[r].voter)
      BY <3>1 DEF Ledger!HasBallot, EntryOf, Existing
    <3>4. Sent' = Sent /\ job' = job
      BY <2>1 DEF IInv, TypeOK
    <3>5. Told' = Told
      BY <3>4 DEF EntryOf
    <3>6. EntryOf(RowOf(r)) \in Ledger!Entries
      BY <2>1, <3>1 DEF EntryOf, RowOf, Ledger!Entries, IInv, TypeOK, Job
    <3>7. PICK e \in Ledger!Entries : e = EntryOf(RowOf(r))
      BY <3>6
    <3>8. e.poll = job[r].poll /\ e.voter = job[r].voter
      BY <3>7 DEF EntryOf, RowOf
    <3>9. Ledger!Record(e)
      BY <3>2, <3>3, <3>5, <3>7, <3>8 DEF Ledger!Record
    <3> QED
      BY <3>9 DEF Ledger!Next
  <2>2. ASSUME NEW r \in Requests, Respond(r), reply[r] = 201
        PROVE  \E e \in Ledger!Entries : Ledger!Acknowledge(e)
    <3>1. PICK b \in votes : b.by = r
      BY <2>2 DEF IInv, CreatedHasRow
    <3>2. EntryOf(b) = EntryOf(job[r])
      BY <3>1 DEF IInv, RowsMatchRequests, EntryOf
    <3>3. EntryOf(job[r]) \in Rows
      BY <3>2
    <3>4. PICK e \in Ledger!Entries : e = EntryOf(job[r])
      BY <3>1, <3>2 DEF EntryOf, Ledger!Entries, IInv, TypeOK, VoteRow
    <3>5. Rows' = Rows
      BY <2>2 DEF Respond, dbVars
    <3>6. Sent' = Sent \union {r} /\ job' = job
      BY <2>2 DEF Respond, IInv, TypeOK
    <3>7. Told' = Told \union {EntryOf(job[r])}
      BY <3>6
    <3> QED
      BY <3>3, <3>4, <3>5, <3>7 DEF Ledger!Acknowledge
  <2>3. CASE votes' = votes /\ Sent' = Sent /\ (\A r \in Sent : job'[r] = job[r])
    <3>1. Rows' = Rows /\ Told' = Told
      BY <2>3
    <3> QED
      BY <3>1 DEF Ledger!vars
  <2>4. ASSUME NEW r \in Requests, NEW s, Refuse(r, s), pc[r] # "done"
        PROVE  [Ledger!Next]_Ledger!vars
    <3>1. Sent' = Sent /\ job' = job
      BY <2>4 DEF Refuse, Finish, IInv, TypeOK
    <3> QED
      BY <2>3, <2>4, <3>1 DEF Refuse, dbVars
  <2>5. ASSUME NEW r \in Requests, NEW s \in Steps \ {"done"}, Goto(r, s),
               pc[r] # "done"
        PROVE  [Ledger!Next]_Ledger!vars
    <3>1. Sent' = Sent /\ job' = job
      BY <2>5 DEF Goto, IInv, TypeOK
    <3> QED
      BY <2>3, <2>5, <3>1 DEF Goto, dbVars
  <2>6. ASSUME NEW r \in Requests, Step(r) PROVE [Ledger!Next]_Ledger!vars
    <3>1. CASE Commit(r)
      <4>1. pc[r] = "commit"
        BY <3>1 DEF Commit
      <4>2. CASE Refuse(r, 500)
        BY <2>4, <4>1, <4>2
      <4>3. CASE /\ votes' = votes \union {RowOf(r)}
                 /\ pc' = [pc EXCEPT ![r] = "audit"]
                 /\ UNCHANGED <<job, reply>>
        BY <2>1, <4>1, <4>3
      <4> QED
        BY <3>1, <4>2, <4>3 DEF Commit
    <3>2. CASE Respond(r) /\ reply[r] = 201
      BY <2>2, <3>2 DEF Ledger!Next
    <3>3. CASE Respond(r) /\ reply[r] # 201
      <4>1. Sent' = Sent /\ job' = job
        BY <3>3 DEF Respond, IInv, TypeOK
      <4> QED
        BY <2>3, <3>3, <4>1 DEF Respond, dbVars
    <3>4. CASE ReadVoter(r)
      BY <2>4, <2>5, <3>4 DEF ReadVoter, Proceed, Steps
    <3>5. CASE ReadPoll(r)
      BY <2>4, <2>5, <3>5 DEF ReadPoll, Proceed, Steps
    <3>6. CASE ReadAnswers(r)
      BY <2>4, <2>5, <3>6 DEF ReadAnswers, Steps
    <3>7. CASE Acquire(r)
      BY <2>4, <2>5, <3>7 DEF Acquire, Proceed, Steps
    <3>8. CASE Begin(r)
      BY <2>4, <2>5, <3>8 DEF Begin, Steps, InTransaction
    <3>9. CASE Audit(r)
      <4>1. Sent' = Sent /\ job' = job
        BY <3>9 DEF Audit, Finish, IInv, TypeOK
      <4> QED
        BY <2>3, <3>9, <4>1 DEF Audit, dbVars
    <3>10. CASE CheckDuplicate(r)
      BY <2>4, <2>5, <3>10 DEF CheckDuplicate, Proceed, Steps, InTransaction
    <3>11. CASE Insert(r)
      BY <2>4, <2>5, <3>11 DEF Insert, Proceed, Steps, InTransaction
    <3>12. CASE UpdateVoter(r)
      BY <2>4, <2>5, <3>12 DEF UpdateVoter, Proceed, Steps, InTransaction
    <3> QED
      BY <2>6, <3>1, <3>2, <3>3, <3>4, <3>5, <3>6, <3>7, <3>8, <3>9,
         <3>10, <3>11, <3>12 DEF Step
  <2>7. ASSUME NEW r \in Requests, Start(r) PROVE [Ledger!Next]_Ledger!vars
    <3>1. Sent' = Sent /\ \A q \in Sent : job'[q] = job[q]
      BY <2>7 DEF Start, IInv, TypeOK
    <3> QED
      BY <2>3, <2>7, <3>1 DEF Start, dbVars
  <2>8. ASSUME NEW h \in Hosts, Crash(h) PROVE [Ledger!Next]_Ledger!vars
    <3>1. Sent' = Sent /\ job' = job
      BY <2>8 DEF Crash, InFlight, IInv, TypeOK
    <3> QED
      BY <2>3, <2>8, <3>1 DEF Crash, dbVars
  <2>9. CASE votes' = votes /\ UNCHANGED reqVars
    <3>1. Sent' = Sent /\ job' = job
      BY <2>9 DEF reqVars
    <3> QED
      BY <2>3, <2>9, <3>1
  <2>10. ASSUME NEW v \in Voters,
                \/ RequestPasscode(v) \/ CheckCode(v)
                \/ MarkVerified(v) \/ AbandonVerify(v)
         PROVE  votes' = votes /\ UNCHANGED reqVars
    BY <2>10 DEF RequestPasscode, CheckCode, MarkVerified, AbandonVerify
  <2>11. Tick \/ UNCHANGED vars => votes' = votes /\ UNCHANGED reqVars
    BY DEF Tick, vars, dbVars, reqVars
  <2> QED
    BY <2>6, <2>7, <2>8, <2>9, <2>10, <2>11 DEF Next
<1> QED
  BY <1>1, <1>2, Invariance, PTL DEF Spec, ImplementsLedger, Ledger!Spec

-------------------------------------------------------------------------------
(* The results *)

\* A row has an answer, for a request without one is turned away before any statement;
\* and there are finitely many rows to count.
Countable ==
    /\ IsFiniteSet(votes)
    /\ \A b \in votes : b.answers # <<>>
    /\ \A r \in Requests : pc[r] \in {"voter", "poll"} \union AfterPoll =>
            job[r].answers # <<>>

LEMMA CountableStays ==
    ASSUME IInv, Countable, [Next]_vars
    PROVE  Countable'
<1>1. pc \in [Requests -> Steps] /\ job \in [Requests -> Job]
  BY DEF IInv, TypeOK
<1> USE DEF AfterPoll, InTransaction
<1>2. IsFiniteSet(votes') /\ \A b \in votes' : b.answers # <<>>
  <2>1. CASE votes' = votes
    BY <2>1 DEF Countable
  <2>2. ASSUME NEW r \in Requests, pc[r] = "commit", votes' = votes \union {RowOf(r)}
        PROVE  IsFiniteSet(votes') /\ \A b \in votes' : b.answers # <<>>
    <3>1. IsFiniteSet(votes')
      BY <2>2, FS_AddElement DEF Countable
    <3>2. RowOf(r).answers # <<>>
      BY <2>2 DEF Countable, RowOf
    <3> QED
      BY <2>2, <3>1, <3>2 DEF Countable
  <2> QED
    BY <2>1, <2>2, TableSteps
<1> SUFFICES ASSUME NEW r \in Requests, pc'[r] \in {"voter", "poll"} \union AfterPoll
             PROVE  job'[r].answers # <<>>
  BY <1>2 DEF Countable
<1>3. ASSUME job' = job, pc[r] \in {"voter", "poll"} \union AfterPoll
      PROVE  job'[r].answers # <<>>
  BY <1>3 DEF Countable
<1>4. ASSUME NEW q \in Requests, Start(q)
      PROVE  job'[r].answers # <<>>
  <2>1. PICK j \in Job : /\ job' = [job EXCEPT ![q] = j]
                         /\ \/ j.answers # <<>> /\ pc' = [pc EXCEPT ![q] = "voter"]
                            \/ pc' = [pc EXCEPT ![q] = "reply"]
    BY <1>4 DEF Start
  <2>2. CASE r = q
    BY <1>1, <2>1, <2>2
  <2>3. CASE r # q
    BY <1>1, <2>1, <2>3 DEF Countable
  <2> QED
    BY <2>2, <2>3
<1>5. ASSUME NEW q \in Requests, NEW s, Refuse(q, s)
      PROVE  job' = job /\ pc' = [pc EXCEPT ![q] = "reply"]
  BY <1>5 DEF Refuse, Finish
<1>6. ASSUME NEW q \in Requests, Step(q)
      PROVE  /\ job' = job
             /\ \E step : /\ pc' = [pc EXCEPT ![q] = step]
                          /\ step \in {"poll"} \union AfterPoll =>
                                pc[q] \in {"voter", "poll"} \union AfterPoll
                          /\ step # "voter"
  <2>1. CASE ReadVoter(q) \/ ReadPoll(q) \/ ReadAnswers(q) \/ Acquire(q)
    BY <1>5, <2>1 DEF ReadVoter, ReadPoll, ReadAnswers, Acquire, Proceed, Goto
  <2>2. CASE Begin(q) \/ CheckDuplicate(q) \/ Insert(q) \/ UpdateVoter(q)
    BY <1>5, <2>2 DEF Begin, CheckDuplicate, Insert, UpdateVoter, Proceed, Goto
  <2>3. CASE Commit(q)
    BY <1>5, <2>3 DEF Commit
  <2>4. CASE Audit(q) \/ Respond(q)
    BY <2>4 DEF Audit, Respond, Finish
  <2> QED
    BY <1>6, <2>1, <2>2, <2>3, <2>4 DEF Step
<1>7. ASSUME NEW q \in Requests, Step(q)
      PROVE  job'[r].answers # <<>>
  BY <1>1, <1>3, <1>6, <1>7
<1>8. ASSUME NEW h \in Hosts, Crash(h)
      PROVE  job' = job /\ pc[r] \in {"voter", "poll"} \union AfterPoll
  BY <1>1, <1>8 DEF Crash, InFlight
<1>9. ASSUME \/ Tick \/ UNCHANGED vars
             \/ \E v \in Voters : \/ RequestPasscode(v) \/ CheckCode(v)
                                  \/ MarkVerified(v) \/ AbandonVerify(v)
      PROVE  job' = job /\ pc' = pc
  BY <1>9 DEF Tick, vars, reqVars, RequestPasscode, CheckCode, MarkVerified, AbandonVerify
<1> QED
  BY <1>3, <1>4, <1>7, <1>8, <1>9 DEF Next

\* The rows of a poll, and the answers it can count.
LEMMA Legal ==
    ASSUME IInv, Countable, NEW p \in Polls, NEW b \in VotesOf(p)
    PROVE  /\ b.answers \in Seq(Answers) /\ Len(b.answers) \in Nat \ {0}
           /\ DOMAIN b.answers = 1..Len(b.answers)
           /\ \A i, j \in DOMAIN b.answers : b.answers[i] = b.answers[j] => i = j
           /\ p \in RadioPolls => Len(b.answers) = 1
           /\ \A i \in DOMAIN b.answers : b.answers[i] \in Offered[p] /\ b.answers[i] \in Answers
<1>1. b \in votes /\ b.poll = p
  BY DEF VotesOf
<1>2. b.answers \in Seq(Answers) /\ b.answers # <<>>
  BY <1>1, ConstantsAssumption DEF IInv, TypeOK, VoteRow, Countable
<1>3. Len(b.answers) \in Nat \ {0} /\ DOMAIN b.answers = 1..Len(b.answers)
  BY <1>2
<1>4. FitsType(p, b.answers) /\ AnswersExist(p, b.answers)
  BY <1>1 DEF IInv, StoredVotesLegal
<1>5. \A i \in DOMAIN b.answers : b.answers[i] \in Offered[p] /\ b.answers[i] \in Answers
  BY <1>2, <1>3, <1>4 DEF AnswersExist
<1>6. \A i, j \in DOMAIN b.answers : b.answers[i] = b.answers[j] => i = j
  BY <1>4 DEF FitsType, Repeats
<1>7. p \in RadioPolls => Len(b.answers) = 1
  <2>1. p \in RadioPolls => Len(b.answers) <= 1
    BY <1>4 DEF FitsType
  <2>2. PICK n \in Nat \ {0} : n = Len(b.answers)
    BY <1>3
  <2>3. n <= 1 => n = 1
    OBVIOUS
  <2> QED
    BY <2>1, <2>2, <2>3
<1> QED
  BY <1>2, <1>3, <1>5, <1>6, <1>7

LEMMA OncePerVote ==
    ASSUME IInv, Countable, NEW p \in Polls, NEW a \in Answers
    PROVE  Tally(p, a) <= Cardinality(VotesOf(p))
<1> DEFINE f == [e \in Counted(p, a) |-> e[1]]
<1>1. ASSUME NEW e \in Counted(p, a)
      PROVE  /\ e[1] \in VotesOf(p) /\ e[2] \in DOMAIN e[1].answers
             /\ e = <<e[1], e[2]>> /\ e[1].answers[e[2]] = a
  BY DEF Counted, Elements
<1>2. ASSUME NEW d \in Counted(p, a), NEW e \in Counted(p, a), d[1] = e[1]
      PROVE  d = e
  <2>1. d[2] = e[2]
    BY <1>1, <1>2, Legal
  <2> QED
    BY <1>1, <1>2, <2>1
<1>3. f \in Injection(Counted(p, a), VotesOf(p))
  BY <1>1, <1>2 DEF Injection, IsInjective
<1>4. IsFiniteSet(VotesOf(p))
  BY FS_Subset DEF Countable, VotesOf
<1> HIDE DEF f
<1> QED
  BY <1>3, <1>4, FS_Injection DEF Tally

LEMMA OnePerRadioVote ==
    ASSUME IInv, Countable, NEW p \in RadioPolls
    PROVE  Cardinality(UNION {Counted(p, a) : a \in Answers}) = Cardinality(VotesOf(p))
<1> DEFINE U == UNION {Counted(p, a) : a \in Answers}
           f == [b \in VotesOf(p) |-> <<b, 1>>]
<1>0. p \in Polls
  BY ConstantsAssumption
<1>1. ASSUME NEW b \in VotesOf(p)
      PROVE  <<b, 1>> \in U
  <2>1. 1 \in DOMAIN b.answers /\ b.answers[1] \in Answers /\ b.answers[1] \in Offered[p]
    BY <1>0, Legal
  <2>2. <<b, 1>> \in Counted(p, b.answers[1])
    BY <2>1 DEF Counted, Elements
  <2> QED
    BY <2>1, <2>2
<1>2. ASSUME NEW e \in U
      PROVE  \E b \in VotesOf(p) : e = <<b, 1>>
  <2>1. PICK b \in VotesOf(p) : e \in {b} \X DOMAIN b.answers
    BY <1>2 DEF Counted, Elements
  <2>2. DOMAIN b.answers = {1}
    BY <1>0, Legal
  <2> QED
    BY <2>1, <2>2
<1>3. f \in Bijection(VotesOf(p), U)
  <2>1. f \in [VotesOf(p) -> U]
    BY <1>1
  <2>2. f \in Injection(VotesOf(p), U)
    BY <2>1 DEF Injection, IsInjective
  <2>3. f \in Surjection(VotesOf(p), U)
    BY <1>2, <2>1 DEF Surjection
  <2> QED
    BY <2>2, <2>3 DEF Bijection
<1>4. IsFiniteSet(VotesOf(p))
  BY FS_Subset DEF Countable, VotesOf
<1> HIDE DEF f, U
<1>5. Cardinality(U) = Cardinality(VotesOf(p))
  BY <1>3, <1>4, FS_Bijection DEF ExistsBijection
<1> QED
  BY <1>5 DEF U

\* The results count a voter at most once per answer, and those of a radio poll add up
\* to its votes, although GetResults counts elements of lists and not rows.
THEOREM ResultsAreRight == Spec => []ResultsAddUp
<1>1. Init => Countable
  BY FS_EmptySet DEF Init, Countable, AfterPoll, InTransaction
<1>2. IInv /\ Countable /\ [Next]_vars => Countable'
  BY CountableStays
<1>3. IInv /\ Countable => ResultsAddUp
  BY OncePerVote, OnePerRadioVote DEF ResultsAddUp
<1> QED
  BY <1>1, <1>2, <1>3, Invariance, PTL DEF Spec
===============================================================================
