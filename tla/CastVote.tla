------------------------------- MODULE CastVote -------------------------------
(***************************************************************************)
(* poll.CastVote, run at the same time by several request handlers of      *)
(* several processes over one SQLite file, while voters ask for new        *)
(* passcodes and verify themselves and while time passes.                  *)
(*                                                                         *)
(* One action per SQL statement of the function.  The reads that validate  *)
(* the vote are outside any transaction: what they found may be stale when *)
(* BEGIN IMMEDIATE takes SQLite's write lock.  What a transaction has      *)
(* written is visible to others only after COMMIT, so a handler's          *)
(* uncommitted row is implied by its step and enters `votes' at COMMIT.    *)
(* Every statement may fail, and a process may be killed at any step.      *)
(*                                                                         *)
(* A statement needs a connection of its process's pool (SetMaxOpenConns)  *)
(* and waits for one without a time limit.  The transaction pins one, from *)
(* DB.Conn until CastVote returns, so also while LogAction asks for        *)
(* another to write the audit row of the vote.                             *)
(***************************************************************************)
EXTENDS Integers, Sequences, FiniteSets

CONSTANTS
    Voters,     \* people, by CPF
    Polls,      \* rows of table polls, created before the first vote
    Answers,    \* rows of table answers
    Ballots,    \* the answer_ids lists a client may send
    Requests,   \* calls of CastVote, each made once
    Hosts,      \* processes that share the SQLite file: API replicas, worker
    HostOf,     \* the process that runs each request
    NoPoll,     \* a poll id that is in no row
    Nobody,     \* the value of `writer' when the write lock is free
    RadioPolls, \* the polls of type "radio": one answer only
    Offered,    \* the answers of each poll
    OpensAt,    \* start_date of each poll
    ClosesAt,   \* end_date of each poll
    MaxConns,   \* connections each process may have open
    MaxTime     \* bound: the clock stops here

ASSUME ConstantsAssumption ==
    /\ Voters # {} /\ Ballots # {}
    /\ Ballots \subseteq Seq(Answers)
    /\ HostOf \in [Requests -> Hosts]
    /\ NoPoll \notin Polls
    /\ Nobody \notin Requests
    /\ RadioPolls \subseteq Polls
    /\ Offered \in [Polls -> SUBSET Answers]
    /\ OpensAt \in [Polls -> Nat]
    /\ ClosesAt \in [Polls -> Nat]
    /\ MaxConns \in Nat \ {0}
    /\ MaxTime \in Nat

VARIABLES
    now,        \* the clock the processes share
    voters,     \* table voters: the columns CastVote and its callers depend on
    verifying,  \* voters whose code a HandleVerify in flight has accepted
    votes,      \* table votes, committed rows only
    writer,     \* the request that holds SQLite's write lock
    pc,         \* the next step of each request
    job,        \* the arguments of each request
    stamp,      \* `now' of each request, the voted_at of its row
    reply       \* HTTP status each request ends with, 0 while undecided

dbVars  == <<voters, verifying, votes>>
reqVars == <<writer, pc, job, stamp, reply>>
vars    == <<now, voters, verifying, votes, writer, pc, job, stamp, reply>>

-------------------------------------------------------------------------------
(* State *)

Statuses == {0, 201, 400, 401, 404, 409, 410, 500}

\* Between BEGIN IMMEDIATE and the end of the transaction.
InTransaction == {"dup", "insert", "update", "commit"}

Steps == InTransaction \union
    {"idle", "voter", "poll", "answers", "conn", "begin", "audit", "reply",
     "done", "lost"}

\* passcode IS NOT NULL, verified_at IS NOT NULL, used_at IS NOT NULL.  A voter
\* without a row is told apart from one that is not verified by nothing here.
VoterRow == [code: BOOLEAN, verified: BOOLEAN, used: BOOLEAN]

Job == [poll: Polls \union {NoPoll}, voter: Voters, answers: Ballots]

\* `by' is the request that wrote the row: not a column, only for the properties.
VoteRow == [poll: Polls, voter: Voters, answers: Ballots, at: Nat, by: Requests]

TypeOK ==
    /\ now \in 0..MaxTime
    /\ voters \in [Voters -> VoterRow]
    /\ verifying \subseteq Voters
    /\ votes \subseteq VoteRow
    /\ writer \in Requests \union {Nobody}
    /\ pc \in [Requests -> Steps]
    /\ job \in [Requests -> Job]
    /\ stamp \in [Requests -> Nat]
    /\ reply \in [Requests -> Statuses]

-------------------------------------------------------------------------------
(* Locks and checks *)

\* Faulty: Close is not deferred, and the return of a 409 forgets it.
PinnedAfterConflict(h) ==
    {r \in Requests : /\ HostOf[r] = h
                      /\ \/ pc[r] \in InTransaction \union {"begin", "audit"}
                         \/ pc[r] \in {"reply", "done"} /\ reply[r] = 409}

\* From DB.Conn to the deferred Close, which runs when CastVote returns.
Pinned(h) ==
    {r \in Requests : /\ HostOf[r] = h
                      /\ pc[r] \in InTransaction \union {"begin", "audit"}}

FreeConn(h) == Cardinality(Pinned(h)) < MaxConns

SomeConnFree == \E h \in Hosts : FreeConn(h)

\* Faulty: a plain BEGIN, which lets two transactions overlap.
WriteLockIgnored == TRUE

\* SQLite admits one writer: BEGIN IMMEDIATE is held back until it is the one.
WriteLockFree == writer = Nobody

\* Faulty: the hash has a random salt, as HashPassword's, and no row ever matches.
ExistingRandomSalt(p, v) == p \notin Polls /\ v \notin Voters

\* Faulty: the query and the index forget poll_id.
ExistingAnyPoll(p, v) == \E b \in votes : b.voter = v

\* A row of the UNIQUE (poll_id, voter_hash) index; the hash is deterministic.
Existing(p, v) == \E b \in votes : b.poll = p /\ b.voter = v

\* Faulty: only the end of the window is compared.
IsActiveUntilEnd(p) == now <= ClosesAt[p]

IsActive(p) == OpensAt[p] <= now /\ now <= ClosesAt[p]

\* Faulty: the loop over the list that looks for repetitions is missing.
RepeatsUnseen(b) == Len(b) < 0

Repeats(b) == \E i, j \in DOMAIN b : i # j /\ b[i] = b[j]

\* A radio poll takes one answer, and no poll takes an answer twice.
FitsType(p, b) == (p \in RadioPolls => Len(b) <= 1) /\ ~Repeats(b)

AnswersExist(p, b) == \A i \in DOMAIN b : b[i] \in Offered[p]

-------------------------------------------------------------------------------
(* The steps of a request *)

\* The statement succeeded; the next one follows.
Goto(r, step) ==
    /\ pc' = [pc EXCEPT ![r] = step]
    /\ UNCHANGED <<dbVars, job, reply>>

\* Only the step of the request changes.
Proceed(r, step) == Goto(r, step) /\ UNCHANGED <<now, writer, stamp>>

\* The outcome is decided.
Finish(r, status) ==
    /\ pc' = [pc EXCEPT ![r] = "reply"]
    /\ reply' = [reply EXCEPT ![r] = status]
    /\ UNCHANGED <<now, job, stamp>>

\* A ROLLBACK that fails itself is not modelled: the code drops its error and goes on.
Rollback(r) == writer' = (IF writer = r THEN Nobody ELSE writer)

\* Faulty: a return that forgets the ROLLBACK.
RefuseNoRollback(r, status) == Finish(r, status) /\ UNCHANGED <<dbVars, writer>>

\* Faulty: the caller does not look at the error it is given.
RefuseUnseen(r, status) == Finish(r, 201) /\ Rollback(r) /\ UNCHANGED dbVars

\* An early return: the deferred ROLLBACK drops what the transaction wrote.
Refuse(r, status) == Finish(r, status) /\ Rollback(r) /\ UNCHANGED dbVars

Start(r) ==
    /\ pc[r] = "idle"
    /\ \E j \in Job :
        /\ job' = [job EXCEPT ![r] = j]
        /\ \/ /\ j.answers # <<>>
              /\ pc' = [pc EXCEPT ![r] = "voter"]
              /\ UNCHANGED reply
           \/ /\ j.answers = <<>>
              /\ pc' = [pc EXCEPT ![r] = "reply"]
              /\ reply' = [reply EXCEPT ![r] = 400]
    /\ UNCHANGED <<now, dbVars, writer, stamp>>

\* SELECT verified_at: no row, NULL and a failed query all answer 401.
ReadVoter(r) ==
    /\ pc[r] = "voter" /\ FreeConn(HostOf[r])
    /\ \/ /\ voters[job[r].voter].verified
          /\ Proceed(r, "poll")
       \/ Refuse(r, 401)

\* SELECT type, start_date, end_date, then the checks in the order of the code.
ReadPoll(r) ==
    LET p == job[r].poll
        b == job[r].answers
    IN  /\ pc[r] = "poll" /\ FreeConn(HostOf[r])
        /\ \/ /\ p \in Polls
              /\ IsActive(p)
              /\ FitsType(p, b)
              /\ Proceed(r, "answers")
           \/ p \notin Polls /\ Refuse(r, 404)
           \/ p \in Polls /\ ~IsActive(p) /\ Refuse(r, 410)
           \/ p \in Polls /\ IsActive(p) /\ ~FitsType(p, b) /\ Refuse(r, 400)
           \/ Refuse(r, 500)

\* validateAnswerIDs, then voted_at is taken from the clock.
ReadAnswers(r) ==
    LET exist == AnswersExist(job[r].poll, job[r].answers)
    IN  /\ pc[r] = "answers" /\ FreeConn(HostOf[r])
        /\ \/ /\ exist
              /\ stamp' = [stamp EXCEPT ![r] = now]
              /\ Goto(r, "conn")
              /\ UNCHANGED <<now, writer>>
           \/ ~exist /\ Refuse(r, 400)
           \/ Refuse(r, 500)

\* DB.Conn: the request has a connection of its own from now on.
Acquire(r) ==
    /\ pc[r] = "conn" /\ FreeConn(HostOf[r])
    /\ Proceed(r, "begin") \/ Refuse(r, 500)

\* BEGIN IMMEDIATE waits for the lock up to busy_timeout, then fails.
Begin(r) ==
    /\ pc[r] = "begin"
    /\ \/ /\ WriteLockFree
          /\ writer' = r
          /\ Goto(r, "dup")
          /\ UNCHANGED <<now, stamp>>
       \/ Refuse(r, 500)

\* SELECT id FROM votes, inside the transaction.
CheckDuplicate(r) ==
    LET dup == Existing(job[r].poll, job[r].voter)
    IN  /\ pc[r] = "dup"
        /\ \/ ~dup /\ Proceed(r, "insert")
           \/ dup /\ Refuse(r, 409)
           \/ Refuse(r, 500)

\* INSERT INTO votes: the UNIQUE index refuses a second row with a 500.
Insert(r) ==
    /\ pc[r] = "insert"
    /\ \/ /\ ~Existing(job[r].poll, job[r].voter)
          /\ Proceed(r, "update")
       \/ Refuse(r, 500)

\* UPDATE voters, whose effect shows at COMMIT like that of the INSERT.
UpdateVoter(r) ==
    /\ pc[r] = "update"
    /\ \/ Proceed(r, "commit")
       \/ Refuse(r, 500)

\* Faulty: the column voted_at is left out of the INSERT.
RowWithoutStamp(r) ==
    [poll |-> job[r].poll, voter |-> job[r].voter, answers |-> job[r].answers,
     by |-> r]

RowOf(r) ==
    [poll |-> job[r].poll, voter |-> job[r].voter, answers |-> job[r].answers,
     at |-> stamp[r], by |-> r]

\* Faulty: used_at is set and the code is left in its column.
ConsumedKeepingCode(row) == [row EXCEPT !.used = TRUE]

\* passcode = NULL, used_at = now: whatever code the voter holds is dropped.
Consumed(row) == [row EXCEPT !.code = FALSE, !.used = TRUE]

\* Faulty: the error of COMMIT is not looked at.
CommitUnseen(r) ==
    /\ pc[r] = "commit"
    /\ \/ /\ votes' = votes \union {RowOf(r)}
          /\ voters' = [voters EXCEPT ![job[r].voter] = Consumed(@)]
       \/ UNCHANGED <<votes, voters>>
    /\ writer' = Nobody
    /\ pc' = [pc EXCEPT ![r] = "audit"]
    /\ UNCHANGED <<now, verifying, job, stamp, reply>>

Commit(r) ==
    /\ pc[r] = "commit"
    /\ \/ /\ votes' = votes \union {RowOf(r)}
          /\ voters' = [voters EXCEPT ![job[r].voter] = Consumed(@)]
          /\ writer' = Nobody
          /\ pc' = [pc EXCEPT ![r] = "audit"]
          /\ UNCHANGED <<now, verifying, job, stamp, reply>>
       \/ Refuse(r, 500)

\* LogAction takes a connection for one INSERT whose failure is only logged;
\* then CastVote returns nil and its own connection goes back to the pool.
Audit(r) ==
    /\ pc[r] = "audit" /\ FreeConn(HostOf[r])
    /\ Finish(r, 201)
    /\ UNCHANGED <<dbVars, writer>>

\* The caller writes the response.
Respond(r) ==
    /\ pc[r] = "reply"
    /\ pc' = [pc EXCEPT ![r] = "done"]
    /\ UNCHANGED <<now, dbVars, writer, job, stamp, reply>>

Step(r) == \/ ReadVoter(r) \/ ReadPoll(r) \/ ReadAnswers(r)
           \/ Acquire(r) \/ Begin(r) \/ CheckDuplicate(r) \/ Insert(r)
           \/ UpdateVoter(r) \/ Commit(r) \/ Audit(r) \/ Respond(r)

-------------------------------------------------------------------------------
(* The rest of the system *)

\* HandleRequestPasscode and its WhatsApp, Telegram and HTML variants: an upsert
\* in a transaction of its own, so not while a request holds the write lock.
RequestPasscode(v) ==
    /\ WriteLockFree /\ SomeConnFree
    /\ voters' = [voters EXCEPT ![v] =
                    [code |-> TRUE, verified |-> FALSE, used |-> FALSE]]
    /\ UNCHANGED <<now, verifying, votes, reqVars>>

\* HandleVerify, its SELECT: the code matches one that was issued and not used.
CheckCode(v) ==
    /\ SomeConnFree
    /\ voters[v].code /\ ~voters[v].used
    /\ verifying' = verifying \union {v}
    /\ UNCHANGED <<now, voters, votes, reqVars>>

\* HandleVerify, its UPDATE, which looks at nothing but the CPF.
MarkVerified(v) ==
    /\ v \in verifying
    /\ WriteLockFree /\ SomeConnFree
    /\ voters' = [voters EXCEPT ![v] =
                    [code |-> FALSE, verified |-> TRUE, used |-> TRUE]]
    /\ verifying' = verifying \ {v}
    /\ UNCHANGED <<now, votes, reqVars>>

\* The UPDATE failed, or the process died before it.
AbandonVerify(v) ==
    /\ v \in verifying
    /\ verifying' = verifying \ {v}
    /\ UNCHANGED <<now, voters, votes, reqVars>>

Tick ==
    /\ now < MaxTime
    /\ now' = now + 1
    /\ UNCHANGED <<dbVars, reqVars>>

InFlight == {r \in Requests : pc[r] \notin {"idle", "done", "lost"}}

\* A process is killed: its requests are lost, its transaction is rolled back.
Crash(h) ==
    /\ \E r \in InFlight : HostOf[r] = h
    /\ pc' = [r \in Requests |->
                IF r \in InFlight /\ HostOf[r] = h THEN "lost" ELSE pc[r]]
    /\ writer' = IF \E r \in Requests : r = writer /\ HostOf[r] = h
                    THEN Nobody ELSE writer
    /\ UNCHANGED <<now, dbVars, job, stamp, reply>>

Init ==
    /\ now = 0
    /\ voters = [v \in Voters |->
                    [code |-> FALSE, verified |-> FALSE, used |-> FALSE]]
    /\ verifying = {}
    /\ votes = {}
    /\ writer = Nobody
    /\ pc = [r \in Requests |-> "idle"]
    /\ job = [r \in Requests |-> CHOOSE j \in Job : TRUE]
    /\ stamp = [r \in Requests |-> 0]
    /\ reply = [r \in Requests |-> 0]

Next ==
    \/ \E r \in Requests : Start(r) \/ Step(r)
    \/ \E v \in Voters : \/ RequestPasscode(v) \/ CheckCode(v)
                        \/ MarkVerified(v) \/ AbandonVerify(v)
    \/ \E h \in Hosts : Crash(h)
    \/ Tick

Spec == Init /\ [][Next]_vars

\* Go keeps running every handler, and a wait for the write lock ends with
\* busy_timeout.  A wait for a connection ends when there is one: its queue is
\* first come first served.
Fairness == \A r \in Requests : WF_vars(Step(r))

FairSpec == Spec /\ Fairness

-------------------------------------------------------------------------------
(* GetResults: one count per element of every answer_ids array (json_each),  *)
(* kept only for the answers of the poll (the join with table answers).      *)

VotesOf(p) == {b \in votes : b.poll = p}

\* One element for every position of every array.
Elements(p) == UNION {{b} \X DOMAIN b.answers : b \in VotesOf(p)}

Counted(p, a) ==
    {e \in Elements(p) : e[1].answers[e[2]] = a /\ a \in Offered[p]}

Tally(p, a) == Cardinality(Counted(p, a))

-------------------------------------------------------------------------------
(* Properties *)

\* A voter has at most one vote per poll, whatever the handlers interleave.
OneVotePerVoter ==
    \A a, b \in votes : a.poll = b.poll /\ a.voter = b.voter => a = b

\* What the duplicate SELECT found stays true until COMMIT: the UNIQUE index never
\* has to refuse a row, so a voter who has voted is told 409 and never 500.
CheckedVoterStaysFree ==
    \A r \in Requests : pc[r] \in {"insert", "update", "commit"}
                            => ~Existing(job[r].poll, job[r].voter)

\* A request that is answered is answered 201 exactly when its row is stored:
\* no error response leaves a vote behind and no success lacks one.
AcceptedIffStored ==
    \A r \in Requests : pc[r] \in {"reply", "done"}
        => (reply[r] = 201 <=> \E b \in votes : b.by = r)

\* "cpf already voted" is only said to a voter with a vote in that very poll.
ConflictIsTrue ==
    \A r \in Requests : reply[r] = 409 =>
        \E b \in votes : b.poll = job[r].poll /\ b.voter = job[r].voter

\* Every stored vote was cast after its poll opened, and what it holds can be
\* counted: answers of that poll, none twice, one only for a radio poll.
StoredVotesLegal ==
    \A b \in votes : /\ OpensAt[b.poll] <= b.at
                     /\ FitsType(b.poll, b.answers)
                     /\ AnswersExist(b.poll, b.answers)

\* The results of a poll count every voter once per answer, and those of a radio
\* poll add up to the number of its votes.
ResultsAddUp ==
    \A p \in Polls :
        /\ \A a \in Answers : Tally(p, a) <= Cardinality(VotesOf(p))
        /\ p \in RadioPolls =>
              Cardinality(UNION {Counted(p, a) : a \in Answers})
                = Cardinality(VotesOf(p))

\* A passcode in the table is one its voter can still use: neither voting nor
\* verifying leaves a code behind that HandleVerify would refuse as used.
LiveCodeUsable ==
    \A v \in Voters : voters[v].code => ~voters[v].used /\ ~voters[v].verified

\* No path through CastVote keeps SQLite's write lock.
WriteLockReleased == \A r \in Requests : writer = r ~> writer # r

\* A request is answered, unless its process dies: no request waits for ever for
\* a connection that others, or it itself, will not give back.
EveryRequestAnswered ==
    \A r \in Requests : pc[r] = "voter" ~> pc[r] \in {"done", "lost"}

\* Every connection of the process is held by a vote that waits in LogAction for another.
FullOfAudits(h) ==
    Cardinality({r \in Requests : HostOf[r] = h /\ pc[r] = "audit"}) = MaxConns

\* Votes that audit are the one way in which the pool runs dry for good: whatever fails,
\* is refused or is killed, a request ends unless they have taken every connection.
OnlyAuditsStarve ==
    \A r \in Requests :
        pc[r] = "voter" ~> pc[r] \in {"done", "lost"} \/ FullOfAudits(HostOf[r])

\* The table is the ledger; a receipt is a 201 that was sent.
EntryOf(b) == [poll |-> b.poll, voter |-> b.voter, answers |-> b.answers]

Ledger == INSTANCE VoteLedger WITH
    ledger   <- {EntryOf(b) : b \in votes},
    receipts <- {EntryOf(job[r]) :
                    r \in {q \in Requests : pc[q] = "done" /\ reply[q] = 201}}

\* CastVote keeps the promise of VoteLedger.
ImplementsLedger == Ledger!Spec
===============================================================================
