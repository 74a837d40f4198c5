------------------------------ MODULE VoteQueue -------------------------------
(***************************************************************************)
(* The ways a vote reaches the table votes: HandleVote, which calls        *)
(* CastVote itself or, with GOVOTE_VOTE_ASYNC, puts a job on a Redis       *)
(* stream; the vote worker, which takes jobs from the stream and calls     *)
(* CastVote; and HandleUIVote, which always calls CastVote itself.  The    *)
(* marker voted:<poll>:<hash> in Redis is a shortcut that all but the last *)
(* consult before CastVote does.                                           *)
(*                                                                         *)
(* CastVote is two actions here, its validating reads and its transaction  *)
(* (module CastVote has every statement).  Redis forgets markers (LRU and  *)
(* a 48 h limit), any of its commands may fail, and both the API and the   *)
(* worker may be killed between any two actions.                           *)
(***************************************************************************)
EXTENDS Integers, Sequences, FiniteSets

CONSTANTS
    Voters,         \* voters holding a vote token
    Polls,          \* polls
    Ballots,        \* answer lists
    Illegal,        \* the ballots CastVote refuses for their answers
    Requests,       \* votes submitted
    BatchSize,      \* Count of XREADGROUP
    WorkerConns,    \* GOVOTE_DB_MAX_OPEN_CONNS of the worker
    MaxFaults       \* bound: failures and crashes in a behaviour

ASSUME QueueAssumption ==
    /\ Voters # {} /\ Polls # {} /\ Ballots # {}
    /\ IsFiniteSet(Requests)
    /\ Illegal \subseteq Ballots
    /\ BatchSize \in Nat \ {0}
    /\ WorkerConns \in Nat \ {0}
    /\ MaxFaults \in Nat

VARIABLES
    async,      \* AsyncVotesEnabled, the same for all API processes
    verified,   \* voters whose verified_at is set
    open,       \* polls inside their window
    group,      \* the consumer group is there, as a start of the worker made it
    votes,      \* table votes
    marker,     \* the voted: keys of Redis
    stream,     \* the stream: the request behind every entry
    cursor,     \* last entry delivered to the consumer group
    pending,    \* entries delivered and not acknowledged
    step,       \* next step of each request
    job,        \* what each request asks for
    reply,      \* its HTTP status, 0 while there is none
    wstep,      \* next step of the worker
    batch,      \* entries the worker has in hand
    outcome,    \* what the worker decided on each entry, for the properties
    faults      \* failures so far

redis   == <<marker, stream, cursor, pending>>
world   == <<async, verified, open, group>>
handler == <<step, job, reply>>
worker  == <<wstep, batch, outcome>>
vars    == <<async, verified, open, group, votes, marker, stream, cursor, pending,
             step, job, reply, wstep, batch, outcome, faults>>

-------------------------------------------------------------------------------
(* State *)

Job == [via: {"api", "ui"}, poll: Polls, voter: Voters, answers: Ballots]

Steps == {"idle", "marker", "enqueue", "validate", "commit", "mark", "done", "lost"}

\* "off": RunVoteWorker has returned and its process lives on.  "down": there is no process.
WorkerSteps ==
    {"read", "check", "validate", "commit", "audit", "mark", "ack", "off", "down"}

\* "skipped": the marker was there.  "failed": CastVote ended with a 500.
Outcomes == {"none", "stored", "duplicate", "skipped", "rejected", "failed"}

VoteRow == [poll: Polls, voter: Voters, answers: Ballots, by: Requests]

Entries == 1..Cardinality(Requests)

TypeOK ==
    /\ async \in BOOLEAN /\ verified \subseteq Voters /\ open \subseteq Polls
    /\ group \in BOOLEAN
    /\ votes \subseteq VoteRow
    /\ marker \subseteq Polls \X Voters
    /\ stream \in Seq(Requests) /\ cursor \in 0..Len(stream)
    /\ pending \subseteq 1..cursor
    /\ step \in [Requests -> Steps]
    /\ job \in [Requests -> Job]
    /\ reply \in [Requests -> {0, 201, 202, 400, 401, 409, 410, 500, 503}]
    /\ wstep \in WorkerSteps
    /\ batch \in Seq(1..cursor)
    /\ outcome \in [Entries -> Outcomes]
    /\ faults \in 0..MaxFaults

\* Something fails; the guard is the bound of the model.
Fault == faults < MaxFaults /\ faults' = faults + 1
NoFault == UNCHANGED faults

-------------------------------------------------------------------------------
(* CastVote, in two actions *)

Existing(j) == \E b \in votes : b.poll = j.poll /\ b.voter = j.voter

\* The statuses the validating reads may end with: for a voter who is not verified,
\* a closed poll or a ballot it does not take, in an order no property depends on.
Refusals(j) ==
    {s \in {400, 401, 410} : \/ s = 401 /\ j.voter \notin verified
                             \/ s = 410 /\ j.poll \notin open
                             \/ s = 400 /\ j.answers \in Illegal}

RowOf(q) == [poll |-> job[q].poll, voter |-> job[q].voter,
             answers |-> job[q].answers, by |-> q]

Key(j) == <<j.poll, j.voter>>

-------------------------------------------------------------------------------
(* HandleVote and HandleUIVote *)

Continue(q, s) == step' = [step EXCEPT ![q] = s] /\ UNCHANGED <<job, reply>>

Answer(q, status) ==
    /\ step' = [step EXCEPT ![q] = "done"]
    /\ reply' = [reply EXCEPT ![q] = status]
    /\ UNCHANGED job

\* The request is parsed and its vote token is good.
Submit(q, via, first) ==
    /\ step[q] = "idle"
    /\ \E j \in Job : j.via = via /\ job' = [job EXCEPT ![q] = j]
    /\ step' = [step EXCEPT ![q] = first]
    /\ UNCHANGED <<world, votes, redis, reply, worker, faults>>

SubmitApi(q) == Submit(q, "api", "marker")

\* The HTML form goes to CastVote at once: no marker, no queue.
SubmitUI(q) == Submit(q, "ui", "validate")

AfterMarker == IF async THEN "enqueue" ELSE "validate"

\* Faulty: the marker is set at once, before the vote is stored.
CheckMarkerSetting(q) ==
    /\ step[q] = "marker"
    /\ IF Key(job[q]) \in marker THEN Answer(q, 409) ELSE Continue(q, AfterMarker)
    /\ marker' = marker \union {Key(job[q])}
    /\ UNCHANGED <<world, votes, stream, cursor, pending, worker, faults>>

\* HasVoted: an error of Redis counts as no marker.
CheckMarker(q) ==
    /\ step[q] = "marker"
    /\ \/ Key(job[q]) \in marker /\ Answer(q, 409) /\ NoFault
       \/ Key(job[q]) \notin marker /\ Continue(q, AfterMarker) /\ NoFault
       \/ Key(job[q]) \in marker /\ Continue(q, AfterMarker) /\ Fault
    /\ UNCHANGED <<world, votes, redis, worker>>

\* EnqueueVote: a failed XADD is a 503, whether Redis has the entry or not.
Enqueue(q) ==
    /\ step[q] = "enqueue"
    /\ \/ stream' = Append(stream, q) /\ Continue(q, "mark") /\ NoFault
       \/ stream' \in {stream, Append(stream, q)} /\ Answer(q, 503) /\ Fault
    /\ UNCHANGED <<world, votes, marker, cursor, pending, worker>>

Validate(q) ==
    /\ step[q] = "validate"
    /\ \/ Refusals(job[q]) = {} /\ Continue(q, "commit") /\ NoFault
       \/ (\E s \in Refusals(job[q]) : Answer(q, s)) /\ NoFault
       \/ Answer(q, 500) /\ Fault
    /\ UNCHANGED <<world, votes, redis, worker>>

\* What follows a stored vote: only the JSON API sets the marker.
Stored(q) == IF job[q].via = "api" THEN Continue(q, "mark") ELSE Answer(q, 201)

\* Faulty: the row stays when a later statement of the transaction fails.
CommitUnrolled(q) ==
    /\ step[q] = "commit"
    /\ \/ ~Existing(job[q]) /\ votes' = votes \union {RowOf(q)} /\ Stored(q) /\ NoFault
       \/ Existing(job[q]) /\ Answer(q, 409) /\ UNCHANGED votes /\ NoFault
       \/ ~Existing(job[q]) /\ Answer(q, 500) /\ votes' = votes \union {RowOf(q)} /\ Fault
    /\ UNCHANGED <<world, redis, worker>>

Commit(q) ==
    /\ step[q] = "commit"
    /\ \/ ~Existing(job[q]) /\ votes' = votes \union {RowOf(q)} /\ Stored(q) /\ NoFault
       \/ Existing(job[q]) /\ Answer(q, 409) /\ UNCHANGED votes /\ NoFault
       \/ Answer(q, 500) /\ UNCHANGED votes /\ Fault
    /\ UNCHANGED <<world, redis, worker>>

\* Faulty: a vote in the queue is answered like one that is stored.
MarkReceipt(q) ==
    /\ step[q] = "mark"
    /\ \/ marker' = marker \union {Key(job[q])} /\ NoFault
       \/ UNCHANGED marker /\ Fault
    /\ Answer(q, 201)
    /\ UNCHANGED <<world, votes, stream, cursor, pending, worker>>

\* MarkVoted, whose failure is ignored, then the response.
Mark(q) ==
    /\ step[q] = "mark"
    /\ \/ marker' = marker \union {Key(job[q])} /\ NoFault
       \/ UNCHANGED marker /\ Fault
    /\ Answer(q, IF async THEN 202 ELSE 201)
    /\ UNCHANGED <<world, votes, stream, cursor, pending, worker>>

CrashApi(q) ==
    /\ step[q] \notin {"idle", "done", "lost"}
    /\ Continue(q, "lost") /\ Fault
    /\ UNCHANGED <<world, votes, redis, worker>>

-------------------------------------------------------------------------------
(* RunVoteWorker and processMessage *)

Entry == Head(batch)

\* What the payload of the entry decodes to: EnqueueVote wrote it, so it always does.
WJob == job[stream[Entry]]

\* The worker is done with the entry in hand.
NextEntry ==
    /\ batch' = Tail(batch)
    /\ wstep' = IF Len(batch) = 1 THEN "read" ELSE "check"

Decide(o) == outcome' = [outcome EXCEPT ![Entry] = o]

\* XACK, whose failure is ignored.
Ack == \/ pending' = pending \ {Entry} /\ NoFault
       \/ UNCHANGED pending /\ Fault

\* Faulty: a batch is BatchSize entries, whether the stream has them or not.
DeliverablePastEnd == cursor + 1 .. cursor + BatchSize

\* The entries one XREADGROUP delivers.
Deliverable == cursor + 1 .. IF cursor + BatchSize < Len(stream)
                                THEN cursor + BatchSize ELSE Len(stream)

\* Faulty: with NOACK an entry is never pending.
ReadNoAck ==
    /\ wstep = "read" /\ group /\ Deliverable # {}
    /\ batch' = [i \in 1..Cardinality(Deliverable) |-> cursor + i]
    /\ cursor' = cursor + Cardinality(Deliverable)
    /\ wstep' = "check"
    /\ UNCHANGED <<world, votes, marker, stream, pending, handler, outcome, faults>>

\* Faulty: the call blocks until it can fill a batch.
ReadFullBatch ==
    /\ wstep = "read" /\ group /\ Cardinality(Deliverable) = BatchSize
    /\ batch' = [i \in 1..BatchSize |-> cursor + i]
    /\ cursor' = cursor + BatchSize
    /\ pending' = pending \union Deliverable
    /\ wstep' = "check"
    /\ UNCHANGED <<world, votes, marker, stream, handler, outcome, faults>>

\* XREADGROUP with ">": entries never delivered before, and only those.  Without the
\* group every call is an error, and the loop goes on asking.
Read ==
    /\ wstep = "read" /\ group /\ Deliverable # {}
    /\ batch' = [i \in 1..Cardinality(Deliverable) |-> cursor + i]
    /\ cursor' = cursor + Cardinality(Deliverable)
    /\ pending' = pending \union Deliverable
    /\ wstep' = "check"
    /\ UNCHANGED <<world, votes, marker, stream, handler, outcome, faults>>

WCheckMarker ==
    /\ wstep = "check"
    /\ \/ Key(WJob) \in marker /\ Decide("skipped") /\ Ack /\ NextEntry
       \/ /\ wstep' = "validate"
          /\ IF Key(WJob) \in marker THEN Fault ELSE NoFault
          /\ UNCHANGED <<pending, batch, outcome>>
    /\ UNCHANGED <<world, votes, marker, stream, cursor, handler>>

\* A 500 leaves the entry pending and goes on to the next one.
WFail == Decide("failed") /\ NextEntry /\ Fault /\ UNCHANGED pending

WValidate ==
    /\ wstep = "validate"
    /\ \/ /\ Refusals(WJob) = {}
          /\ wstep' = "commit" /\ NoFault /\ UNCHANGED <<pending, batch, outcome>>
       \/ Refusals(WJob) # {} /\ Decide("rejected") /\ Ack /\ NextEntry
       \/ WFail
    /\ UNCHANGED <<world, votes, marker, stream, cursor, handler>>

\* Faulty: neither the transaction nor the index looks for an earlier vote.
WCommitUnchecked ==
    /\ wstep = "commit"
    /\ votes' = votes \union {RowOf(stream[Entry])} /\ Decide("stored")
    /\ wstep' = "audit" /\ NoFault
    /\ UNCHANGED <<world, redis, handler, batch>>

WCommit ==
    /\ wstep = "commit"
    /\ \/ /\ ~Existing(WJob)
          /\ votes' = votes \union {RowOf(stream[Entry])} /\ Decide("stored")
          /\ wstep' = "audit" /\ NoFault /\ UNCHANGED <<pending, batch>>
       \/ /\ Existing(WJob)
          /\ Decide("duplicate") /\ wstep' = "mark" /\ NoFault
          /\ UNCHANGED <<votes, pending, batch>>
       \/ WFail /\ UNCHANGED votes
    /\ UNCHANGED <<world, marker, stream, cursor, handler>>

\* LogAction, while the transaction's connection is still taken.
WAudit ==
    /\ wstep = "audit" /\ WorkerConns > 1
    /\ wstep' = "mark"
    /\ UNCHANGED <<world, votes, redis, handler, batch, outcome, faults>>

WMark ==
    /\ wstep = "mark"
    /\ \/ marker' = marker \union {Key(WJob)} /\ NoFault
       \/ UNCHANGED marker /\ Fault
    /\ wstep' = "ack"
    /\ UNCHANGED <<world, votes, stream, cursor, pending, handler, batch, outcome>>

WAck ==
    /\ wstep = "ack"
    /\ Ack /\ NextEntry
    /\ UNCHANGED <<world, votes, marker, stream, cursor, handler, outcome>>

\* The process dies, with the batch when it has one.
WCrash ==
    /\ wstep # "down" /\ Fault
    /\ wstep' = "down" /\ batch' = <<>>
    /\ UNCHANGED <<world, votes, redis, handler, outcome>>

\* RunVoteWorker begins.  A Redis that does not answer then is not asked again: the
\* worker returns, and main waits for a signal.  An error of ensureGroup is only logged,
\* whether the group was made or not.
WStart ==
    /\ wstep = "down"
    /\ \/ wstep' = "read" /\ group' = TRUE /\ NoFault
       \/ wstep' = "read" /\ group' \in {group, TRUE} /\ Fault
       \/ wstep' = "off" /\ UNCHANGED group /\ Fault
    /\ UNCHANGED <<async, verified, open, votes, redis, handler, batch, outcome>>

WorkerStep == \/ Read \/ WCheckMarker \/ WValidate \/ WCommit \/ WAudit
              \/ WMark \/ WAck \/ WStart

-------------------------------------------------------------------------------
(* The rest of the system *)

\* Asking for a new passcode resets verified_at; the vote token stays good.
RequestPasscode(v) ==
    /\ verified' = verified \ {v}
    /\ UNCHANGED <<async, open, group, votes, redis, handler, worker, faults>>

Verify(v) ==
    /\ verified' = verified \union {v}
    /\ UNCHANGED <<async, open, group, votes, redis, handler, worker, faults>>

ClosePoll(p) ==
    /\ open' = open \ {p}
    /\ UNCHANGED <<async, verified, group, votes, redis, handler, worker, faults>>

\* A marker expires or is evicted.
Forget ==
    /\ \E k \in marker : marker' = marker \ {k}
    /\ UNCHANGED <<world, votes, stream, cursor, pending, handler, worker, faults>>

Init ==
    /\ async \in BOOLEAN
    /\ verified = Voters /\ open = Polls /\ group = FALSE
    /\ votes = {} /\ marker = {}
    /\ stream = <<>> /\ cursor = 0 /\ pending = {}
    /\ step = [q \in Requests |-> "idle"]
    /\ job = [q \in Requests |-> CHOOSE j \in Job : TRUE]
    /\ reply = [q \in Requests |-> 0]
    /\ wstep = "down" /\ batch = <<>>
    /\ outcome = [i \in Entries |-> "none"]
    /\ faults = 0

Next ==
    \/ \E q \in Requests : \/ SubmitApi(q) \/ SubmitUI(q) \/ CheckMarker(q)
                           \/ Enqueue(q) \/ Validate(q) \/ Commit(q) \/ Mark(q)
                           \/ CrashApi(q)
    \/ WorkerStep \/ WCrash
    \/ \E v \in Voters : RequestPasscode(v) \/ Verify(v)
    \/ \E p \in Polls : ClosePoll(p)
    \/ Forget

Spec == Init /\ [][Next]_vars

\* The worker is a goroutine that runs on; docker starts a process that has ended.
FairSpec == Spec /\ WF_vars(WorkerStep)

-------------------------------------------------------------------------------
(* Properties *)

HasVote(j) == \E b \in votes : b.poll = j.poll /\ b.voter = j.voter

\* Whatever the paths a vote may take, a voter has one vote per poll.
OneVotePerVoter ==
    \A a, b \in votes : a.poll = b.poll /\ a.voter = b.voter => a = b

\* Without the queue a marker stands for a vote in the table, so the shortcut
\* never turns a voter away who has not voted.
MarkerMeansVote ==
    ~async => \A k \in marker : \E b \in votes : <<b.poll, b.voter>> = k

\* A request that was told no has no vote in the table.  (A 503 does not say no:
\* the entry may be in the stream.)
RefusedNeverCounted ==
    \A b \in votes : reply[b.by] \in {0, 201, 202, 503}

\* An entry leaves the pending list only after the worker has decided on it, and
\* one decided "stored" or "duplicate" has its voter's vote in the table: a crash
\* between any two steps cannot lose an entry silently.
NothingDroppedUndecided ==
    \A i \in 1..cursor :
        /\ i \in pending \/ outcome[i] \notin {"none", "failed"}
        /\ outcome[i] \in {"stored", "duplicate"} => HasVote(job[stream[i]])

\* The table is the ledger; a receipt is a 201 that was sent, a 202 is none.
EntryOf(b) == [poll |-> b.poll, voter |-> b.voter, answers |-> b.answers]

Ledger == INSTANCE VoteLedger WITH
    ledger   <- {EntryOf(b) : b \in votes},
    receipts <- {EntryOf(job[q]) :
                    q \in {r \in Requests : step[r] = "done" /\ reply[r] = 201}}

\* All ways of a vote together keep the promise of VoteLedger: one ballot per voter and
\* poll, none ever removed, and a receipt only for what is in the table.
ImplementsLedger == Ledger!Spec

\* What nothing but the end of the process changes: the worker gave up at its start, it
\* reads without a group, or it waits in LogAction for a second connection of a pool of one.
Stuck ==
    \/ wstep = "off"
    \/ wstep = "read" /\ ~group
    \/ wstep = "audit" /\ WorkerConns = 1

\* The worker comes to every entry of the stream, however often it is killed, unless it
\* is stuck for good.
EveryEntryRead ==
    \A i \in Entries : Len(stream) >= i ~> (cursor >= i \/ []Stuck)

\* The worker drops as a duplicate only what is one: "worker is source of truth".
SkippedHasVote ==
    \A i \in Entries : outcome[i] = "skipped" => HasVote(job[stream[i]])

\* An entry that is left pending is taken up again: "do not ack so it can be
\* retried".
PendingRetried ==
    \A i \in Entries : i \in pending ~> i \notin pending
===============================================================================
