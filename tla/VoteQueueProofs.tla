--------------------------- MODULE VoteQueueProofs ----------------------------
(***************************************************************************)
(* Theorems about VoteQueue, for any voters, polls, requests, batch size   *)
(* and number of faults.  A vote and an entry of the stream both come from *)
(* a request that has got past its checks, and the worker holds only       *)
(* entries that are pending: the invariant says so of every request and of *)
(* every entry in hand.                                                    *)
(***************************************************************************)
EXTENDS VoteQueue, FiniteSetTheorems, SequenceTheorems, TLAPS

\* Past the point where it may be told no.
Accepted(q) == step[q] \in {"mark", "done", "lost"} /\ reply[q] \in {0, 201, 202, 503}

RequestsPlaced ==
    /\ \A q \in Requests : step[q] # "done" => reply[q] = 0
    /\ \A b \in votes : Accepted(b.by)
    /\ \A i \in 1..Len(stream) : Accepted(stream[i])

\* A request is in the stream once, and only when there is a queue.
StreamOnce ==
    /\ ~async => stream = <<>>
    /\ \A q \in Requests : step[q] = "enqueue" => async
    /\ \A i, j \in 1..Len(stream) : stream[i] = stream[j] => i = j

MarksMeanVotes ==
    /\ MarkerMeansVote
    /\ ~async => \A q \in Requests : step[q] = "mark" => HasVote(job[q])

InHand == {"check", "validate", "commit", "audit", "mark", "ack"}

\* The worker holds distinct entries, all pending; past the transaction it has decided,
\* and it has decided on no entry before it was delivered.
WorkerHolds ==
    /\ \A i \in Entries : i > cursor => outcome[i] = "none"
    /\ wstep \in InHand => batch # <<>>
    /\ \A k \in 1..Len(batch) : batch[k] \in pending
    /\ \A j, k \in 1..Len(batch) : batch[j] = batch[k] => j = k
    /\ wstep \in {"audit", "mark", "ack"} => outcome[Entry] \in {"stored", "duplicate"}

IInv ==
    /\ TypeOK
    /\ RequestsPlaced
    /\ StreamOnce
    /\ MarksMeanVotes
    /\ WorkerHolds
    /\ NothingDroppedUndecided
    /\ OneVotePerVoter

-------------------------------------------------------------------------------
(* The entry in hand *)

\* There is an outcome for every entry: no request is in the stream twice.
LEMMA EntriesSuffice ==
    ASSUME TypeOK, StreamOnce
    PROVE  1..Len(stream) \subseteq Entries
<1>1. stream \in [1..Len(stream) -> Requests] /\ Len(stream) \in Nat
  BY DEF TypeOK
<1>2. stream \in Injection(1..Len(stream), Requests)
  BY <1>1 DEF StreamOnce, Injection, IsInjective
<1>3. Cardinality(1..Len(stream)) <= Cardinality(Requests)
  BY <1>2, FS_Injection, QueueAssumption
<1>4. Cardinality(1..Len(stream)) = Len(stream)
  <2>1. Cardinality(1..Len(stream)) = IF 1 > Len(stream) THEN 0 ELSE Len(stream) - 1 + 1
    BY <1>1, FS_Interval
  <2> QED
    BY <1>1, <2>1
<1>5. Cardinality(Requests) \in Nat
  BY FS_CardinalityType, QueueAssumption
<1> QED
  BY <1>1, <1>3, <1>4, <1>5 DEF Entries

LEMMA EntryInHand ==
    ASSUME IInv, wstep \in InHand
    PROVE  /\ batch # <<>> /\ Len(batch) \in Nat \ {0} /\ Entry = batch[1]
           /\ Entry \in 1..cursor /\ Entry \in 1..Len(stream) /\ Entry \in Entries
           /\ Entry \in pending
           /\ stream[Entry] \in Requests /\ WJob \in Job
<1>1. /\ batch # <<>> /\ batch \in Seq(1..cursor) /\ stream \in Seq(Requests)
      /\ cursor \in 0..Len(stream)
  BY DEF IInv, WorkerHolds, TypeOK
<1>2. Entry \in 1..cursor /\ Entry = batch[1] /\ Len(batch) \in Nat \ {0}
  BY <1>1 DEF Entry
<1>3. Entry \in 1..Len(stream) /\ stream[Entry] \in Requests
  BY <1>1, <1>2
<1>4. Entry \in Entries
  BY <1>3, EntriesSuffice DEF IInv
<1>5. Entry \in pending
  BY <1>2 DEF IInv, WorkerHolds
<1>6. WJob \in Job
  BY <1>3 DEF WJob, IInv, TypeOK
<1> QED
  BY <1>1, <1>2, <1>3, <1>4, <1>5, <1>6

\* What NextEntry leaves in hand.
LEMMA RestInHand ==
    ASSUME IInv, wstep \in InHand, NextEntry
    PROVE  /\ batch' \in Seq(1..cursor) /\ wstep' \in {"read", "check"}
           /\ wstep' = "check" => batch' # <<>>
           /\ \A k \in 1..Len(batch') : batch'[k] \in pending \ {Entry}
           /\ \A j, k \in 1..Len(batch') : batch'[j] = batch'[k] => j = k
<1>1. batch # <<>> /\ Len(batch) \in Nat \ {0} /\ Entry = batch[1]
  BY EntryInHand
<1>2. batch \in Seq(1..cursor)
  BY DEF IInv, TypeOK
<1>3. /\ batch' \in Seq(1..cursor) /\ Len(batch') = Len(batch) - 1
      /\ \A k \in 1..Len(batch') : batch'[k] = batch[k + 1]
  BY <1>1, <1>2, HeadTailProperties DEF NextEntry
<1>4. \A k \in 1..Len(batch') : k + 1 \in 1..Len(batch) /\ k + 1 # 1
  BY <1>1, <1>3
<1>5. wstep' \in {"read", "check"} /\ (wstep' = "check" => Len(batch) # 1)
  BY DEF NextEntry
<1>6. wstep' = "check" => batch' # <<>>
  BY <1>1, <1>3, <1>5
<1>7. \A k \in 1..Len(batch') : batch'[k] \in pending \ {Entry}
  BY <1>1, <1>3, <1>4 DEF IInv, WorkerHolds
<1>8. ASSUME NEW j \in 1..Len(batch'), NEW k \in 1..Len(batch'), batch'[j] = batch'[k]
      PROVE  j = k
  <2>1. j + 1 = k + 1
    BY <1>3, <1>4, <1>8 DEF IInv, WorkerHolds
  <2>2. j \in Int /\ k \in Int
    BY <1>1, <1>3
  <2> QED
    BY <2>1, <2>2
<1> QED
  BY <1>3, <1>5, <1>6, <1>7, <1>8

\* The entries one read delivers, as an interval.
LEMMA Delivered ==
    ASSUME TypeOK, Deliverable # {}
    PROVE  LET n == Cardinality(Deliverable)
           IN  /\ n \in Nat \ {0} /\ cursor + n <= Len(stream)
               /\ Deliverable = cursor + 1 .. cursor + n
<1> DEFINE top == IF cursor + BatchSize < Len(stream) THEN cursor + BatchSize
                                                     ELSE Len(stream)
<1>1. cursor \in Nat /\ BatchSize \in Nat \ {0} /\ Len(stream) \in Nat
  BY QueueAssumption DEF TypeOK
<1>2. top \in Nat /\ top <= Len(stream) /\ Deliverable = cursor + 1 .. top
  BY <1>1 DEF Deliverable
<1> HIDE DEF top
<1>3. cursor + 1 <= top
  BY <1>1, <1>2
<1>4. Cardinality(Deliverable) = top - cursor
  BY <1>1, <1>2, <1>3, FS_Interval
<1> QED
  BY <1>1, <1>2, <1>3, <1>4

-------------------------------------------------------------------------------
(* What every step keeps *)

HandlerStep(q) == \/ SubmitApi(q) \/ SubmitUI(q) \/ CheckMarker(q) \/ Enqueue(q)
                  \/ Validate(q) \/ Commit(q) \/ Mark(q) \/ CrashApi(q)

OtherStep == \/ \E v \in Voters : RequestPasscode(v) \/ Verify(v)
             \/ \E p \in Polls : ClosePoll(p)
             \/ Forget
             \/ UNCHANGED vars

LEMMA Cases ==
    [Next]_vars <=>
        (\E q \in Requests : HandlerStep(q)) \/ WorkerStep \/ WCrash \/ OtherStep
BY DEF Next, HandlerStep, OtherStep

\* The handler of q touches no other request, and its job only when it is submitted.
LEMMA HandlerFrame ==
    ASSUME TypeOK, NEW q \in Requests, HandlerStep(q)
    PROVE  /\ UNCHANGED <<async, cursor, pending, worker>>
           /\ \A r \in Requests \ {q} :
                    step'[r] = step[r] /\ job'[r] = job[r] /\ reply'[r] = reply[r]
           /\ step[q] # "idle" => job'[q] = job[q]
           /\ step[q] \notin {"done", "lost"}
BY DEF HandlerStep, SubmitApi, SubmitUI, Submit, CheckMarker, Enqueue, Validate, Commit,
       Stored, Mark, CrashApi, Continue, Answer, AfterMarker, redis, worker, world, TypeOK

LEMMA WorkerFrame ==
    ASSUME WorkerStep \/ WCrash
    PROVE  UNCHANGED <<async, stream, step, job, reply>>
BY DEF WorkerStep, Read, WCheckMarker, WValidate, WCommit, WAudit, WMark, WAck, WStart,
       WCrash, redis, world, handler

LEMMA OtherFrame ==
    ASSUME OtherStep
    PROVE  /\ UNCHANGED <<async, votes, stream, cursor, pending, step, job, reply, worker>>
           /\ marker' \subseteq marker
BY DEF OtherStep, RequestPasscode, Verify, ClosePoll, Forget, vars, redis, world, handler,
       worker

\* Votes and entries are never taken back, and an accepted request is what it was.
Grows ==
    /\ votes \subseteq votes'
    /\ Len(stream) <= Len(stream') /\ Len(stream') \in Nat
    /\ \A i \in 1..Len(stream) : stream'[i] = stream[i]
    /\ \A q \in Requests : step[q] # "idle" => job'[q] = job[q]

LEMMA StepGrows ==
    ASSUME TypeOK, [Next]_vars
    PROVE  Grows
<1>0. stream \in Seq(Requests) /\ Len(stream) \in Nat
  BY DEF TypeOK
<1>1. ASSUME NEW q \in Requests, HandlerStep(q)
      PROVE  Grows
  <2>1. votes \subseteq votes'
    BY <1>1 DEF HandlerStep, SubmitApi, SubmitUI, Submit, CheckMarker, Enqueue, Validate,
                Commit, Mark, CrashApi
  <2>2. stream' \in {stream, Append(stream, q)}
    BY <1>1 DEF HandlerStep, SubmitApi, SubmitUI, Submit, CheckMarker, Enqueue, Validate,
                Commit, Mark, CrashApi, redis
  <2>3. \A r \in Requests : step[r] # "idle" => job'[r] = job[r]
    BY <1>1, HandlerFrame
  <2>4. /\ Len(stream) <= Len(stream') /\ Len(stream') \in Nat
        /\ \A i \in 1..Len(stream) : stream'[i] = stream[i]
    BY <1>0, <2>2, AppendProperties
  <2> QED
    BY <2>1, <2>3, <2>4 DEF Grows
<1>2. CASE WorkerStep \/ WCrash
  <2>1. votes \subseteq votes'
    BY <1>2 DEF WorkerStep, Read, WCheckMarker, WValidate, WCommit, WAudit, WMark, WAck,
                WStart, WCrash
  <2> QED
    BY <1>0, <1>2, <2>1, WorkerFrame DEF Grows
<1>3. CASE OtherStep
  BY <1>0, <1>3, OtherFrame DEF Grows
<1> QED
  BY <1>1, <1>2, <1>3, Cases

\* A vote there is stays there.
LEMMA HasVoteStays ==
    ASSUME TypeOK, [Next]_vars, NEW j \in Job, HasVote(j)
    PROVE  HasVote(j)'
BY StepGrows DEF Grows, HasVote

\* The job behind a request past "idle", before and after a step.
LEMMA JobVoteStays ==
    ASSUME TypeOK, [Next]_vars, NEW q \in Requests, step[q] # "idle", HasVote(job[q])
    PROVE  HasVote(job[q])'
<1>1. PICK j \in Job : j = job[q]
  BY DEF TypeOK
<1>2. HasVote(j)' /\ job'[q] = j
  BY <1>1, HasVoteStays, StepGrows DEF Grows
<1> QED
  BY <1>2 DEF HasVote

-------------------------------------------------------------------------------
(* Types *)

\* How a handler goes on.
LEMMA Moves ==
    ASSUME TypeOK, NEW q \in Requests,
           \/ \E s \in Steps : Continue(q, s)
           \/ \E r \in {201, 202, 400, 401, 409, 410, 500, 503} : Answer(q, r)
    PROVE  /\ step' \in [Requests -> Steps] /\ job' = job
           /\ reply' \in [Requests -> {0, 201, 202, 400, 401, 409, 410, 500, 503}]
<1>1. CASE \E s \in Steps : Continue(q, s)
  BY <1>1 DEF Continue, TypeOK
<1>2. CASE \E r \in {201, 202, 400, 401, 409, 410, 500, 503} : Answer(q, r)
  BY <1>2 DEF Answer, TypeOK, Steps
<1> QED
  BY <1>1, <1>2

LEMMA TypePreserved ==
    ASSUME IInv, [Next]_vars
    PROVE  TypeOK'
<1> USE QueueAssumption
<1>0. TypeOK
  BY DEF IInv
<1>1. ASSUME NEW q \in Requests, HandlerStep(q)
      PROVE  TypeOK'
  <2>1. /\ stream' \in Seq(Requests) /\ cursor' \in 0..Len(stream')
        /\ pending' \subseteq 1..cursor' /\ batch' \in Seq(1..cursor')
        /\ wstep' \in WorkerSteps /\ outcome' \in [Entries -> Outcomes]
    <3>0. stream \in Seq(Requests) /\ Len(stream) \in Nat
      BY <1>0 DEF TypeOK
    <3>1. stream' \in {stream, Append(stream, q)}
      BY <1>1 DEF HandlerStep, SubmitApi, SubmitUI, Submit, CheckMarker, Enqueue,
                  Validate, Commit, Mark, CrashApi, redis
    <3>2. UNCHANGED <<cursor, pending, wstep, batch, outcome>>
      BY <1>0, <1>1, HandlerFrame DEF worker
    <3>3. stream' \in Seq(Requests) /\ Len(stream') >= Len(stream) /\ Len(stream) \in Nat
          /\ Len(stream') \in Nat
      BY <3>0, <3>1, AppendProperties
    <3> QED
      BY <1>0, <3>2, <3>3 DEF TypeOK
  <2>2. CASE SubmitApi(q) \/ SubmitUI(q)
    <3>1. job' \in [Requests -> Job] /\ step' \in [Requests -> Steps]
      BY <1>0, <2>2 DEF SubmitApi, SubmitUI, Submit, TypeOK, Steps
    <3>2. UNCHANGED <<world, votes, marker, reply, faults>>
      BY <2>2 DEF SubmitApi, SubmitUI, Submit, redis
    <3> QED
      BY <1>0, <2>1, <3>1, <3>2 DEF TypeOK, world
  <2>3. CASE CheckMarker(q) \/ Enqueue(q) \/ Validate(q) \/ CrashApi(q)
    <3>1. \/ \E s \in Steps : Continue(q, s)
          \/ \E r \in {400, 401, 409, 410, 500, 503} : Answer(q, r)
      BY <2>3 DEF CheckMarker, Enqueue, Validate, CrashApi, AfterMarker, Refusals, Steps
    <3>2. UNCHANGED <<world, votes, marker>> /\ faults' \in 0..MaxFaults
      BY <1>0, <2>3 DEF CheckMarker, Enqueue, Validate, CrashApi, Fault, NoFault, redis,
                        TypeOK
    <3> QED
      BY <1>0, <2>1, <3>1, <3>2, Moves DEF TypeOK, world
  <2>4. CASE Commit(q)
    <3>1. RowOf(q) \in VoteRow
      BY <1>0 DEF TypeOK, RowOf, VoteRow, Job
    <3>2. votes' \subseteq VoteRow /\ faults' \in 0..MaxFaults /\ UNCHANGED <<world, marker>>
      BY <1>0, <2>4, <3>1 DEF Commit, Fault, NoFault, redis, TypeOK
    <3>3. \/ \E s \in Steps : Continue(q, s)
          \/ \E r \in {201, 409, 500} : Answer(q, r)
      BY <2>4 DEF Commit, Stored, Steps
    <3> QED
      BY <1>0, <2>1, <3>2, <3>3, Moves DEF TypeOK, world
  <2>5. CASE Mark(q)
    <3>1. Key(job[q]) \in Polls \X Voters
      BY <1>0 DEF TypeOK, Key, Job
    <3>2. /\ marker' \subseteq Polls \X Voters /\ faults' \in 0..MaxFaults
          /\ UNCHANGED <<world, votes>>
      BY <1>0, <2>5, <3>1 DEF Mark, Fault, NoFault, TypeOK
    <3>3. \E r \in {201, 202} : Answer(q, r)
      BY <2>5 DEF Mark
    <3> QED
      BY <1>0, <2>1, <3>2, <3>3, Moves DEF TypeOK, world
  <2> QED
    BY <1>1, <2>2, <2>3, <2>4, <2>5 DEF HandlerStep
<1>2. CASE Read
  <2> DEFINE n == Cardinality(Deliverable)
  <2>1. n \in Nat \ {0} /\ cursor + n <= Len(stream) /\ Deliverable = cursor + 1 .. cursor + n
    BY <1>0, <1>2, Delivered DEF Read
  <2>2. cursor' = cursor + n /\ batch' = [i \in 1..n |-> cursor + i]
        /\ pending' = pending \union Deliverable
    BY <1>2 DEF Read
  <2> HIDE DEF n
  <2>3. cursor \in Nat /\ Len(stream) \in Nat /\ pending \subseteq 1..cursor
    BY <1>0 DEF TypeOK
  <2>4. cursor' \in 0..Len(stream) /\ pending' \subseteq 1..cursor'
    BY <2>1, <2>2, <2>3
  <2>5. batch' \in Seq(1..cursor')
    BY <2>1, <2>2, <2>3
  <2> QED
    BY <1>0, <1>2, <2>4, <2>5 DEF Read, TypeOK, world, handler, WorkerSteps
<1>3. ASSUME wstep \in InHand, NEW o \in Outcomes
      PROVE  Decide(o) => outcome' \in [Entries -> Outcomes]
  BY <1>0, <1>3, EntryInHand DEF Decide, TypeOK
<1>4. CASE WCheckMarker \/ WValidate
  <2>1. wstep \in InHand
    BY <1>4 DEF WCheckMarker, WValidate, InHand
  <2>2. /\ UNCHANGED <<world, votes, marker, stream, cursor, handler>>
        /\ faults' \in 0..MaxFaults /\ pending' \subseteq pending
    BY <1>0, <1>4 DEF WCheckMarker, WValidate, WFail, Ack, Fault, NoFault, TypeOK
  <2>3. outcome' \in [Entries -> Outcomes]
    BY <1>0, <1>3, <1>4, <2>1 DEF WCheckMarker, WValidate, WFail, Outcomes, TypeOK
  <2>4. \/ batch' = batch /\ wstep' \in {"validate", "commit"}
       \/ NextEntry
    BY <1>4 DEF WCheckMarker, WValidate, WFail
  <2>5. batch' \in Seq(1..cursor) /\ wstep' \in WorkerSteps
    BY <1>0, <2>1, <2>4, RestInHand DEF TypeOK, WorkerSteps
  <2> QED
    BY <1>0, <2>2, <2>3, <2>5 DEF TypeOK, world, handler
<1>5. CASE WCommit
  <2>1. wstep \in InHand
    BY <1>5 DEF WCommit, InHand
  <2>2. RowOf(stream[Entry]) \in VoteRow
    BY <1>0, <2>1, EntryInHand DEF TypeOK, RowOf, VoteRow, Job
  <2>3. /\ UNCHANGED <<world, marker, stream, cursor, handler, pending>>
        /\ faults' \in 0..MaxFaults /\ votes' \subseteq VoteRow
    BY <1>0, <1>5, <2>2 DEF WCommit, WFail, Fault, NoFault, TypeOK
  <2>4. outcome' \in [Entries -> Outcomes]
    BY <1>0, <1>3, <1>5, <2>1 DEF WCommit, WFail, Outcomes, TypeOK
  <2>5. \/ batch' = batch /\ wstep' \in {"audit", "mark"}
       \/ NextEntry
    BY <1>5 DEF WCommit, WFail
  <2>6. batch' \in Seq(1..cursor) /\ wstep' \in WorkerSteps
    BY <1>0, <2>1, <2>5, RestInHand DEF TypeOK, WorkerSteps
  <2> QED
    BY <1>0, <2>3, <2>4, <2>6 DEF TypeOK, world, handler
<1>6. CASE WAudit \/ WStart
  <2>1. /\ UNCHANGED <<async, verified, open, votes, redis, handler, batch, outcome>>
        /\ wstep' \in WorkerSteps /\ group' \in BOOLEAN /\ faults' \in 0..MaxFaults
    <3>1. CASE WAudit
      BY <1>0, <3>1 DEF WAudit, WorkerSteps, TypeOK, world
    <3>2. CASE WStart
      <4>1. group' \in BOOLEAN
        BY <1>0, <3>2 DEF WStart, TypeOK
      <4>2. wstep' \in {"read", "off"} /\ (NoFault \/ Fault)
        BY <3>2 DEF WStart
      <4>3. wstep' \in WorkerSteps /\ faults' \in 0..MaxFaults
        BY <1>0, <4>2 DEF WorkerSteps, Fault, NoFault, TypeOK
      <4> QED
        BY <3>2, <4>1, <4>3 DEF WStart
    <3> QED
      BY <1>6, <3>1, <3>2
  <2> QED
    BY <1>0, <2>1 DEF TypeOK, redis, handler
<1>7. CASE WMark
  <2>1. Key(WJob) \in Polls \X Voters
    BY <1>7, EntryInHand DEF WMark, InHand, Key, Job
  <2>2. marker' \subseteq Polls \X Voters /\ faults' \in 0..MaxFaults
    BY <1>0, <1>7, <2>1 DEF WMark, Fault, NoFault, TypeOK
  <2> QED
    BY <1>0, <1>7, <2>2 DEF WMark, TypeOK, WorkerSteps, world, handler
<1>8. CASE WAck
  <2>1. wstep \in InHand /\ NextEntry
    BY <1>8 DEF WAck, InHand
  <2>2. batch' \in Seq(1..cursor) /\ wstep' \in WorkerSteps
    BY <2>1, RestInHand DEF WorkerSteps
  <2>3. pending' \subseteq pending /\ faults' \in 0..MaxFaults
    BY <1>0, <1>8 DEF WAck, Ack, Fault, NoFault, TypeOK
  <2> QED
    BY <1>0, <1>8, <2>2, <2>3 DEF WAck, TypeOK, world, handler
<1>9. CASE WCrash
  BY <1>0, <1>9 DEF WCrash, Fault, TypeOK, WorkerSteps, world, redis, handler
<1>10. CASE OtherStep
  <2>1. UNCHANGED <<async, votes, stream, cursor, pending, step, job, reply, worker>>
        /\ marker' \subseteq marker
    BY <1>10, OtherFrame
  <2>2. /\ verified' \subseteq Voters /\ open' \subseteq Polls
        /\ group' = group /\ faults' = faults
    BY <1>0, <1>10 DEF OtherStep, RequestPasscode, Verify, ClosePoll, Forget, vars, world,
                       TypeOK
  <2> QED
    BY <1>0, <2>1, <2>2 DEF TypeOK, worker
<1> QED
  BY <1>1, <1>2, <1>4, <1>5, <1>6, <1>7, <1>8, <1>9, <1>10, Cases DEF WorkerStep

-------------------------------------------------------------------------------
(* The requests *)

\* Nobody is told no after having been accepted.
LEMMA AcceptedStays ==
    ASSUME IInv, NEW q \in Requests, HandlerStep(q), NEW r \in Requests, Accepted(r)
    PROVE  Accepted(r)'
<1>0. TypeOK
  BY DEF IInv
<1>1. CASE r # q
  BY <1>0, <1>1, HandlerFrame DEF Accepted
<1>2. CASE r = q
  <2>1. step[q] = "mark" /\ reply[q] = 0
    BY <1>0, <1>2, HandlerFrame DEF Accepted, IInv, RequestsPlaced
  <2>2. Mark(q) \/ CrashApi(q)
    BY <2>1 DEF HandlerStep, SubmitApi, SubmitUI, Submit, CheckMarker, Enqueue, Validate,
                Commit
  <2> QED
    BY <1>0, <1>2, <2>1, <2>2 DEF Mark, CrashApi, Continue, Answer, Accepted, TypeOK
<1> QED
  BY <1>1, <1>2

\* What a handler adds: its own vote, its own entry.
LEMMA HandlerAdds ==
    ASSUME IInv, NEW q \in Requests, HandlerStep(q)
    PROVE  /\ votes' = votes \/ (votes' = votes \union {RowOf(q)} /\ Accepted(q)')
           /\ \/ stream' = stream
              \/ step[q] = "enqueue" /\ stream' = Append(stream, q) /\ Accepted(q)'
           /\ step'[q] # "done" => reply'[q] = 0
           /\ step'[q] = "enqueue" => async
<1>0. TypeOK
  BY DEF IInv
<1>1. step[q] # "done" => reply[q] = 0
  BY DEF IInv, RequestsPlaced
<1>2. CASE SubmitApi(q) \/ SubmitUI(q)
  BY <1>0, <1>1, <1>2 DEF SubmitApi, SubmitUI, Submit, redis, TypeOK
<1>3. CASE CheckMarker(q) \/ Validate(q)
  <2>1. votes' = votes /\ stream' = stream /\ step[q] # "done"
    BY <1>3 DEF CheckMarker, Validate, redis
  <2>2. \/ \E s \in Steps : Continue(q, s) /\ (s = "enqueue" => async)
        \/ \E r \in {400, 401, 409, 410, 500} : Answer(q, r)
    BY <1>3 DEF CheckMarker, Validate, AfterMarker, Refusals, Steps
  <2>3. \/ step'[q] = "done"
        \/ reply' = reply /\ (step'[q] = "enqueue" => async)
    BY <1>0, <2>2 DEF Continue, Answer, TypeOK
  <2> QED
    BY <1>1, <2>1, <2>3
<1>4. CASE Enqueue(q)
  <2>1. votes' = votes /\ step[q] = "enqueue" /\ stream' \in {stream, Append(stream, q)}
    BY <1>4 DEF Enqueue
  <2>2. Continue(q, "mark") \/ Answer(q, 503)
    BY <1>4 DEF Enqueue
  <2>3. \/ step'[q] = "mark" /\ reply'[q] = 0
        \/ step'[q] = "done" /\ reply'[q] = 503
    BY <1>0, <1>1, <2>1, <2>2 DEF Continue, Answer, TypeOK
  <2> QED
    BY <2>1, <2>3 DEF Accepted
<1>5. CASE Commit(q)
  <2>1. stream' = stream /\ step[q] = "commit" /\ reply[q] = 0
    BY <1>1, <1>5 DEF Commit, redis
  <2>2. \/ votes' = votes \union {RowOf(q)} /\ Stored(q)
        \/ votes' = votes /\ \E r \in {409, 500} : Answer(q, r)
    BY <1>5 DEF Commit
  <2>3. Stored(q) => \/ step'[q] = "mark" /\ reply'[q] = 0
                     \/ step'[q] = "done" /\ reply'[q] = 201
    BY <1>0, <2>1 DEF Stored, Continue, Answer, TypeOK
  <2>4. (\E r \in {409, 500} : Answer(q, r)) => step'[q] = "done"
    BY <1>0 DEF Answer, TypeOK
  <2> QED
    BY <2>1, <2>2, <2>3, <2>4 DEF Accepted
<1>6. CASE Mark(q)
  BY <1>0, <1>6 DEF Mark, Answer, TypeOK
<1>7. CASE CrashApi(q)
  BY <1>0, <1>1, <1>7 DEF CrashApi, Continue, redis, TypeOK
<1> QED
  BY <1>2, <1>3, <1>4, <1>5, <1>6, <1>7 DEF HandlerStep

\* What the worker adds: the vote of the entry in hand.
LEMMA WorkerAdds ==
    ASSUME WorkerStep \/ WCrash
    PROVE  \/ votes' = votes
           \/ /\ WCommit /\ ~Existing(WJob) /\ votes' = votes \union {RowOf(stream[Entry])}
BY DEF WorkerStep, Read, WCheckMarker, WValidate, WCommit, WAudit, WMark, WAck, WStart,
       WCrash

LEMMA RequestsKept ==
    ASSUME IInv, [Next]_vars
    PROVE  RequestsPlaced' /\ StreamOnce'
<1>0. /\ TypeOK /\ RequestsPlaced /\ StreamOnce
      /\ stream \in Seq(Requests) /\ Len(stream) \in Nat
      /\ \A b \in votes : b.by \in Requests
      /\ \A i \in 1..Len(stream) : stream[i] \in Requests
  BY DEF IInv, TypeOK, VoteRow
<1>1. ASSUME NEW q \in Requests, HandlerStep(q)
      PROVE  RequestsPlaced' /\ StreamOnce'
  <2>1. /\ async' = async
        /\ \A r \in Requests \ {q} : step'[r] = step[r] /\ reply'[r] = reply[r]
    BY <1>0, <1>1, HandlerFrame
  <2>2. \A r \in Requests : step'[r] # "done" => reply'[r] = 0
    BY <1>0, <1>1, <2>1, HandlerAdds DEF RequestsPlaced
  <2>3. \A r \in Requests : step'[r] = "enqueue" => async'
    BY <1>0, <1>1, <2>1, HandlerAdds DEF StreamOnce
  <2>4. \A b \in votes' : Accepted(b.by)'
    <3>1. \A b \in votes : Accepted(b.by)'
      BY <1>0, <1>1, AcceptedStays DEF RequestsPlaced
    <3> QED
      BY <1>1, <3>1, HandlerAdds DEF RowOf
  <2>5. \A r \in Requests : Accepted(r) => Accepted(r)'
    BY <1>1, AcceptedStays
  <2>6. CASE stream' = stream
    <3>1. ASSUME NEW i \in 1..Len(stream')
          PROVE  Accepted(stream[i])'
      <4>1. PICK r \in Requests : r = stream[i] /\ Accepted(r)
        BY <1>0, <2>6 DEF RequestsPlaced
      <4>2. Accepted(r)' /\ stream'[i] = r
        BY <2>5, <2>6, <4>1
      <4> QED
        BY <4>2 DEF Accepted
    <3> QED
      BY <1>0, <2>1, <2>2, <2>3, <2>4, <2>6, <3>1 DEF RequestsPlaced, StreamOnce
  <2>7. CASE step[q] = "enqueue" /\ stream' = Append(stream, q) /\ Accepted(q)'
    <3>1. /\ Len(stream') = Len(stream) + 1 /\ stream'[Len(stream) + 1] = q
          /\ \A i \in 1..Len(stream) : stream'[i] = stream[i]
      BY <1>0, <2>7, AppendProperties
    <3>2. async
      BY <1>0, <2>7 DEF StreamOnce
    <3>3. \A i \in 1..Len(stream) : stream[i] # q
      BY <1>0, <2>7 DEF RequestsPlaced, Accepted
    <3>4. \A i \in 1..Len(stream') : i \in 1..Len(stream) \/ i = Len(stream) + 1
      BY <1>0, <3>1
    <3>5. \A i, j \in 1..Len(stream') : stream'[i] = stream'[j] => i = j
      BY <1>0, <3>1, <3>3, <3>4 DEF StreamOnce
    <3>6. ASSUME NEW i \in 1..Len(stream')
          PROVE  Accepted(stream[i])'
      <4>1. CASE i \in 1..Len(stream)
        <5>1. PICK r \in Requests : r = stream[i] /\ Accepted(r)
          BY <1>0, <4>1 DEF RequestsPlaced
        <5>2. Accepted(r)' /\ stream'[i] = r
          BY <2>5, <3>1, <4>1, <5>1
        <5> QED
          BY <5>2 DEF Accepted
      <4>2. CASE i = Len(stream) + 1
        BY <2>7, <3>1, <4>2 DEF Accepted
      <4> QED
        BY <3>4, <4>1, <4>2
    <3> QED
      BY <2>1, <2>2, <2>3, <2>4, <3>2, <3>5, <3>6 DEF RequestsPlaced, StreamOnce
  <2> QED
    BY <1>1, <2>6, <2>7, HandlerAdds
<1>2. CASE WorkerStep \/ WCrash
  <2>1. UNCHANGED <<async, stream, step, job, reply>>
    BY <1>2, WorkerFrame
  <2>2. CASE votes' = votes
    BY <1>0, <2>1, <2>2 DEF RequestsPlaced, StreamOnce, Accepted
  <2>3. CASE WCommit /\ votes' = votes \union {RowOf(stream[Entry])}
    <3>1. Accepted(stream[Entry])
      BY <2>3, EntryInHand DEF WCommit, InHand, IInv, RequestsPlaced
    <3> QED
      BY <1>0, <2>1, <2>3, <3>1 DEF RequestsPlaced, StreamOnce, Accepted, RowOf
  <2> QED
    BY <1>2, <2>2, <2>3, WorkerAdds
<1>3. CASE OtherStep
  BY <1>0, <1>3, OtherFrame DEF RequestsPlaced, StreamOnce, Accepted
<1> QED
  BY <1>1, <1>2, <1>3, Cases

LEMMA OneVoteKept ==
    ASSUME IInv, [Next]_vars
    PROVE  OneVotePerVoter'
<1>0. TypeOK /\ OneVotePerVoter
  BY DEF IInv
<1>1. ASSUME NEW q \in Requests, ~Existing(job[q]), votes' = votes \union {RowOf(q)}
      PROVE  OneVotePerVoter'
  BY <1>0, <1>1 DEF OneVotePerVoter, Existing, RowOf
<1>2. ASSUME NEW q \in Requests, HandlerStep(q)
      PROVE  \/ votes' = votes
             \/ ~Existing(job[q]) /\ votes' = votes \union {RowOf(q)}
  BY <1>2 DEF HandlerStep, SubmitApi, SubmitUI, Submit, CheckMarker, Enqueue, Validate,
              Commit, Mark, CrashApi
<1>3. CASE votes' = votes
  BY <1>0, <1>3 DEF OneVotePerVoter
<1>4. CASE WorkerStep \/ WCrash
  <2>1. CASE WCommit /\ ~Existing(WJob) /\ votes' = votes \union {RowOf(stream[Entry])}
    <3>1. stream[Entry] \in Requests
      BY <2>1, EntryInHand DEF WCommit, InHand
    <3> QED
      BY <1>1, <2>1, <3>1 DEF WJob
  <2> QED
    BY <1>3, <1>4, <2>1, WorkerAdds
<1> QED
  BY <1>1, <1>2, <1>3, <1>4, OtherFrame, Cases

-------------------------------------------------------------------------------
(* Markers *)

LEMMA MarksKept ==
    ASSUME IInv, [Next]_vars
    PROVE  MarksMeanVotes'
<1>0. TypeOK /\ MarksMeanVotes /\ votes \subseteq votes'
  BY StepGrows DEF IInv, Grows
<1>1. async' = async
  BY <1>0, HandlerFrame, WorkerFrame, OtherFrame, Cases
<1>2. ASSUME ~async, NEW k \in marker
      PROVE  \E b \in votes' : <<b.poll, b.voter>> = k
  BY <1>0, <1>2 DEF MarksMeanVotes, MarkerMeansVote
<1>3. ASSUME ~async, NEW q \in Requests, step[q] = "mark"
      PROVE  HasVote(job[q])'
  BY <1>0, <1>3, JobVoteStays DEF MarksMeanVotes
<1>4. ASSUME NEW q \in Requests, HandlerStep(q)
      PROVE  MarksMeanVotes'
  <2>1. \/ marker' = marker
        \/ step[q] = "mark" /\ marker' = marker \union {Key(job[q])}
    BY <1>4 DEF HandlerStep, SubmitApi, SubmitUI, Submit, CheckMarker, Enqueue, Validate,
                Commit, Mark, CrashApi, redis
  <2>2. ~async /\ step[q] = "mark" =>
            \E b \in votes' : <<b.poll, b.voter>> = Key(job[q])
    <3>1. ~async /\ step[q] = "mark" => HasVote(job[q])
      BY <1>0 DEF MarksMeanVotes
    <3> QED
      BY <1>0, <3>1 DEF HasVote, Key
  <2>3. MarkerMeansVote'
    BY <1>1, <1>2, <2>1, <2>2 DEF MarkerMeansVote
  <2>4. ASSUME ~async, step[q] # "mark", step'[q] = "mark"
        PROVE  HasVote(job[q])'
    <3>1. Commit(q)
      <4>1. ~Enqueue(q)
        BY <2>4 DEF Enqueue, IInv, StreamOnce
      <4>2. ~(SubmitApi(q) \/ SubmitUI(q))
        BY <1>0, <2>4 DEF SubmitApi, SubmitUI, Submit, TypeOK
      <4>3. ~(CheckMarker(q) \/ Validate(q) \/ CrashApi(q))
        BY <1>0, <2>4 DEF CheckMarker, Validate, CrashApi, Continue, Answer, AfterMarker,
                          TypeOK
      <4>4. ~Mark(q)
        BY <2>4 DEF Mark
      <4> QED
        BY <1>4, <4>1, <4>2, <4>3, <4>4 DEF HandlerStep
    <3>2. \A r : Answer(q, r) => step'[q] = "done"
      BY <1>0 DEF Answer, TypeOK
    <3>3. votes' = votes \union {RowOf(q)} /\ job' = job
      BY <2>4, <3>1, <3>2 DEF Commit, Stored, Continue, Answer
    <3> QED
      <4>1. RowOf(q).poll = job[q].poll /\ RowOf(q).voter = job[q].voter
        BY DEF RowOf
      <4>2. RowOf(q) \in votes'
        BY <3>3
      <4> QED
        BY <3>3, <4>1, <4>2 DEF HasVote
  <2>5. ASSUME ~async, NEW r \in Requests, step'[r] = "mark"
        PROVE  HasVote(job[r])'
    <3>1. step[r] = "mark" \/ r = q
      BY <1>0, <1>4, <2>5, HandlerFrame
    <3> QED
      BY <1>3, <2>4, <2>5, <3>1
  <2> QED
    BY <1>1, <2>3, <2>5 DEF MarksMeanVotes
<1>5. CASE WorkerStep \/ WCrash
  <2>1. \/ marker' = marker
        \/ WMark /\ marker' = marker \union {Key(WJob)}
    BY <1>5 DEF WorkerStep, Read, WCheckMarker, WValidate, WCommit, WAudit, WMark, WAck,
                WStart, WCrash, redis
  <2>2. WMark => \E b \in votes' : <<b.poll, b.voter>> = Key(WJob)
    <3>1. WMark => Entry \in 1..cursor /\ outcome[Entry] \in {"stored", "duplicate"}
      BY EntryInHand DEF WMark, InHand, IInv, WorkerHolds
    <3>2. WMark => HasVote(WJob)
      BY <3>1 DEF IInv, NothingDroppedUndecided, WJob
    <3> QED
      BY <1>0, <3>2 DEF HasVote, Key
  <2>3. MarkerMeansVote'
    BY <1>1, <1>2, <2>1, <2>2 DEF MarkerMeansVote
  <2> QED
    BY <1>1, <1>3, <1>5, <2>3, WorkerFrame DEF MarksMeanVotes
<1>6. CASE OtherStep
  <2>1. MarkerMeansVote'
    BY <1>1, <1>2, <1>6, OtherFrame DEF MarkerMeansVote
  <2> QED
    BY <1>1, <1>3, <1>6, <2>1, OtherFrame DEF MarksMeanVotes
<1> QED
  BY <1>4, <1>5, <1>6, Cases

-------------------------------------------------------------------------------
(* The worker *)

\* Going on to the next entry, once the one in hand is decided.
LEMMA OnToNext ==
    ASSUME IInv, wstep \in InHand, NextEntry, pending \ {Entry} \subseteq pending',
           cursor' = cursor, NEW o \in Outcomes, outcome' = outcome \/ Decide(o)
    PROVE  WorkerHolds'
<1>1. /\ wstep' \in {"read", "check"} /\ (wstep' = "check" => batch' # <<>>)
      /\ \A k \in 1..Len(batch') : batch'[k] \in pending \ {Entry}
      /\ \A j, k \in 1..Len(batch') : batch'[j] = batch'[k] => j = k
  BY RestInHand
<1>2. \A i \in Entries : i > cursor => outcome'[i] = outcome[i]
  BY EntryInHand DEF Decide, IInv, TypeOK
<1> QED
  BY <1>1, <1>2 DEF WorkerHolds, InHand, IInv

\* Keeping the entry in hand, decided or not.
LEMMA StayOnEntry ==
    ASSUME IInv, wstep \in InHand, UNCHANGED <<batch, pending, cursor>>,
           \/ outcome' = outcome
           \/ \E o \in {"stored", "duplicate"} : Decide(o),
           wstep' \in {"audit", "mark", "ack"} =>
                outcome'[Entry] \in {"stored", "duplicate"}
    PROVE  WorkerHolds'
<1>1. \A i \in Entries : i > cursor => outcome'[i] = outcome[i]
  BY EntryInHand DEF Decide, IInv, TypeOK
<1> QED
  BY <1>1 DEF WorkerHolds, InHand, IInv, Entry

LEMMA WorkerKept ==
    ASSUME IInv, [Next]_vars
    PROVE  WorkerHolds'
<1>0. TypeOK /\ WorkerHolds
  BY DEF IInv
<1>1. CASE UNCHANGED <<cursor, pending, worker>>
  BY <1>0, <1>1 DEF WorkerHolds, worker, Entry
<1>2. CASE Read
  <2> DEFINE n == Cardinality(Deliverable)
  <2>1. n \in Nat \ {0} /\ cursor + n <= Len(stream) /\ Deliverable = cursor + 1 .. cursor + n
    BY <1>0, <1>2, Delivered DEF Read
  <2>2. cursor' = cursor + n /\ batch' = [i \in 1..n |-> cursor + i]
        /\ pending' = pending \union Deliverable /\ wstep' = "check" /\ outcome' = outcome
    BY <1>2 DEF Read
  <2> HIDE DEF n
  <2>3. cursor \in Nat
    BY <1>0 DEF TypeOK
  <2>4. Len(batch') = n
    BY <2>1, <2>2
  <2>5. batch' # <<>>
    BY <2>1, <2>4
  <2>6. \A k \in 1..n : batch'[k] = cursor + k /\ batch'[k] \in pending'
    BY <2>1, <2>2, <2>3
  <2>7. \A i \in Entries : i > cursor' => i > cursor
    BY <2>1, <2>2, <2>3 DEF Entries
  <2>8. ASSUME NEW j \in 1..n, NEW k \in 1..n, batch'[j] = batch'[k]
        PROVE  j = k
    <3>1. cursor + j = cursor + k
      BY <2>6, <2>8
    <3> QED
      BY <2>1, <2>3, <3>1
  <2>9. \A i \in Entries : i > cursor' => outcome'[i] = "none"
    BY <1>0, <2>2, <2>7 DEF WorkerHolds
  <2> QED
    BY <2>2, <2>4, <2>5, <2>6, <2>8, <2>9 DEF WorkerHolds
<1>3. CASE WCheckMarker \/ WValidate
  <2>1. wstep \in InHand /\ cursor' = cursor
    BY <1>3 DEF WCheckMarker, WValidate, InHand
  <2>2. \/ \E o \in Outcomes : Decide(o) /\ NextEntry /\ pending \ {Entry} \subseteq pending'
        \/ wstep' \in {"validate", "commit"} /\ UNCHANGED <<pending, batch, outcome>>
    BY <1>3 DEF WCheckMarker, WValidate, WFail, Ack, Outcomes
  <2> QED
    BY <2>1, <2>2, OnToNext, StayOnEntry
<1>4. CASE WCommit
  <2>1. wstep \in InHand /\ cursor' = cursor
    BY <1>4 DEF WCommit, InHand
  <2>2. CASE WFail
    BY <2>1, <2>2, OnToNext DEF WFail, Outcomes
  <2>3. ASSUME NEW o \in {"stored", "duplicate"}, Decide(o), UNCHANGED <<pending, batch>>
        PROVE  WorkerHolds'
    <3>1. outcome'[Entry] = o
      BY <1>0, <2>1, <2>3, EntryInHand DEF Decide, TypeOK
    <3> QED
      BY <2>1, <2>3, <3>1, StayOnEntry
  <2> QED
    BY <1>4, <2>2, <2>3 DEF WCommit
<1>5. CASE WAudit \/ WMark
  <2>1. wstep \in {"audit", "mark"} /\ UNCHANGED <<batch, pending, cursor, outcome>>
    BY <1>5 DEF WAudit, WMark, redis
  <2>2. outcome[Entry] \in {"stored", "duplicate"} /\ wstep \in InHand
    BY <1>0, <2>1 DEF WorkerHolds, InHand
  <2> QED
    BY <2>1, <2>2, StayOnEntry
<1>6. CASE WAck
  <2>1. wstep \in InHand /\ NextEntry /\ UNCHANGED <<cursor, outcome>>
        /\ pending \ {Entry} \subseteq pending'
    BY <1>6 DEF WAck, Ack, InHand
  <2> QED
    BY <2>1, OnToNext DEF Outcomes
<1>7. CASE WCrash \/ WStart
  <2>1. wstep' \in {"down", "read", "off"} /\ UNCHANGED <<cursor, outcome, pending>>
        /\ batch' \in {<<>>, batch}
    BY <1>7 DEF WCrash, WStart, redis
  <2> QED
    BY <1>0, <2>1 DEF WorkerHolds, InHand
<1> QED
  BY <1>0, <1>1, <1>2, <1>3, <1>4, <1>5, <1>6, <1>7, Cases, HandlerFrame, OtherFrame
  DEF WorkerStep

LEMMA UndecidedKept ==
    ASSUME IInv, [Next]_vars
    PROVE  NothingDroppedUndecided'
<1>0. /\ TypeOK /\ NothingDroppedUndecided
      /\ cursor \in 0..Len(stream) /\ Len(stream) \in Nat /\ cursor \in Nat
      /\ \A i \in 1..Len(stream) : stream[i] \in Requests /\ step[stream[i]] # "idle"
  <2>1. TypeOK /\ NothingDroppedUndecided /\ stream \in Seq(Requests)
        /\ cursor \in 0..Len(stream)
    BY DEF IInv, TypeOK
  <2>2. \A i \in 1..Len(stream) : step[stream[i]] # "idle"
    BY DEF IInv, RequestsPlaced, Accepted
  <2> QED
    BY <2>1, <2>2
<1>1. ASSUME NEW i \in 1..cursor, outcome[i] \in {"stored", "duplicate"}
      PROVE  HasVote(job[stream[i]])'
  <2>1. PICK q \in Requests : q = stream[i] /\ step[q] # "idle" /\ HasVote(job[q])
    BY <1>0, <1>1 DEF NothingDroppedUndecided
  <2>2. HasVote(job[q])' /\ stream'[i] = q
    BY <1>0, <2>1, JobVoteStays, StepGrows DEF Grows
  <2> QED
    BY <2>2 DEF HasVote
<1>2. ASSUME UNCHANGED <<cursor, outcome>>,
             \A i \in 1..cursor : i \in pending =>
                    i \in pending' \/ outcome[i] \notin {"none", "failed"}
      PROVE  NothingDroppedUndecided'
  BY <1>0, <1>1, <1>2 DEF NothingDroppedUndecided
<1>3. ASSUME NEW e \in 1..cursor, NEW o \in Outcomes, cursor' = cursor,
             outcome' = [outcome EXCEPT ![e] = o], pending \ {e} \subseteq pending',
             o \in {"none", "failed"} => e \in pending',
             o \in {"stored", "duplicate"} => HasVote(job[stream[e]])'
      PROVE  NothingDroppedUndecided'
  <2>1. \A i \in 1..cursor : i \in Entries
    BY <1>0, EntriesSuffice DEF IInv
  <2>2. \A i \in 1..cursor : outcome'[i] = IF i = e THEN o ELSE outcome[i]
    BY <1>0, <1>3, <2>1 DEF TypeOK
  <2>3. ASSUME NEW i \in 1..cursor
        PROVE  /\ i \in pending' \/ outcome'[i] \notin {"none", "failed"}
               /\ outcome'[i] \in {"stored", "duplicate"} => HasVote(job[stream[i]])'
    <3>1. CASE i = e
      BY <1>3, <2>2, <3>1
    <3>2. CASE i # e
      BY <1>0, <1>1, <1>3, <2>2, <3>2 DEF NothingDroppedUndecided
    <3> QED
      BY <3>1, <3>2
  <2> QED
    BY <1>3, <2>3 DEF NothingDroppedUndecided
<1>4. CASE UNCHANGED <<cursor, pending, worker>>
  BY <1>2, <1>4 DEF worker
<1>5. CASE Read
  <2> DEFINE n == Cardinality(Deliverable)
  <2>1. n \in Nat \ {0} /\ cursor + n <= Len(stream) /\ Deliverable = cursor + 1 .. cursor + n
    BY <1>0, <1>5, Delivered DEF Read
  <2>2. cursor' = cursor + n /\ pending' = pending \union Deliverable /\ outcome' = outcome
    BY <1>5 DEF Read
  <2> HIDE DEF n
  <2>3. \A i \in 1..cursor' : /\ i \in Entries
                              /\ \/ i \in 1..cursor
                                 \/ i \in pending' /\ i > cursor
    BY <1>0, <2>1, <2>2, EntriesSuffice DEF IInv
  <2>4. \A i \in 1..cursor' : i > cursor => outcome[i] = "none"
    BY <2>3 DEF IInv, WorkerHolds
  <2>5. ASSUME NEW i \in 1..cursor'
        PROVE  /\ i \in pending' \/ outcome'[i] \notin {"none", "failed"}
               /\ outcome'[i] \in {"stored", "duplicate"} => HasVote(job[stream[i]])'
    <3>1. CASE i \in 1..cursor
      BY <1>0, <1>1, <2>2, <3>1 DEF NothingDroppedUndecided
    <3>2. CASE i \in pending' /\ i > cursor
      BY <2>2, <2>4, <3>2
    <3> QED
      BY <2>3, <3>1, <3>2
  <2> QED
    BY <2>5 DEF NothingDroppedUndecided
<1>6. CASE WCheckMarker \/ WValidate
  <2>1. wstep \in InHand /\ cursor' = cursor
    BY <1>6 DEF WCheckMarker, WValidate, InHand
  <2>2. PICK e \in 1..cursor : e = Entry /\ e \in pending
    BY <2>1, EntryInHand
  <2>3. \/ UNCHANGED <<pending, outcome>>
        \/ \E o \in {"skipped", "rejected"} : Decide(o) /\ pending \ {e} \subseteq pending'
        \/ Decide("failed") /\ UNCHANGED pending
    BY <1>6, <2>2 DEF WCheckMarker, WValidate, WFail, Ack
  <2> QED
    BY <1>2, <1>3, <2>1, <2>2, <2>3 DEF Decide, Outcomes
<1>7. CASE WCommit
  <2>1. wstep \in InHand /\ cursor' = cursor /\ UNCHANGED <<stream, job, pending>>
    BY <1>7 DEF WCommit, WFail, InHand, handler
  <2>2. PICK e \in 1..cursor : e = Entry /\ e \in pending /\ stream[e] \in Requests
    BY <2>1, EntryInHand
  <2>3. CASE WFail
    BY <1>3, <2>1, <2>2, <2>3 DEF WFail, Decide, Outcomes
  <2>4. CASE Decide("stored") /\ votes' = votes \union {RowOf(stream[Entry])}
    <3> DEFINE b == RowOf(stream[e])
    <3>1. b \in votes' /\ b.poll = job[stream[e]].poll /\ b.voter = job[stream[e]].voter
      BY <2>2, <2>4 DEF RowOf
    <3>2. HasVote(job[stream[e]])'
      BY <2>1, <3>1 DEF HasVote
    <3> QED
      BY <1>3, <2>1, <2>2, <2>4, <3>2 DEF Decide, Outcomes
  <2>5. CASE Decide("duplicate") /\ Existing(WJob) /\ votes' = votes
    <3>1. HasVote(job[stream[e]])'
      BY <2>1, <2>2, <2>5 DEF HasVote, Existing, WJob
    <3> QED
      BY <1>3, <2>1, <2>2, <2>5, <3>1 DEF Decide, Outcomes
  <2> QED
    BY <1>7, <2>3, <2>4, <2>5 DEF WCommit
<1>8. CASE WAudit \/ WMark \/ WCrash \/ WStart
  BY <1>2, <1>8 DEF WAudit, WMark, WCrash, WStart, redis
<1>9. CASE WAck
  <2>1. wstep \in InHand /\ UNCHANGED <<cursor, outcome>> /\ pending \ {Entry} \subseteq pending'
        /\ outcome[Entry] \in {"stored", "duplicate"}
    BY <1>9 DEF WAck, Ack, InHand, IInv, WorkerHolds
  <2> QED
    BY <1>2, <2>1
<1> QED
  BY <1>4, <1>5, <1>6, <1>7, <1>8, <1>9, Cases, HandlerFrame, OtherFrame DEF WorkerStep, IInv

LEMMA Initially == Init => IInv
<1> SUFFICES ASSUME Init
             PROVE  IInv
  OBVIOUS
<1> USE QueueAssumption
<1>1. \E v \in Voters, p \in Polls, a \in Ballots :
        [via |-> "api", poll |-> p, voter |-> v, answers |-> a] \in Job
  BY DEF Job
<1>2. (CHOOSE j \in Job : TRUE) \in Job
  BY <1>1
<1>3. /\ stream = <<>> /\ batch = <<>> /\ Len(stream) = 0 /\ Len(batch) = 0
      /\ cursor = 0 /\ pending = {} /\ votes = {} /\ marker = {}
  BY DEF Init
<1>4. TypeOK
  <2>1. /\ stream \in Seq(Requests) /\ cursor \in 0..Len(stream) /\ batch \in Seq(1..cursor)
        /\ pending \subseteq 1..cursor
    BY <1>3
  <2>2. job \in [Requests -> Job] /\ step \in [Requests -> Steps]
    BY <1>2 DEF Init, Steps
  <2>3. async \in BOOLEAN /\ group \in BOOLEAN
    BY DEF Init
  <2>4. /\ verified \subseteq Voters /\ open \subseteq Polls /\ wstep \in WorkerSteps
        /\ outcome \in [Entries -> Outcomes] /\ faults \in 0..MaxFaults
        /\ reply \in [Requests -> {0, 201, 202, 400, 401, 409, 410, 500, 503}]
    BY DEF Init, WorkerSteps, Outcomes
  <2> QED
    BY <1>3, <2>1, <2>2, <2>3, <2>4 DEF TypeOK
<1>5. RequestsPlaced /\ StreamOnce /\ MarksMeanVotes
  BY <1>3 DEF Init, RequestsPlaced, StreamOnce, MarksMeanVotes, MarkerMeansVote
<1>6. WorkerHolds /\ NothingDroppedUndecided /\ OneVotePerVoter
  BY <1>3 DEF Init, WorkerHolds, InHand, NothingDroppedUndecided, OneVotePerVoter
<1> QED
  BY <1>4, <1>5, <1>6 DEF IInv

-------------------------------------------------------------------------------
(* Theorems *)

THEOREM Invariance == Spec => []IInv
<1>1. IInv /\ [Next]_vars => IInv'
  BY TypePreserved, RequestsKept, MarksKept, WorkerKept, UndecidedKept, OneVoteKept
  DEF IInv
<1> QED
  BY Initially, <1>1, PTL DEF Spec

\* Redis, the table and the worker keep to their types.
THEOREM TypeCorrect == Spec => []TypeOK
<1>1. IInv => TypeOK
  BY DEF IInv
<1> QED
  BY Invariance, <1>1, PTL

\* A voter has one vote per poll, whether it came by the API, the form or the queue,
\* whatever failed and however often it was submitted.
THEOREM OneVote == Spec => []OneVotePerVoter
<1>1. IInv => OneVotePerVoter
  BY DEF IInv
<1> QED
  BY Invariance, <1>1, PTL

\* Without the queue the shortcut in Redis turns away nobody who has not voted.
THEOREM MarkersAreTrue == Spec => []MarkerMeansVote
<1>1. IInv => MarkerMeansVote
  BY DEF IInv, MarksMeanVotes
<1> QED
  BY Invariance, <1>1, PTL

\* Who was told no has no vote in the table, then or later.
THEOREM NoMeansNo == Spec => []RefusedNeverCounted
<1>1. IInv => RefusedNeverCounted
  BY DEF IInv, RequestsPlaced, Accepted, RefusedNeverCounted
<1> QED
  BY Invariance, <1>1, PTL

\* The worker acknowledges only what it has decided on, and what it calls stored or a
\* duplicate is a vote in the table, through any crashes and lost acknowledgements.
THEOREM NothingLostSilently == Spec => []NothingDroppedUndecided
<1>1. IInv => NothingDroppedUndecided
  BY DEF IInv
<1> QED
  BY Invariance, <1>1, PTL

-------------------------------------------------------------------------------
(* The ledger *)

\* Who was told 201, or is about to be, has that very vote in the table.
ReceiptsHeld ==
    \A q \in Requests :
        \/ step[q] = "done" /\ reply[q] = 201
        \/ step[q] = "mark" /\ ~async
        => RowOf(q) \in votes

LEMMA ReceiptsKept ==
    ASSUME IInv, ReceiptsHeld, [Next]_vars
    PROVE  ReceiptsHeld'
<1>0. TypeOK
  BY DEF IInv
<1>1. votes \subseteq votes' /\ async' = async
  BY <1>0, StepGrows, Cases, HandlerFrame, WorkerFrame, OtherFrame DEF Grows
<1>2. ASSUME NEW r \in Requests,
             step'[r] = step[r] /\ job'[r] = job[r] /\ reply'[r] = reply[r]
      PROVE  (\/ step[r] = "done" /\ reply[r] = 201
              \/ step[r] = "mark" /\ ~async
              => RowOf(r) \in votes)'
  <2>1. RowOf(r)' = RowOf(r)
    BY <1>2 DEF RowOf
  <2> QED
    BY <1>1, <1>2, <2>1 DEF ReceiptsHeld
<1>3. ASSUME NEW q \in Requests, HandlerStep(q)
      PROVE  ReceiptsHeld'
  <2>1. ASSUME \/ step'[q] = "done" /\ reply'[q] = 201
               \/ step'[q] = "mark" /\ ~async
        PROVE  RowOf(q)' \in votes'
    <3>1. Commit(q) \/ Mark(q)
      <4>1. ~(SubmitApi(q) \/ SubmitUI(q))
        BY <1>0, <2>1 DEF SubmitApi, SubmitUI, Submit, TypeOK
      <4>2. ~(CheckMarker(q) \/ Validate(q) \/ CrashApi(q))
        BY <1>0, <2>1 DEF CheckMarker, Validate, CrashApi, Continue, Answer, AfterMarker,
                          Refusals, TypeOK
      <4>3. ~Enqueue(q)
        BY <1>0, <2>1 DEF Enqueue, Continue, Answer, IInv, StreamOnce, TypeOK
      <4> QED
        BY <1>3, <4>1, <4>2, <4>3 DEF HandlerStep
    <3>2. CASE Commit(q)
      <4>1. votes' = votes \union {RowOf(q)} /\ job' = job
        BY <1>0, <2>1, <3>2 DEF Commit, Stored, Continue, Answer, TypeOK
      <4> QED
        BY <4>1 DEF RowOf
    <3>3. CASE Mark(q)
      <4>1. ~async /\ step[q] = "mark" /\ job' = job
        BY <1>0, <2>1, <3>3 DEF Mark, Answer, TypeOK
      <4> QED
        BY <1>1, <4>1 DEF ReceiptsHeld, RowOf
    <3> QED
      BY <3>1, <3>2, <3>3
  <2> QED
    BY <1>0, <1>1, <1>2, <1>3, <2>1, HandlerFrame DEF ReceiptsHeld
<1>4. CASE WorkerStep \/ WCrash \/ OtherStep
  BY <1>2, <1>4, WorkerFrame, OtherFrame DEF ReceiptsHeld
<1> QED
  BY <1>3, <1>4, Cases

LEMMA EntryInLedger ==
    ASSUME TypeOK, NEW q \in Requests
    PROVE  EntryOf(job[q]) \in Ledger!Entries
<1>1. job[q].poll \in Polls /\ job[q].voter \in Voters /\ job[q].answers \in Ballots
  BY DEF TypeOK, Job
<1> QED
  BY <1>1 DEF EntryOf, Ledger!Entries

\* VoteQueue implements VoteLedger: a commit, of a handler or of the worker, records an
\* entry the ledger does not have; the 201 of the form goes out with it, that of the JSON
\* API after the marker; everything else is a stutter.
THEOREM LedgerImplemented == Spec => ImplementsLedger
<1> DEFINE Rows == {EntryOf(b) : b \in votes}
           Sent == {r \in Requests : step[r] = "done" /\ reply[r] = 201}
           Told == {EntryOf(job[r]) : r \in Sent}
<1>1. Init => ReceiptsHeld /\ Ledger!Init
  BY DEF Init, ReceiptsHeld, Ledger!Init
<1>2. IInv /\ ReceiptsHeld /\ [Next]_vars => [Ledger!Next]_Ledger!vars
  <2> SUFFICES ASSUME IInv, ReceiptsHeld, [Next]_vars
               PROVE  [Ledger!Next]_Ledger!vars
    OBVIOUS
  <2>0. TypeOK
    BY DEF IInv
  <2>1. ASSUME NEW q \in Requests, ~Existing(job[q]), votes' = votes \union {RowOf(q)},
               Sent' \in {Sent, Sent \union {q}}, \A r \in Sent' : job'[r] = job[r]
        PROVE  Ledger!Next
    <3>1. Rows' = Rows \union {EntryOf(job[q])}
      <4>1. EntryOf(RowOf(q)) = EntryOf(job[q])
        BY DEF EntryOf, RowOf
      <4>2. Rows' = Rows \union {EntryOf(RowOf(q))}
        BY <2>1 DEF EntryOf
      <4> QED
        BY <4>1, <4>2
    <3>2. ~Ledger!HasBallot(job[q].poll, job[q].voter)
      BY <2>1 DEF Ledger!HasBallot, EntryOf, Existing
    <3>3. Told' \in {Told, Told \union {EntryOf(job[q])}}
      BY <2>1 DEF EntryOf
    <3>4. PICK e \in Ledger!Entries : e = EntryOf(job[q])
      BY <2>0, EntryInLedger
    <3>5. e.poll = job[q].poll /\ e.voter = job[q].voter
      BY <3>4 DEF EntryOf
    <3>6. Ledger!Record(e)
      BY <3>1, <3>2, <3>3, <3>4, <3>5 DEF Ledger!Record
    <3> QED
      BY <3>6 DEF Ledger!Next
  <2>2. CASE votes' = votes /\ Sent' = Sent /\ \A r \in Sent : job'[r] = job[r]
    <3>1. Rows' = Rows /\ Told' = Told
      BY <2>2
    <3> QED
      BY <3>1 DEF Ledger!vars
  <2>3. ASSUME NEW q \in Requests, Mark(q)
        PROVE  [Ledger!Next]_Ledger!vars
    <3>1. votes' = votes /\ job' = job /\ step[q] = "mark"
      BY <2>3 DEF Mark, Answer
    <3>2. CASE async
      <4>1. Sent' = Sent
        BY <2>0, <2>3, <3>2 DEF Mark, Answer, TypeOK
      <4> QED
        BY <2>2, <3>1, <4>1
    <3>3. CASE ~async
      <4>1. Sent' = Sent \union {q}
        BY <2>0, <2>3, <3>3 DEF Mark, Answer, TypeOK
      <4>2. Rows' = Rows /\ Told' = Told \union {EntryOf(job[q])}
        BY <3>1, <4>1
      <4>3. RowOf(q) \in votes /\ EntryOf(RowOf(q)) = EntryOf(job[q])
        BY <3>1, <3>3 DEF ReceiptsHeld, RowOf, EntryOf
      <4>4. PICK e \in Ledger!Entries : e = EntryOf(job[q])
        BY <2>0, EntryInLedger
      <4>5. e \in Rows
        BY <4>3, <4>4
      <4>6. Ledger!Acknowledge(e)
        BY <4>2, <4>4, <4>5 DEF Ledger!Acknowledge
      <4> QED
        BY <4>6 DEF Ledger!Next
    <3> QED
      BY <3>2, <3>3
  <2>4. ASSUME NEW q \in Requests, Commit(q)
        PROVE  [Ledger!Next]_Ledger!vars
    <3>1. job' = job /\ step[q] = "commit"
      BY <2>4 DEF Commit, Stored, Continue, Answer
    <3>2. CASE ~Existing(job[q]) /\ votes' = votes \union {RowOf(q)} /\ Stored(q)
      <4>1. Sent' \in {Sent, Sent \union {q}}
        <5>1. CASE Continue(q, "mark")
          BY <2>0, <3>1, <5>1 DEF Continue, TypeOK
        <5>2. CASE Answer(q, 201)
          BY <2>0, <3>1, <5>2 DEF Answer, TypeOK
        <5> QED
          BY <3>2, <5>1, <5>2 DEF Stored
      <4> QED
        BY <2>1, <3>1, <3>2, <4>1
    <3>3. CASE (Answer(q, 409) \/ Answer(q, 500)) /\ votes' = votes
      <4>1. Sent' = Sent
        BY <2>0, <3>1, <3>3 DEF Answer, TypeOK
      <4> QED
        BY <2>2, <3>1, <3>3, <4>1
    <3> QED
      BY <2>4, <3>2, <3>3 DEF Commit
  <2>5. ASSUME NEW q \in Requests,
               \/ SubmitApi(q) \/ SubmitUI(q) \/ CheckMarker(q) \/ Enqueue(q)
               \/ Validate(q) \/ CrashApi(q)
        PROVE  [Ledger!Next]_Ledger!vars
    <3>1. HandlerStep(q)
      BY <2>5 DEF HandlerStep
    <3>2. votes' = votes
      BY <2>5 DEF SubmitApi, SubmitUI, Submit, CheckMarker, Enqueue, Validate, CrashApi
    <3>3. step[q] # "done" /\ ~(step'[q] = "done" /\ reply'[q] = 201)
      BY <2>0, <2>5 DEF SubmitApi, SubmitUI, Submit, CheckMarker, Enqueue, Validate,
                        CrashApi, Continue, Answer, AfterMarker, Refusals, TypeOK
    <3>4. Sent' = Sent /\ \A r \in Sent : job'[r] = job[r]
      BY <2>0, <3>1, <3>3, HandlerFrame
    <3> QED
      BY <2>2, <3>2, <3>4
  <2>6. CASE WorkerStep \/ WCrash
    <3>1. Sent' = Sent /\ job' = job
      BY <2>6, WorkerFrame
    <3>2. CASE votes' = votes
      BY <2>2, <3>1, <3>2
    <3>3. CASE WCommit /\ ~Existing(WJob) /\ votes' = votes \union {RowOf(stream[Entry])}
      <4>1. PICK q \in Requests : q = stream[Entry]
        BY <3>3, EntryInHand DEF WCommit, InHand
      <4> QED
        BY <2>1, <3>1, <3>3, <4>1 DEF WJob
    <3> QED
      BY <2>6, <3>2, <3>3
      DEF WorkerStep, Read, WCheckMarker, WValidate, WCommit, WAudit, WMark, WAck,
          WStart, WCrash
  <2>7. CASE OtherStep
    <3>1. Sent' = Sent /\ job' = job /\ votes' = votes
      BY <2>7, OtherFrame
    <3> QED
      BY <2>2, <3>1
  <2> QED
    BY <2>3, <2>4, <2>5, <2>6, <2>7, Cases DEF HandlerStep
<1>3. IInv /\ ReceiptsHeld /\ [Next]_vars => ReceiptsHeld'
  BY ReceiptsKept
<1> QED
  BY <1>1, <1>2, <1>3, Invariance, PTL DEF Spec, ImplementsLedger, Ledger!Spec
===============================================================================
