--------------------------- MODULE PollBoardProofs ----------------------------
(***************************************************************************)
(* Theorems about PollBoard, for any polls, calls and windows.  What goes  *)
(* into a cache was read earlier, so the invariant says of every call what *)
(* it says of the cache the call will fill: a tally on its way covers what *)
(* a cached one must, and a list on its way shows what is in the tables.   *)
(***************************************************************************)
EXTENDS PollBoard, TLAPS

\* Tallies in flight and in the cache lie between the floor and the votes.
TalliesBetween ==
    /\ \A p \in Polls : floor[p] <= votes[p]
    /\ \A c \in Calls :
            pc[c] = "keep" => /\ floor[work[c].poll] <= work[c].seen
                              /\ work[c].seen <= votes[work[c].poll]
    /\ \A c \in Calls : pc[c] = "stats" => work[c].seen <= votes[work[c].poll]

\* What a list says of a poll is so in the tables.
Honest(l) ==
    \A p \in l.shown :
        /\ Exists(p) /\ l.answers[p] <= polls[p].answers
        /\ InUTC(polls[p]) => IsActive(polls[p], MadeIn(l))

ListsHonest ==
    /\ \A c \in Calls : pc[c] \in {"fetch", "store"} => Honest(work[c].list)
    /\ list # NoEntry => Honest(list)

\* A creator at work has a poll.
CreatorsHavePoll == \A c \in Calls : pc[c] = "insert" => Exists(work[c].poll)

IInv ==
    /\ TypeOK
    /\ CreatorsHavePoll
    /\ TalliesBetween
    /\ FreshUnlessRaced
    /\ StatsNotBehind
    /\ ListsHonest

-------------------------------------------------------------------------------
(* Types *)

LEMMA NoWorkType == NoList \in List /\ NoWork \in Work
BY BoardAssumption DEF NoWork, Work, NoList, List

\* The fields of a poll's row.
LEMMA RowType ==
    ASSUME TypeOK, NEW p \in Polls, Exists(p)
    PROVE  /\ polls[p] \in PollRow
           /\ polls[p].answers \in Nat
           /\ [polls[p] EXCEPT !.answers = @ + 1] \in PollRow
BY DEF TypeOK, Exists, PollRow

\* A call that goes on with well-typed work is well typed.
LEMMA GotoType ==
    ASSUME TypeOK, NEW c \in Calls, NEW step \in Steps, NEW w \in Work, Goto(c, step, w)
    PROVE  /\ pc' \in [Calls -> Steps] /\ work' \in [Calls -> Work]
           /\ pc'[c] = step /\ work'[c] = w
           /\ \A d \in Calls \ {c} : pc'[d] = pc[d] /\ work'[d] = work[d]
BY DEF Goto, TypeOK

\* Each handler's next work is well typed.
LEMMA WorkTypes ==
    ASSUME TypeOK, NEW c \in Calls, NEW p \in Polls
    PROVE  /\ \A n \in Nat, api \in BOOLEAN :
                [NoWork EXCEPT !.poll = p, !.left = n, !.api = api] \in Work
           /\ work[c].left > 0 => [work[c] EXCEPT !.left = @ - 1] \in Work
           /\ [NoWork EXCEPT !.poll = p] \in Work
           /\ \A n \in Nat : [NoWork EXCEPT !.poll = p, !.seen = n] \in Work
           /\ \A n \in Nat : [work[c] EXCEPT !.seen = n] \in Work
           /\ \A l \in List : [NoWork EXCEPT !.list = l] \in Work
           /\ \A l \in List : [work[c] EXCEPT !.list = l] \in Work
<1>1. NoWork \in Work /\ work[c] \in Work
  BY NoWorkType DEF TypeOK
<1>2. ASSUME NEW n \in Nat, NEW api \in BOOLEAN
      PROVE  [NoWork EXCEPT !.poll = p, !.left = n, !.api = api] \in Work
  <2> DEFINE w == [NoWork EXCEPT !.poll = p, !.left = n]
  <2>1. w \in Work
    BY <1>1 DEF Work
  <2>2. [NoWork EXCEPT !.poll = p, !.left = n, !.api = api] = [w EXCEPT !.api = api]
    OBVIOUS
  <2> HIDE DEF w
  <2> QED
    BY <2>1, <2>2 DEF Work
<1>3. work[c].left > 0 => [work[c] EXCEPT !.left = @ - 1] \in Work
  BY <1>1 DEF Work
<1>4. [NoWork EXCEPT !.poll = p] \in Work
  BY <1>1 DEF Work
<1>5. ASSUME NEW n \in Nat
      PROVE  /\ [NoWork EXCEPT !.poll = p, !.seen = n] \in Work
             /\ [work[c] EXCEPT !.seen = n] \in Work
  BY <1>1, <1>5 DEF Work
<1>6. ASSUME NEW l \in List
      PROVE  /\ [NoWork EXCEPT !.list = l] \in Work
             /\ [work[c] EXCEPT !.list = l] \in Work
  BY <1>1, <1>6 DEF Work
<1> QED
  BY <1>2, <1>3, <1>4, <1>5, <1>6

\* The lists a query makes are well typed.
LEMMA ListTypes ==
    ASSUME TypeOK
    PROVE  /\ [NoList EXCEPT !.made = now, !.shown = OpenPolls] \in List
           /\ \A l \in List : (\A p \in l.shown : Exists(p)) => WithAnswers(l) \in List
<1>1. [NoList EXCEPT !.made = now, !.shown = OpenPolls] \in List
  <2>1. now \in Nat /\ OpenPolls \in SUBSET Polls
    BY BoardAssumption DEF TypeOK, OpenPolls
  <2> DEFINE l == [NoList EXCEPT !.made = now]
  <2>2. l \in List
    BY <2>1, NoWorkType DEF List
  <2>3. [NoList EXCEPT !.made = now, !.shown = OpenPolls] = [l EXCEPT !.shown = OpenPolls]
    OBVIOUS
  <2> HIDE DEF l
  <2> QED
    BY <2>1, <2>2, <2>3 DEF List
<1>2. ASSUME NEW l \in List, \A p \in l.shown : Exists(p)
      PROVE  WithAnswers(l) \in List
  <2>1. \A p \in Polls : (IF p \in l.shown THEN polls[p].answers ELSE 0) \in Nat
    BY <1>2, RowType
  <2> QED
    BY <2>1 DEF WithAnswers, List
<1> QED
  BY <1>1, <1>2

LEMMA TypePreserved ==
    ASSUME IInv, [Next]_vars
    PROVE  TypeOK'
<1> USE BoardAssumption DEF IInv
<1>0. /\ \A c \in Calls : work[c] \in Work /\ work[c].poll \in Polls /\ work[c].seen \in Nat
      /\ \A p \in Polls : votes[p] \in Nat
      /\ NoWork \in Work
  BY NoWorkType DEF TypeOK, Work
<1>1. ASSUME NEW c \in Calls, Create(c)
      PROVE  TypeOK'
  <2>1. CASE InsertPoll(c)
    <3>1. PICK p \in Polls, w \in Windows, api \in BOOLEAN, n \in 0..MaxAnswers :
              /\ polls' = [polls EXCEPT ![p] =
                              [start |-> w.start, end |-> w.end, answers |-> 0]]
              /\ Goto(c, "insert", [NoWork EXCEPT !.poll = p, !.left = n, !.api = api])
      BY <2>1 DEF InsertPoll
    <3>2. polls' \in [Polls -> PollRow \union {NoRow}]
      BY <3>1 DEF TypeOK, PollRow
    <3>3. n \in Nat
      OBVIOUS
    <3>4. [NoWork EXCEPT !.poll = p, !.left = n, !.api = api] \in Work
      BY <3>3, WorkTypes
    <3> QED
      BY <2>1, <3>1, <3>2, <3>4, GotoType DEF InsertPoll, TypeOK, Steps
  <2>2. CASE InsertAnswer(c)
    <3>1. [work[c] EXCEPT !.left = @ - 1] \in Work
      BY <1>0, <2>2, WorkTypes DEF InsertAnswer
    <3>2. polls' \in [Polls -> PollRow \union {NoRow}]
      BY <1>0, <2>2, RowType DEF InsertAnswer, CreatorsHavePoll, TypeOK
    <3> QED
      BY <2>2, <3>1, <3>2, GotoType DEF InsertAnswer, TypeOK, Steps
  <2>3. CASE Created(c)
    BY <1>0, <2>3, GotoType DEF Created, Finish, TypeOK, Steps
  <2> QED
    BY <1>1, <2>1, <2>2, <2>3 DEF Create
<1>2. ASSUME NEW c \in Calls, Show(c)
      PROVE  TypeOK'
  <2>1. CASE ListPolls(c) \/ LookUp(c)
    BY <1>0, <2>1, GotoType DEF ListPolls, LookUp, Finish, TypeOK, Steps
  <2>2. CASE QueryPolls(c)
    BY <2>2, WorkTypes, ListTypes, GotoType DEF QueryPolls, TypeOK, Steps
  <2>3. CASE FetchAnswers(c)
    <3>1. WithAnswers(work[c].list) \in List
      BY <1>0, <2>3, ListTypes DEF FetchAnswers, ListsHonest, Honest, Work
    <3> QED
      BY <2>3, <3>1, WorkTypes, GotoType DEF FetchAnswers, TypeOK, Steps
  <2>4. CASE StoreList(c)
    BY <1>0, <2>4, GotoType DEF StoreList, Finish, TypeOK, Steps, Work
  <2>5. CASE ReadResults(c) \/ CountVotes(c)
    <3>1. PICK p \in Polls : \/ Goto(c, "tally", [NoWork EXCEPT !.poll = p])
                             \/ Goto(c, "stats", [NoWork EXCEPT !.poll = p, !.seen = votes[p]])
      BY <2>5 DEF ReadResults, CountVotes
    <3>2. [NoWork EXCEPT !.poll = p] \in Work
          /\ [NoWork EXCEPT !.poll = p, !.seen = votes[p]] \in Work
      BY <1>0, WorkTypes
    <3>3. UNCHANGED <<now, polls, votes, list, results, page, floor>>
      BY <2>5 DEF ReadResults, CountVotes
    <3> QED
      BY <3>1, <3>2, <3>3, GotoType DEF TypeOK, Steps
  <2>6. CASE GetResults(c)
    BY <1>0, <2>6, WorkTypes, GotoType DEF GetResults, TypeOK, Steps
  <2>7. CASE StoreResults(c)
    BY <1>0, <2>7, GotoType DEF StoreResults, Finish, TypeOK, Steps
  <2>8. CASE ShowStats(c)
    BY <1>0, <2>8, GotoType DEF ShowStats, Finish, TypeOK, Steps
  <2> QED
    BY <1>2, <2>1, <2>2, <2>3, <2>4, <2>5, <2>6, <2>7, <2>8 DEF Show
<1>3. ASSUME NEW c \in Calls, Vote(c) \/ Repeat(c) \/ Invalidate(c) \/ Abandon(c)
      PROVE  TypeOK'
  <2>1. CASE Vote(c)
    <3>1. PICK p \in Polls :
              /\ votes' = [votes EXCEPT ![p] = @ + 1]
              /\ Goto(c, "drop", [NoWork EXCEPT !.poll = p]) \/ UNCHANGED call
      BY <2>1 DEF Vote
    <3>2. votes' \in [Polls -> Nat]
      BY <1>0, <3>1 DEF TypeOK
    <3> QED
      BY <2>1, <3>1, <3>2, WorkTypes, GotoType DEF Vote, call, TypeOK, Steps
  <2>2. CASE Repeat(c)
    BY <2>2, WorkTypes, GotoType DEF Repeat, TypeOK, Steps
  <2>3. CASE Invalidate(c)
    BY <1>0, <2>3, GotoType DEF Invalidate, RaiseFloor, Finish, TypeOK, Steps
  <2>4. CASE Abandon(c)
    BY <1>0, <2>4, GotoType DEF Abandon, Finish, TypeOK, Steps
  <2> QED
    BY <1>3, <2>1, <2>2, <2>3, <2>4
<1>4. CASE ExpireList \/ (\E p \in Polls : ExpireResults(p)) \/ Tick \/ UNCHANGED vars
  BY <1>4 DEF ExpireList, ExpireResults, Tick, vars, call, TypeOK
<1> QED
  BY <1>1, <1>2, <1>3, <1>4 DEF Next

-------------------------------------------------------------------------------
(* What the tables go through *)

\* No statement removes a poll, changes its dates or takes an answer away.
Kept ==
    \A p \in Polls : Exists(p) =>
        /\ Exists(p)'
        /\ polls'[p].start = polls[p].start /\ polls'[p].end = polls[p].end
        /\ polls'[p].answers \in Nat /\ polls'[p].answers >= polls[p].answers

LEMMA PollsKept ==
    ASSUME IInv, [Next]_vars
    PROVE  Kept
<1>0. TypeOK /\ CreatorsHavePoll
  BY DEF IInv
<1>a. \A p \in Polls : Exists(p) => polls[p].answers \in Nat
  BY <1>0, RowType
<1>1. CASE UNCHANGED polls
  <2>1. ASSUME NEW p \in Polls, Exists(p)
        PROVE  /\ Exists(p)' /\ polls'[p] = polls[p]
               /\ polls'[p].answers \in Nat /\ polls'[p].answers >= polls[p].answers
    BY <1>a, <1>1, <2>1 DEF Exists
  <2> QED
    BY <2>1 DEF Kept
<1>2. ASSUME NEW c \in Calls, InsertPoll(c)
      PROVE  Kept
  <2>1. PICK q \in Polls, w \in Windows :
            /\ ~Exists(q)
            /\ polls' = [polls EXCEPT ![q] =
                            [start |-> w.start, end |-> w.end, answers |-> 0]]
    BY <1>2 DEF InsertPoll
  <2>2. ASSUME NEW p \in Polls, Exists(p)
        PROVE  /\ Exists(p)' /\ polls'[p] = polls[p]
               /\ polls'[p].answers \in Nat /\ polls'[p].answers >= polls[p].answers
    BY <1>0, <1>a, <2>1, <2>2 DEF Exists, TypeOK
  <2> QED
    BY <2>2 DEF Kept
<1>3. ASSUME NEW c \in Calls, InsertAnswer(c)
      PROVE  Kept
  <2> DEFINE q == work[c].poll
             new == [polls[q] EXCEPT !.answers = @ + 1]
  <2>1. q \in Polls /\ Exists(q)
    BY <1>0, <1>3 DEF InsertAnswer, CreatorsHavePoll, TypeOK, Work
  <2>2. new \in PollRow /\ new.start = polls[q].start /\ new.end = polls[q].end
        /\ new.answers = polls[q].answers + 1 /\ polls[q].answers \in Nat
    BY <1>0, <2>1, RowType DEF PollRow
  <2>3. polls' = [polls EXCEPT ![q] = new]
    BY <1>3 DEF InsertAnswer
  <2> HIDE DEF new, q
  <2>4. new # NoRow
    BY <2>2, BoardAssumption
  <2>5. ASSUME NEW p \in Polls, Exists(p)
        PROVE  /\ Exists(p)'
               /\ polls'[p].start = polls[p].start /\ polls'[p].end = polls[p].end
               /\ polls'[p].answers \in Nat /\ polls'[p].answers >= polls[p].answers
    <3>1. CASE p = q
      BY <1>0, <2>1, <2>2, <2>3, <2>4, <3>1 DEF Exists, TypeOK
    <3>2. CASE p # q
      BY <1>0, <1>a, <2>3, <2>5, <3>2 DEF Exists, TypeOK
    <3> QED
      BY <3>1, <3>2
  <2> QED
    BY <2>5 DEF Kept
<1>4. UNCHANGED polls \/ \E c \in Calls : InsertPoll(c) \/ InsertAnswer(c)
  BY DEF Next, vars, Create, Show, Created, ListPolls, LookUp, QueryPolls, FetchAnswers,
         StoreList, ReadResults, GetResults, StoreResults, CountVotes, ShowStats, Abandon,
         Vote, Repeat, Invalidate, ExpireList, ExpireResults, Tick
<1> QED
  BY <1>1, <1>2, <1>3, <1>4

\* The step of a call leaves the other calls alone.
Alone(c) == \A d \in Calls \ {c} : pc'[d] = pc[d] /\ work'[d] = work[d]

LEMMA OneCallMoves ==
    ASSUME TypeOK, NEW c \in Calls, NEW step, NEW w, Goto(c, step, w)
    PROVE  Alone(c) /\ pc'[c] = step /\ work'[c] = w
BY DEF Goto, TypeOK, Alone

\* What calls hold is in the types.
LEMMA WorkOf ==
    ASSUME TypeOK, NEW c \in Calls
    PROVE  /\ work[c].poll \in Polls /\ work[c].seen \in Nat /\ work[c].list \in List
           /\ votes[work[c].poll] \in Nat /\ floor[work[c].poll] \in Nat
BY DEF TypeOK, Work

-------------------------------------------------------------------------------
(* The invariant is kept *)

LEMMA CreatorsKept ==
    ASSUME IInv, [Next]_vars
    PROVE  CreatorsHavePoll'
<1>0. TypeOK /\ Kept /\ NoWork \in Work
  BY PollsKept, NoWorkType DEF IInv
<1>1. ASSUME NEW d \in Calls, pc[d] = "insert", work'[d].poll = work[d].poll
      PROVE  Exists(work[d].poll)'
  BY <1>0, <1>1, WorkOf DEF IInv, CreatorsHavePoll, Kept, Exists
<1>2. ASSUME NEW c \in Calls, Create(c)
      PROVE  CreatorsHavePoll'
  <2>1. CASE InsertPoll(c)
    <3>1. PICK p \in Polls, w \in Windows, api \in BOOLEAN, n \in 0..MaxAnswers :
              /\ polls' = [polls EXCEPT ![p] =
                              [start |-> w.start, end |-> w.end, answers |-> 0]]
              /\ Goto(c, "insert", [NoWork EXCEPT !.poll = p, !.left = n, !.api = api])
      BY <2>1 DEF InsertPoll
    <3>2. [NoWork EXCEPT !.poll = p, !.left = n, !.api = api].poll = p
      BY <1>0 DEF Work
    <3>3. work'[c].poll = p /\ Alone(c)
      BY <1>0, <3>1, <3>2, OneCallMoves
    <3>4. [start |-> w.start, end |-> w.end, answers |-> 0] \in PollRow
      BY BoardAssumption DEF PollRow
    <3>5. polls'[p] # NoRow
      BY <1>0, <3>1, <3>4, BoardAssumption DEF TypeOK
    <3> QED
      BY <1>1, <3>3, <3>5 DEF CreatorsHavePoll, Alone, Exists
  <2>2. CASE InsertAnswer(c)
    <3>1. pc[c] = "insert" /\ Goto(c, "insert", [work[c] EXCEPT !.left = @ - 1])
      BY <2>2 DEF InsertAnswer
    <3>2. [work[c] EXCEPT !.left = @ - 1].poll = work[c].poll
      BY <1>0 DEF TypeOK, Work
    <3>3. Alone(c) /\ work'[c].poll = work[c].poll
      BY <1>0, <3>1, <3>2, OneCallMoves
    <3> QED
      BY <1>1, <3>1, <3>3 DEF CreatorsHavePoll, Alone
  <2>3. CASE Created(c)
    <3>1. Alone(c) /\ pc'[c] # "insert"
      BY <1>0, <2>3, OneCallMoves DEF Created, Finish
    <3> QED
      BY <1>1, <3>1 DEF CreatorsHavePoll, Alone
  <2> QED
    BY <1>2, <2>1, <2>2, <2>3 DEF Create
<1>3. ASSUME NEW c \in Calls,
             Show(c) \/ Vote(c) \/ Repeat(c) \/ Invalidate(c) \/ Abandon(c)
      PROVE  CreatorsHavePoll'
  <2>1. UNCHANGED call \/ (Alone(c) /\ pc'[c] # "insert")
    BY <1>0, <1>3
    DEF Goto, TypeOK, Alone, Show, ListPolls, LookUp, QueryPolls, FetchAnswers, StoreList, ReadResults,
        GetResults, StoreResults, CountVotes, ShowStats, Vote, Repeat, Invalidate,
        Abandon, Finish
  <2> QED
    BY <1>1, <2>1 DEF CreatorsHavePoll, Alone, call
<1>4. CASE ExpireList \/ (\E p \in Polls : ExpireResults(p)) \/ Tick \/ UNCHANGED vars
  <2>1. UNCHANGED call
    BY <1>4 DEF ExpireList, ExpireResults, Tick, vars, call
  <2> QED
    BY <1>1, <2>1 DEF CreatorsHavePoll, call
<1> QED
  BY <1>2, <1>3, <1>4 DEF Next

\* What the tallies promise, together.
Tallies == TalliesBetween /\ FreshUnlessRaced /\ StatsNotBehind

\* A step that leaves them alone and reads none.
LEMMA Quiet ==
    ASSUME IInv, UNCHANGED <<votes, results, page, floor>>,
           \A d \in Calls : \/ pc'[d] = pc[d] /\ work'[d] = work[d]
                            \/ pc'[d] \notin {"keep", "stats"}
    PROVE  Tallies'
BY DEF IInv, Tallies, TalliesBetween, FreshUnlessRaced, StatsNotBehind

LEMMA TalliesKept ==
    ASSUME IInv, [Next]_vars
    PROVE  Tallies'
<1>0. TypeOK /\ Tallies /\ NoWork \in Work
  BY NoWorkType DEF IInv, Tallies
<1>1. ASSUME NEW c \in Calls, \/ Create(c) \/ Abandon(c) \/ Repeat(c)
                              \/ ListPolls(c) \/ LookUp(c) \/ QueryPolls(c)
                              \/ FetchAnswers(c) \/ StoreList(c) \/ ReadResults(c)
      PROVE  Tallies'
  <2>1. Alone(c) /\ pc'[c] \notin {"keep", "stats"}
    BY <1>0, <1>1
    DEF Goto, TypeOK, Alone, Create, InsertPoll, InsertAnswer, Created, ListPolls, LookUp, QueryPolls,
        FetchAnswers, StoreList, ReadResults, Repeat, Abandon, Finish
  <2>2. UNCHANGED <<votes, results, page, floor>>
    BY <1>1
    DEF Create, InsertPoll, InsertAnswer, Created, ListPolls, LookUp, QueryPolls,
        FetchAnswers, StoreList, ReadResults, Repeat, Abandon
  <2> QED
    BY <2>1, <2>2, Quiet DEF Alone
<1>2. ASSUME NEW c \in Calls, GetResults(c)
      PROVE  Tallies'
  <2> DEFINE p == work[c].poll
  <2>1. [work[c] EXCEPT !.seen = votes[p]].poll = p
        /\ [work[c] EXCEPT !.seen = votes[p]].seen = votes[p]
    BY <1>0 DEF TypeOK, Work
  <2>2. Alone(c) /\ pc'[c] = "keep" /\ work'[c].poll = p /\ work'[c].seen = votes[p]
    BY <1>0, <1>2, <2>1 DEF GetResults, Goto, TypeOK, Alone
  <2>3. UNCHANGED <<votes, results, page, floor>>
    BY <1>2 DEF GetResults
  <2>4. p \in Polls /\ votes[p] \in Nat /\ floor[p] <= votes[p]
    BY <1>0, WorkOf DEF Tallies, TalliesBetween
  <2> HIDE DEF p
  <2> QED
    BY <1>0, <2>2, <2>3, <2>4
    DEF Tallies, TalliesBetween, FreshUnlessRaced, StatsNotBehind, Alone
<1>3. ASSUME NEW c \in Calls, CountVotes(c)
      PROVE  Tallies'
  <2>1. PICK p \in Polls : Goto(c, "stats", [NoWork EXCEPT !.poll = p, !.seen = votes[p]])
    BY <1>3 DEF CountVotes
  <2>2. [NoWork EXCEPT !.poll = p, !.seen = votes[p]].poll = p
        /\ [NoWork EXCEPT !.poll = p, !.seen = votes[p]].seen = votes[p]
    BY <1>0 DEF Work
  <2>3. Alone(c) /\ pc'[c] = "stats" /\ work'[c].poll = p /\ work'[c].seen = votes[p]
    BY <1>0, <2>1, <2>2 DEF Goto, TypeOK, Alone
  <2>4. UNCHANGED <<votes, results, page, floor>> /\ votes[p] \in Nat
    BY <1>0, <1>3 DEF CountVotes, TypeOK
  <2> QED
    BY <1>0, <2>3, <2>4
    DEF Tallies, TalliesBetween, FreshUnlessRaced, StatsNotBehind, Alone
<1>4. ASSUME NEW c \in Calls, StoreResults(c)
      PROVE  Tallies'
  <2>1. Alone(c) /\ pc'[c] = "idle"
    BY <1>0, <1>4, OneCallMoves DEF StoreResults, Finish
  <2>2. /\ results' = [results EXCEPT ![work[c].poll] = work[c].seen]
        /\ UNCHANGED <<votes, page, floor>>
        /\ floor[work[c].poll] <= work[c].seen
    BY <1>0, <1>4 DEF StoreResults, Tallies, TalliesBetween
  <2>3. work[c].poll \in Polls /\ work[c].seen \in Nat
    BY <1>0, WorkOf
  <2>4. results \in [Polls -> Nat \union {NoEntry}] /\ floor \in [Polls -> Nat]
    BY <1>0 DEF TypeOK
  <2>5. FreshUnlessRaced'
    BY <1>0, <2>2, <2>3, <2>4 DEF Tallies, FreshUnlessRaced
  <2> QED
    BY <1>0, <2>1, <2>2, <2>5 DEF Tallies, TalliesBetween, StatsNotBehind, Alone
<1>5. ASSUME NEW c \in Calls, ShowStats(c)
      PROVE  Tallies'
  <2>1. Alone(c) /\ pc'[c] = "idle"
    BY <1>0, <1>5, OneCallMoves DEF ShowStats, Finish
  <2>2. /\ page' = [total |-> work[c].seen, tally |-> votes[work[c].poll]]
        /\ UNCHANGED <<votes, results, floor>>
        /\ work[c].seen <= votes[work[c].poll]
    BY <1>0, <1>5 DEF ShowStats, Tallies, TalliesBetween
  <2>3. work[c].seen \in Nat /\ votes[work[c].poll] \in Nat
    BY <1>0, WorkOf
  <2> QED
    BY <1>0, <2>1, <2>2, <2>3
    DEF Tallies, TalliesBetween, FreshUnlessRaced, StatsNotBehind, Alone
<1>6. ASSUME NEW c \in Calls, Vote(c)
      PROVE  Tallies'
  <2>1. PICK p \in Polls : /\ votes' = [votes EXCEPT ![p] = @ + 1]
                           /\ \/ Goto(c, "drop", [NoWork EXCEPT !.poll = p])
                              \/ UNCHANGED call
    BY <1>6 DEF Vote
  <2>2. \A d \in Calls : \/ pc'[d] = pc[d] /\ work'[d] = work[d]
                         \/ pc'[d] = "drop"
    BY <1>0, <2>1, OneCallMoves DEF Alone, call
  <2>3. \A q \in Polls : votes[q] \in Nat /\ votes'[q] \in Nat /\ votes[q] <= votes'[q]
    BY <1>0, <2>1 DEF TypeOK
  <2>4. UNCHANGED <<results, page, floor>>
    BY <1>6 DEF Vote
  <2>5. \A d \in Calls : work[d].poll \in Polls /\ work[d].seen \in Nat
    BY <1>0, WorkOf
  <2>6. \A q \in Polls : floor[q] \in Nat
    BY <1>0 DEF TypeOK
  <2> QED
    BY <1>0, <2>2, <2>3, <2>4, <2>5, <2>6
    DEF Tallies, TalliesBetween, FreshUnlessRaced, StatsNotBehind
<1>7. ASSUME NEW c \in Calls, Invalidate(c)
      PROVE  Tallies'
  <2> DEFINE p == work[c].poll
  <2>1. Alone(c) /\ pc'[c] = "idle"
    BY <1>0, <1>7, OneCallMoves DEF Invalidate, Finish
  <2>2. /\ results' = [results EXCEPT ![p] = NoEntry]
        /\ RaiseFloor(p)
        /\ UNCHANGED <<votes, page>>
    BY <1>7 DEF Invalidate
  <2>3. p \in Polls /\ votes[p] \in Nat
    BY <1>0, WorkOf
  <2>4. /\ results \in [Polls -> Nat \union {NoEntry}] /\ floor \in [Polls -> Nat]
        /\ votes \in [Polls -> Nat]
    BY <1>0 DEF TypeOK
  <2>5. \A q \in Polls : \/ floor'[q] = floor[q]
                         \/ q = p /\ ~Raced(p) /\ floor'[q] = votes[q]
    BY <2>2, <2>3, <2>4 DEF RaiseFloor
  <2> HIDE DEF p
  <2>6. FreshUnlessRaced'
    BY <1>0, <2>2, <2>3, <2>4, <2>5 DEF Tallies, FreshUnlessRaced
  <2>7. \A d \in Calls : pc'[d] = "keep" =>
            /\ pc[d] = "keep" /\ work'[d] = work[d]
            /\ floor'[work[d].poll] = floor[work[d].poll]
    BY <1>0, <2>1, <2>5, WorkOf DEF Alone, Raced
  <2> QED
    BY <1>0, <2>1, <2>2, <2>4, <2>5, <2>6, <2>7
    DEF Tallies, TalliesBetween, StatsNotBehind, Alone
<1>8. CASE ExpireList \/ Tick \/ UNCHANGED vars
  <2>1. UNCHANGED <<votes, results, page, floor, pc, work>>
    BY <1>8 DEF ExpireList, Tick, vars, call
  <2> QED
    BY <2>1, Quiet
<1>9. ASSUME NEW p \in Polls, ExpireResults(p)
      PROVE  Tallies'
  <2>1. /\ results' = [results EXCEPT ![p] = NoEntry]
        /\ results \in [Polls -> Nat \union {NoEntry}]
        /\ UNCHANGED <<votes, page, floor, pc, work>>
    BY <1>0, <1>9 DEF ExpireResults, TypeOK, call
  <2> QED
    BY <1>0, <2>1 DEF Tallies, TalliesBetween, FreshUnlessRaced, StatsNotBehind
<1> QED
  BY <1>1, <1>2, <1>3, <1>4, <1>5, <1>6, <1>7, <1>8, <1>9 DEF Next, Show

\* A list stays true of the tables: polls only gain answers.
LEMMA HonestStays ==
    ASSUME IInv, [Next]_vars, NEW l \in List, Honest(l)
    PROVE  Honest(l)'
<1>1. TypeOK /\ Kept
  BY PollsKept DEF IInv
<1>2. ASSUME NEW p \in l.shown
      PROVE  /\ Exists(p)' /\ l.answers[p] <= polls'[p].answers
             /\ InUTC(polls'[p]) => IsActive(polls'[p], MadeIn(l))
  <2>1. p \in Polls /\ Exists(p) /\ l.answers[p] \in Nat
    BY <1>2 DEF List, Honest
  <2>2. polls[p].answers \in Nat
    BY <1>1, <2>1, RowType
  <2>3. /\ polls'[p].start = polls[p].start /\ polls'[p].end = polls[p].end
        /\ polls'[p].answers \in Nat /\ polls'[p].answers >= polls[p].answers
        /\ Exists(p)'
    BY <1>1, <2>1 DEF Kept
  <2>4. l.answers[p] <= polls[p].answers /\ (InUTC(polls[p]) => IsActive(polls[p], MadeIn(l)))
    BY <1>2 DEF Honest
  <2> QED
    BY <2>1, <2>2, <2>3, <2>4 DEF InUTC, IsActive
<1> QED
  BY <1>2 DEF Honest, Exists

\* Dates in UTC without blanks sort as text the way whole seconds sort as times.
LEMMA TextIsTime ==
    ASSUME NEW row \in PollRow, NEW t \in Nat, Listed(row, t), InUTC(row)
    PROVE  IsActive(row, 2 * Second(t))
<1>1. /\ row.start.offset = 0 /\ row.end.offset = 0
      /\ row.start.digits \in Int /\ row.end.digits \in Int
      /\ Parses(row.start) /\ Parses(row.end)
  BY DEF PollRow, Date, InUTC, Parses
<1>2. Second(t) \in Int
  BY DEF Second
<1>3. row.start.digits <= Second(t) /\ Second(t) <= row.end.digits
  BY <1>1, <1>2 DEF Listed, NotAfter, NotBefore, Parses
<1> QED
  BY <1>1, <1>2, <1>3 DEF IsActive, Instant

LEMMA ListsKept ==
    ASSUME IInv, [Next]_vars
    PROVE  ListsHonest'
<1>0. TypeOK /\ ListsHonest /\ NoWork \in Work
  BY NoWorkType DEF IInv
<1>1. ASSUME NEW d \in Calls, pc[d] \in {"fetch", "store"}, work'[d] = work[d]
      PROVE  Honest(work[d].list)'
  <2>1. PICK l \in List : l = work[d].list
    BY <1>0, WorkOf
  <2>2. Honest(l)'
    BY <1>0, <1>1, <2>1, HonestStays DEF ListsHonest
  <2> QED
    BY <1>1, <2>1, <2>2 DEF Honest
<1>2. ASSUME list # NoEntry, list' = list
      PROVE  Honest(list)'
  <2>1. PICK l \in List : l = list
    BY <1>0, <1>2 DEF TypeOK
  <2>2. Honest(l)'
    BY <1>0, <1>2, <2>1, HonestStays DEF ListsHonest
  <2> QED
    BY <1>2, <2>1, <2>2 DEF Honest
<1>3. ASSUME NEW c \in Calls, QueryPolls(c)
      PROVE  ListsHonest'
  <2> DEFINE L == [NoList EXCEPT !.made = now, !.shown = OpenPolls]
  <2>1. Alone(c) /\ work'[c].list = L
    BY <1>0, <1>3 DEF QueryPolls, Goto, TypeOK, Alone, Work
  <2>2. UNCHANGED <<polls, list>> /\ now \in Nat
    BY <1>0, <1>3, BoardAssumption DEF QueryPolls, TypeOK
  <2>3. /\ L.made = now /\ L.shown = OpenPolls
        /\ \A p \in Polls : L.answers[p] = 0
    BY NoWorkType DEF List, NoList
  <2> HIDE DEF L
  <2>4. ASSUME NEW p \in OpenPolls
        PROVE  /\ Exists(p) /\ L.answers[p] <= polls[p].answers
               /\ InUTC(polls[p]) => IsActive(polls[p], MadeIn(L))
    <3>1. p \in Polls /\ Exists(p) /\ Listed(polls[p], now)
      BY <2>4 DEF OpenPolls
    <3>2. polls[p] \in PollRow /\ polls[p].answers \in Nat
      BY <1>0, <3>1, RowType
    <3> QED
      BY <2>2, <2>3, <3>1, <3>2, TextIsTime DEF MadeIn
  <2>5. Honest(work[c].list)'
    BY <2>1, <2>2, <2>3, <2>4 DEF Honest, Exists
  <2> QED
    BY <1>1, <1>2, <2>1, <2>2, <2>5 DEF ListsHonest, Alone
<1>4. ASSUME NEW c \in Calls, FetchAnswers(c)
      PROVE  ListsHonest'
  <2> DEFINE L == WithAnswers(work[c].list)
  <2>1. pc[c] = "fetch" /\ Alone(c) /\ work'[c].list = L /\ UNCHANGED <<polls, list>>
    BY <1>0, <1>4 DEF FetchAnswers, Goto, TypeOK, Alone, Work
  <2>2. work[c].list \in List /\ Honest(work[c].list)
    BY <1>0, <2>1, WorkOf DEF ListsHonest
  <2>3. /\ L.made = work[c].list.made /\ L.shown = work[c].list.shown
        /\ \A p \in L.shown : p \in Polls /\ L.answers[p] = polls[p].answers
    BY <2>2 DEF List, WithAnswers
  <2> HIDE DEF L
  <2>4. \A p \in L.shown : polls[p].answers \in Nat
    BY <1>0, <2>2, <2>3, RowType DEF Honest
  <2>5. Honest(work[c].list)'
    BY <2>1, <2>2, <2>3, <2>4 DEF Honest, Exists, MadeIn
  <2> QED
    BY <1>1, <1>2, <2>1, <2>5 DEF ListsHonest, Alone
<1>5. ASSUME NEW c \in Calls, StoreList(c)
      PROVE  ListsHonest'
  <2>1. /\ pc[c] = "store" /\ list' = work[c].list /\ polls' = polls
        /\ Alone(c) /\ pc'[c] = "idle"
    BY <1>0, <1>5 DEF StoreList, Finish, Goto, TypeOK, Alone
  <2>2. Honest(work[c].list)
    BY <1>0, <2>1 DEF ListsHonest
  <2>3. Honest(list)'
    BY <2>1, <2>2 DEF Honest, Exists
  <2> QED
    BY <1>1, <2>1, <2>3 DEF ListsHonest, Alone
<1>6. ASSUME list' \in {list, NoEntry},
             \A d \in Calls : \/ pc'[d] = pc[d] /\ work'[d] = work[d]
                              \/ pc'[d] \notin {"fetch", "store"}
      PROVE  ListsHonest'
  BY <1>1, <1>2, <1>6 DEF ListsHonest
<1>7. ASSUME NEW c \in Calls,
             \/ Create(c) \/ ListPolls(c) \/ LookUp(c) \/ ReadResults(c) \/ GetResults(c)
             \/ StoreResults(c) \/ CountVotes(c) \/ ShowStats(c)
             \/ Vote(c) \/ Repeat(c) \/ Invalidate(c) \/ Abandon(c)
      PROVE  ListsHonest'
  <2>1. UNCHANGED call \/ (Alone(c) /\ pc'[c] \notin {"fetch", "store"})
    BY <1>0, <1>7
    DEF Goto, TypeOK, Alone, Create, InsertPoll, InsertAnswer, Created, ListPolls, LookUp,
        ReadResults, GetResults, StoreResults, CountVotes, ShowStats, Vote, Repeat,
        Invalidate, Abandon, Finish
  <2>2. list' \in {list, NoEntry}
    BY <1>7
    DEF Create, InsertPoll, InsertAnswer, Created, ListPolls, LookUp, ReadResults,
        GetResults, StoreResults, CountVotes, ShowStats, Vote, Repeat, Invalidate, Abandon
  <2> QED
    BY <1>6, <2>1, <2>2 DEF Alone, call
<1>8. CASE ExpireList \/ (\E p \in Polls : ExpireResults(p)) \/ Tick \/ UNCHANGED vars
  <2>1. list' \in {list, NoEntry} /\ UNCHANGED <<pc, work>>
    BY <1>8 DEF ExpireList, ExpireResults, Tick, vars, call
  <2> QED
    BY <1>6, <2>1
<1> QED
  BY <1>3, <1>4, <1>5, <1>7, <1>8 DEF Next, Show

LEMMA Initially == Init => IInv
<1> SUFFICES ASSUME Init
             PROVE  IInv
  OBVIOUS
<1> USE BoardAssumption
<1>1. TypeOK
  BY NoWorkType DEF Init, TypeOK, Steps
<1>2. CreatorsHavePoll /\ ListsHonest
  BY DEF Init, CreatorsHavePoll, ListsHonest
<1>3. TalliesBetween /\ FreshUnlessRaced /\ StatsNotBehind
  BY DEF Init, TalliesBetween, FreshUnlessRaced, StatsNotBehind
<1> QED
  BY <1>1, <1>2, <1>3 DEF IInv

-------------------------------------------------------------------------------
(* Theorems *)

THEOREM Invariance == Spec => []IInv
<1>1. IInv /\ [Next]_vars => IInv'
  BY TypePreserved, CreatorsKept, TalliesKept, ListsKept DEF IInv, Tallies
<1> QED
  BY Initially, <1>1, PTL DEF Spec

\* Tables, caches and calls keep to their types.
THEOREM TypeCorrect == Spec => []TypeOK
<1>1. IInv => TypeOK
  BY DEF IInv
<1> QED
  BY Invariance, <1>1, PTL

\* However many handlers fill and drop the list of polls while others are created, it
\* shows polls with answers they have, and of those in UTC without blanks only ones that
\* were open at the beginning of the second in which it was made.
THEOREM ListShowsOpenPolls == Spec => []ListIsHonest
<1>1. IInv => ListIsHonest
  BY DEF IInv, ListsHonest, Honest, ListIsHonest
<1> QED
  BY Invariance, <1>1, PTL

\* A vote that drops the results with no tally on its way is in every later cached
\* tally.
THEOREM CacheKeepsUp == Spec => []FreshUnlessRaced
<1>1. IInv => FreshUnlessRaced
  BY DEF IInv
<1> QED
  BY Invariance, <1>1, PTL

\* Two reads without a transaction are enough for a page whose answers add up to no
\* less than its total.
THEOREM StatisticsAddUp == Spec => []StatsNotBehind
<1>1. IInv => StatsNotBehind
  BY DEF IInv
<1> QED
  BY Invariance, <1>1, PTL
===============================================================================
