------------------------------ MODULE PollBoard -------------------------------
(***************************************************************************)
(* Polls as they are published and shown: creation statement by statement, *)
(* the list of open polls and the results with their caches in Redis, and  *)
(* the statistics of a poll.  Handlers run at once and none of them uses a *)
(* transaction; a cache is filled with what was read before, dropped by    *)
(* votes, and may lose its entries at any time.                            *)
(*                                                                         *)
(* Dates are kept as text.  The lists compare that text with the time in   *)
(* UTC, in whole seconds; IsActive parses it and compares with the clock   *)
(* as it is.  A date is the time its digits show, in whole seconds, the    *)
(* offset it names, what ends it and the blanks around it.  The clock      *)
(* counts half seconds: the odd ones are between two seconds.  A tally is  *)
(* the number of ballots it covers, for ballots are never taken back.      *)
(* Votes are those of CastVote, in one step; who may see a page is left    *)
(* out.                                                                    *)
(***************************************************************************)
EXTENDS Integers

CONSTANTS
    Polls,          \* ids that polls will get
    Calls,          \* handlers that may run at the same time
    Windows,        \* start_date and end_date that creators ask for
    NoRow,          \* no poll with an id
    NoEntry,        \* no entry in the cache
    MaxAnswers,     \* bound: answers of a poll
    MaxVotes,       \* bound: votes of a poll
    MaxTime         \* bound: the clock stops here

\* RFC 3339 ends in Z or an offset; the field of the form in neither.  The API stores
\* what it was sent, blanks included.
Date == {d \in [digits: Int, offset: Int, zone: {"Z", "offset", "none"},
                blank: {"no", "before", "after"}] :
            d.zone = "Z" => d.offset = 0}

PollRow == [start: Date, end: Date, answers: Nat]

\* When its polls were read, which they were, and how many answers each came with.
List == [made: Nat, shown: SUBSET Polls, answers: [Polls -> Nat]]

ASSUME BoardAssumption ==
    /\ Polls # {}
    /\ Windows \subseteq [start: Date, end: Date]
    /\ NoRow \notin PollRow
    /\ NoEntry \notin Nat /\ NoEntry \notin List
    /\ MaxAnswers \in Nat
    /\ MaxVotes \in Nat
    /\ MaxTime \in Nat \ {0}

VARIABLES
    now,        \* the clock, in half seconds of UTC
    polls,      \* tables polls and answers
    votes,      \* votes stored, by poll
    list,       \* the key polls:active
    results,    \* the key results:<id> of each poll
    pc,         \* next step of each call
    work,       \* the poll a call is about and what it has read
    page,       \* the statistics shown last
    floor       \* votes every cached tally must cover, for FreshUnlessRaced

call == <<pc, work>>
vars == <<now, polls, votes, list, results, pc, work, page, floor>>

-------------------------------------------------------------------------------
(* State *)

\* seen: votes read; left: answers still to insert; api: the JSON handler.
Work == [poll: Polls, seen: Nat, left: Nat, api: BOOLEAN, list: List]

NoList == [made |-> 0, shown |-> {}, answers |-> [p \in Polls |-> 0]]

NoWork == [poll |-> CHOOSE p \in Polls : TRUE, seen |-> 0, left |-> 0, api |-> FALSE,
           list |-> NoList]

Steps == {"idle", "insert", "lookup", "query", "fetch", "store",
          "tally", "keep", "drop", "stats"}

TypeOK ==
    /\ now \in 1..MaxTime
    /\ polls \in [Polls -> PollRow \union {NoRow}]
    /\ votes \in [Polls -> Nat]
    /\ list \in List \union {NoEntry}
    /\ results \in [Polls -> Nat \union {NoEntry}]
    /\ pc \in [Calls -> Steps]
    /\ work \in [Calls -> Work]
    /\ page \in [total: Nat, tally: Nat]
    /\ floor \in [Polls -> Nat]

Exists(p) == polls[p] # NoRow

Instant(d) == d.digits - d.offset

\* time.Parse, which takes no blanks.
Parses(d) == d.zone # "none" /\ d.blank = "no"

\* IsActive: a date it cannot parse closes the poll.
IsActive(row, t) ==
    /\ Parses(row.start) /\ Parses(row.end)
    /\ 2 * Instant(row.start) <= t /\ t <= 2 * Instant(row.end)

\* time.RFC3339 writes the time without its fraction.
Second(t) == t \div 2

\* d <= now and d >= now, of texts.  A blank comes before every digit; with the same
\* digits an offset, or nothing, comes before the Z of now, and a blank makes longer.
NotAfter(d, s) ==
    \/ d.blank = "before" \/ d.digits < s
    \/ d.digits = s /\ (d.zone = "Z" => d.blank = "no")

NotBefore(d, s) ==
    d.blank # "before" /\ (d.digits > s \/ (d.digits = s /\ d.zone = "Z"))

\* Faulty: the end is not looked at.
ListedFromStart(row, t) == NotAfter(row.start, Second(t))

\* start_date <= now AND end_date >= now.
Listed(row, t) == NotAfter(row.start, Second(t)) /\ NotBefore(row.end, Second(t))

-------------------------------------------------------------------------------
(* The steps of a call *)

Goto(c, step, w) ==
    /\ pc' = [pc EXCEPT ![c] = step]
    /\ work' = [work EXCEPT ![c] = w]

Finish(c) == Goto(c, "idle", NoWork)

\* An error of a statement, or the end of the process: what was written stays.
Abandon(c) ==
    /\ pc[c] # "idle"
    /\ Finish(c)
    /\ UNCHANGED <<now, polls, votes, list, results, page, floor>>

\* What HandleCreatePoll accepts: it trims the dates it parses and stores them as sent.
FitsApi(w) ==
    /\ w.start.zone # "none" /\ w.end.zone # "none"
    /\ Instant(w.start) < Instant(w.end)

\* HandleUICreatePoll only looks at the start, and trims nothing.
FitsForm(w) == w.start.blank = "no"

\* The poll is in the table, and in the lists, before its first answer.
InsertPoll(c) ==
    /\ pc[c] = "idle"
    /\ \E p \in Polls, w \in Windows, api \in BOOLEAN, n \in 0..MaxAnswers :
            /\ ~Exists(p)
            /\ IF api THEN FitsApi(w) /\ n >= 2 ELSE FitsForm(w)
            /\ polls' = [polls EXCEPT ![p] =
                            [start |-> w.start, end |-> w.end, answers |-> 0]]
            /\ Goto(c, "insert", [NoWork EXCEPT !.poll = p, !.left = n, !.api = api])
    /\ UNCHANGED <<now, votes, list, results, page, floor>>

\* Faulty: one more than was asked for.
InsertAnswerPastEnd(c) ==
    /\ pc[c] = "insert"
    /\ polls' = [polls EXCEPT ![work[c].poll].answers = @ + 1]
    /\ Goto(c, "insert", [work[c] EXCEPT !.left = @ - 1])
    /\ UNCHANGED <<now, votes, list, results, page, floor>>

InsertAnswer(c) ==
    /\ pc[c] = "insert" /\ work[c].left > 0
    /\ polls' = [polls EXCEPT ![work[c].poll].answers = @ + 1]
    /\ Goto(c, "insert", [work[c] EXCEPT !.left = @ - 1])
    /\ UNCHANGED <<now, votes, list, results, page, floor>>

\* HandleCreatePoll answers with HandleListPolls, the form with a page of its own.
Created(c) ==
    /\ pc[c] = "insert" /\ work[c].left = 0
    /\ IF work[c].api THEN Goto(c, "lookup", NoWork) ELSE Finish(c)
    /\ UNCHANGED <<now, polls, votes, list, results, page, floor>>

ListPolls(c) ==
    /\ pc[c] = "idle"
    /\ Goto(c, "lookup", NoWork)
    /\ UNCHANGED <<now, polls, votes, list, results, page, floor>>

\* A Redis that does not answer is a miss.
LookUp(c) ==
    /\ pc[c] = "lookup"
    /\ \/ list # NoEntry /\ Finish(c)
       \/ Goto(c, "query", NoWork)
    /\ UNCHANGED <<now, polls, votes, list, results, page, floor>>

OpenPolls == {p \in Polls : Exists(p) /\ Listed(polls[p], now)}

QueryPolls(c) ==
    /\ pc[c] = "query"
    /\ Goto(c, IF OpenPolls = {} THEN "store" ELSE "fetch",
            [NoWork EXCEPT !.list = [NoList EXCEPT !.made = now, !.shown = OpenPolls]])
    /\ UNCHANGED <<now, polls, votes, list, results, page, floor>>

WithAnswers(l) ==
    [l EXCEPT !.answers = [p \in Polls |-> IF p \in l.shown THEN polls[p].answers ELSE 0]]

\* The answers of these polls, in a query of their own.
FetchAnswers(c) ==
    /\ pc[c] = "fetch"
    /\ Goto(c, "store", [work[c] EXCEPT !.list = WithAnswers(@)])
    /\ UNCHANGED <<now, polls, votes, list, results, page, floor>>

StoreList(c) ==
    /\ pc[c] = "store"
    /\ list' = work[c].list
    /\ Finish(c)
    /\ UNCHANGED <<now, polls, votes, results, page, floor>>

\* HandleResults, when the cache has nothing.
ReadResults(c) ==
    /\ pc[c] = "idle"
    /\ \E p \in Polls : Exists(p) /\ Goto(c, "tally", [NoWork EXCEPT !.poll = p])
    /\ UNCHANGED <<now, polls, votes, list, results, page, floor>>

GetResults(c) ==
    /\ pc[c] = "tally"
    /\ Goto(c, "keep", [work[c] EXCEPT !.seen = votes[work[c].poll]])
    /\ UNCHANGED <<now, polls, votes, list, results, page, floor>>

\* A vote may have dropped the entry since the tally.
StoreResults(c) ==
    /\ pc[c] = "keep"
    /\ results' = [results EXCEPT ![work[c].poll] = work[c].seen]
    /\ Finish(c)
    /\ UNCHANGED <<now, polls, votes, list, page, floor>>

\* GetPollStats counts the votes and then tallies the answers.
CountVotes(c) ==
    /\ pc[c] = "idle"
    /\ \E p \in Polls :
            Exists(p) /\ Goto(c, "stats", [NoWork EXCEPT !.poll = p, !.seen = votes[p]])
    /\ UNCHANGED <<now, polls, votes, list, results, page, floor>>

\* Faulty: the answers are tallied first.
ShowStatsSwapped(c) ==
    /\ pc[c] = "stats"
    /\ page' = [total |-> votes[work[c].poll], tally |-> work[c].seen]
    /\ Finish(c)
    /\ UNCHANGED <<now, polls, votes, list, results, floor>>

ShowStats(c) ==
    /\ pc[c] = "stats"
    /\ page' = [total |-> work[c].seen, tally |-> votes[work[c].poll]]
    /\ Finish(c)
    /\ UNCHANGED <<now, polls, votes, list, results, floor>>

\* CastVote.  HandleVote without the queue and the worker go on to InvalidatePoll,
\* the HTML form does not.
Vote(c) ==
    /\ pc[c] = "idle"
    /\ \E p \in Polls :
            /\ Exists(p) /\ IsActive(polls[p], now) /\ polls[p].answers > 0
            /\ votes[p] < MaxVotes
            /\ votes' = [votes EXCEPT ![p] = @ + 1]
            /\ \/ Goto(c, "drop", [NoWork EXCEPT !.poll = p])
               \/ UNCHANGED call
    /\ UNCHANGED <<now, polls, list, results, page, floor>>

\* The worker does so for a vote it finds stored already, too.
Repeat(c) ==
    /\ pc[c] = "idle"
    /\ \E p \in Polls : votes[p] > 0 /\ Goto(c, "drop", [NoWork EXCEPT !.poll = p])
    /\ UNCHANGED <<now, polls, votes, list, results, page, floor>>

\* A tally of the poll is on its way to the cache.
Raced(p) == \E d \in Calls : pc[d] = "keep" /\ work[d].poll = p

\* With nothing on its way, no tally from before can come back.
RaiseFloor(p) ==
    floor' = IF Raced(p) THEN floor ELSE [floor EXCEPT ![p] = votes[p]]

\* Faulty: the key of the results is not among those deleted.
InvalidateListOnly(c) ==
    /\ pc[c] = "drop"
    /\ list' = NoEntry
    /\ RaiseFloor(work[c].poll)
    /\ Finish(c)
    /\ UNCHANGED <<now, polls, votes, results, page>>

\* InvalidatePoll.
Invalidate(c) ==
    /\ pc[c] = "drop"
    /\ list' = NoEntry
    /\ results' = [results EXCEPT ![work[c].poll] = NoEntry]
    /\ RaiseFloor(work[c].poll)
    /\ Finish(c)
    /\ UNCHANGED <<now, polls, votes, page>>

-------------------------------------------------------------------------------
(* Redis and the clock *)

\* After 15 s, or evicted before.
ExpireList ==
    /\ list # NoEntry
    /\ list' = NoEntry
    /\ UNCHANGED <<now, polls, votes, results, call, page, floor>>

\* Faulty: a TTL of zero keeps the entry.
ExpireResultsNever(p) == FALSE /\ UNCHANGED vars

\* After 3 s, or evicted before.
ExpireResults(p) ==
    /\ results[p] # NoEntry
    /\ results' = [results EXCEPT ![p] = NoEntry]
    /\ UNCHANGED <<now, polls, votes, list, call, page, floor>>

Tick ==
    /\ now < MaxTime
    /\ now' = now + 1
    /\ UNCHANGED <<polls, votes, list, results, call, page, floor>>

Init ==
    /\ now = 1
    /\ polls = [p \in Polls |-> NoRow]
    /\ votes = [p \in Polls |-> 0]
    /\ list = NoEntry
    /\ results = [p \in Polls |-> NoEntry]
    /\ pc = [c \in Calls |-> "idle"]
    /\ work = [c \in Calls |-> NoWork]
    /\ page = [total |-> 0, tally |-> 0]
    /\ floor = [p \in Polls |-> 0]

Create(c) == InsertPoll(c) \/ InsertAnswer(c) \/ Created(c)

Show(c) == \/ ListPolls(c) \/ LookUp(c) \/ QueryPolls(c) \/ FetchAnswers(c)
           \/ StoreList(c) \/ ReadResults(c) \/ GetResults(c) \/ StoreResults(c)
           \/ CountVotes(c) \/ ShowStats(c)

Next ==
    \/ \E c \in Calls : \/ Create(c) \/ Show(c) \/ Abandon(c)
                        \/ Vote(c) \/ Repeat(c) \/ Invalidate(c)
    \/ ExpireList
    \/ \E p \in Polls : ExpireResults(p)
    \/ Tick

Spec == Init /\ [][Next]_vars

\* Redis forgets an entry when its time is over; nobody has to call anything.
FairSpec == Spec /\ WF_vars(ExpireList) /\ \A p \in Polls : WF_vars(ExpireResults(p))

-------------------------------------------------------------------------------
(* Properties *)

InUTC(row) == \A d \in {row.start, row.end} : d.zone = "Z" /\ d.blank = "no"

\* The beginning of the second in which a list was made.
MadeIn(l) == 2 * Second(l.made)

\* Comparing dates as text is right, to the second, for dates in UTC without blanks: a
\* poll of the cached list was open at the beginning of the second in which the list was
\* made (in the second after its end it is still listed, and closed), and is shown with
\* answers it has.
ListIsHonest ==
    list # NoEntry => \A p \in list.shown :
        /\ Exists(p) /\ list.answers[p] <= polls[p].answers
        /\ InUTC(polls[p]) => IsActive(polls[p], MadeIn(list))

\* Once a vote has dropped the results while no tally was on its way to the cache, no
\* cached tally misses that vote or an earlier one.
FreshUnlessRaced ==
    \A p \in Polls : results[p] # NoEntry => results[p] >= floor[p]

\* The answers of a page of statistics are never older than its number of votes.
StatsNotBehind == page.tally >= page.total

\* When no more is written the caches come to agree with the tables, whatever stale
\* entries were stored and however many drops failed.
CachesCatchUp ==
    <>[]/\ \A p \in Polls : results[p] \in {NoEntry, votes[p]}
        /\ list # NoEntry =>
                /\ list.shown = OpenPolls
                /\ \A p \in OpenPolls : list.answers[p] = polls[p].answers

\* "Returns only polls within their validation window (start_date <= now <= end_date)":
\* a listed poll was one that could be opened and voted in when that second began.
ListedIsOpen ==
    list # NoEntry => \A p \in list.shown : IsActive(polls[p], MadeIn(list))
===============================================================================
