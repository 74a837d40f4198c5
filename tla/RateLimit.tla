------------------------------ MODULE RateLimit -------------------------------
(***************************************************************************)
(* The limit on requests of one address (others have entries of their own):*)
(* the limiter in the memory of a process, which decides under a mutex,    *)
(* and the sorted set in Redis, which processes that found a Redis when    *)
(* they started share.  AllowRateLimit sends its commands as a pipeline,   *)
(* not as a transaction: those of other processes may run in between.      *)
(*                                                                         *)
(* Time is counted in ticks.  A request is its position in the log; the    *)
(* log is what the properties look at, no limiter reads it but for the     *)
(* time it gave a request itself.                                          *)
(***************************************************************************)
EXTENDS Integers, Sequences, FiniteSets

CONSTANTS
    Processes,      \* processes that serve requests
    Redis,          \* the limiter they share
    Calls,          \* pipelines that may be under way at the same time
    Max,            \* GOVOTE_RATE_LIMIT_MAX
    Window,         \* GOVOTE_RATE_LIMIT_WINDOW_SEC, in ticks
    Second,         \* ticks in a second
    Patience,       \* ticks after which the client of Redis has given a pipeline up
    MaxRequests,    \* bound: requests in a behaviour
    MaxTime         \* bound: the clock stops here

ASSUME LimitAssumption ==
    /\ Redis \notin Processes
    /\ IsFiniteSet(Calls) /\ Calls # {}
    /\ Max \in Nat \ {0}
    /\ Window \in Nat \ {0}
    /\ Second \in Nat \ {0}
    /\ Patience \in Nat /\ Patience < Window
    /\ MaxRequests \in Nat
    /\ MaxTime \in Nat

VARIABLES
    now,        \* the clock
    viaRedis,   \* processes with cache.Enabled()
    log,        \* every request: when, by which limiter, the verdict, its Retry-After
    visits,     \* the requests each limiter remembers
    counted,    \* those it had room for since it last lost its memory, for the properties
    pc,         \* next command of each pipeline
    req,        \* its request
    full        \* ZCARD returned the budget, or more

pipeline == <<pc, req, full>>
vars == <<now, viaRedis, log, visits, counted, pc, req, full>>

-------------------------------------------------------------------------------
(* State *)

Limiters == Processes \union {Redis}

\* "open": admitted because the pipeline failed.
Verdicts == {"none", "admitted", "refused", "open"}

Entry == [at: Nat, by: Limiters, verdict: Verdicts, told: Nat]

Requests == 1..Len(log)

TypeOK ==
    /\ now \in 0..MaxTime
    /\ viaRedis \subseteq Processes
    /\ log \in Seq(Entry)
    /\ visits \in [Limiters -> SUBSET Requests]
    /\ counted \in [Limiters -> SUBSET Requests]
    /\ pc \in [Calls -> {"idle", "purge", "count", "add", "reply"}]
    /\ req \in [Calls -> Nat]
    /\ full \in [Calls -> BOOLEAN]

Enter(l, verdict, told) ==
    /\ Len(log) < MaxRequests
    /\ log' = Append(log, [at |-> now, by |-> l, verdict |-> verdict, told |-> told])

-------------------------------------------------------------------------------
(* The limiter of a process *)

\* Faulty: a visit counts for one tick too few.
FreshShort(l) == {i \in visits[l] : now - log[i].at < Window - 1}

\* Visits inside the window.
Fresh(l) == {i \in visits[l] : now - log[i].at < Window}

Oldest(S) == CHOOSE i \in S : \A j \in S : i <= j

\* Faulty: the time since the oldest visit minus the window.
HeaderNegative(ticks) == -(ticks \div Second)

\* Faulty: always one second.
HeaderFlat(ticks) == 1

\* Retry-After: whole seconds, rounded down, at least one.
Header(ticks) == IF ticks < Second THEN 1 ELSE ticks \div Second

Allow(p) ==
    /\ p \notin viaRedis
    /\ Cardinality(Fresh(p)) < Max
    /\ Enter(p, "admitted", 0)
    /\ visits' = [visits EXCEPT ![p] = Fresh(p) \union {Len(log) + 1}]
    /\ counted' = [counted EXCEPT ![p] = @ \union {Len(log) + 1}]
    /\ UNCHANGED <<now, viaRedis, pipeline>>

\* Faulty: a refused request takes a place, as in Redis.
RefuseRecorded(p) ==
    /\ p \notin viaRedis
    /\ Cardinality(Fresh(p)) >= Max
    /\ Enter(p, "refused", Header(Window - (now - log[Oldest(Fresh(p))].at)))
    /\ visits' = [visits EXCEPT ![p] = Fresh(p) \union {Len(log) + 1}]
    /\ UNCHANGED <<now, viaRedis, counted, pipeline>>

\* A refused request takes no place.
Refuse(p) ==
    /\ p \notin viaRedis
    /\ Cardinality(Fresh(p)) >= Max
    /\ Enter(p, "refused", Header(Window - (now - log[Oldest(Fresh(p))].at)))
    /\ visits' = [visits EXCEPT ![p] = Fresh(p)]
    /\ UNCHANGED <<now, viaRedis, counted, pipeline>>

\* Every five minutes.
Cleanup(p) ==
    /\ visits' = [visits EXCEPT ![p] = Fresh(p)]
    /\ UNCHANGED <<now, viaRedis, log, counted, pipeline>>

\* A process starts with no visits; it finds Redis, or not, as it did before.
Restart(p) ==
    /\ visits' = [visits EXCEPT ![p] = {}]
    /\ counted' = [counted EXCEPT ![p] = {}]
    /\ UNCHANGED <<now, viaRedis, log, pipeline>>

-------------------------------------------------------------------------------
(* AllowRateLimit *)

Goto(c, step) == pc' = [pc EXCEPT ![c] = step]

\* The pipeline is over and its request has a verdict.
Done(c, verdict, told) ==
    /\ log' = [log EXCEPT ![req[c]] = [@ EXCEPT !.verdict = verdict, !.told = told]]
    /\ Goto(c, "idle")
    /\ req' = [req EXCEPT ![c] = 0]
    /\ full' = [full EXCEPT ![c] = FALSE]

\* The time of the request is read here.
Arrive(c) ==
    /\ viaRedis # {} /\ pc[c] = "idle"
    /\ Enter(Redis, "none", 0)
    /\ req' = [req EXCEPT ![c] = Len(log) + 1]
    /\ Goto(c, "purge")
    /\ UNCHANGED <<now, viaRedis, visits, counted, full>>

\* Faulty: scores up to the time of the request minus a shorter window go.
ZRemRangeEarly(c) ==
    /\ pc[c] = "purge"
    /\ visits' = [visits EXCEPT ![Redis] =
            {i \in @ : log[i].at > log[req[c]].at - Window + 1}]
    /\ Goto(c, "count")
    /\ UNCHANGED <<now, viaRedis, log, counted, req, full>>

\* Scores up to the time of the request minus the window go.
ZRemRangeByScore(c) ==
    /\ pc[c] = "purge"
    /\ visits' = [visits EXCEPT ![Redis] =
            {i \in @ : log[i].at > log[req[c]].at - Window}]
    /\ Goto(c, "count")
    /\ UNCHANGED <<now, viaRedis, log, counted, req, full>>

ZCard(c) ==
    /\ pc[c] = "count"
    /\ full' = [full EXCEPT ![c] = Cardinality(visits[Redis]) >= Max]
    /\ Goto(c, "add")
    /\ UNCHANGED <<now, viaRedis, log, visits, counted, req>>

\* Refused or not, the request is recorded.  EXPIRE comes with it: once it takes
\* effect everything in the set is out of the window.
ZAdd(c) ==
    /\ pc[c] = "add"
    /\ visits' = [visits EXCEPT ![Redis] = @ \union {req[c]}]
    /\ counted' = [counted EXCEPT ![Redis] = @ \union {i \in {req[c]} : ~full[c]}]
    /\ Goto(c, "reply")
    /\ UNCHANGED <<now, viaRedis, log, req, full>>

Reply(c) ==
    /\ pc[c] = "reply"
    /\ IF full[c] THEN Done(c, "refused", Header(Window)) ELSE Done(c, "admitted", 0)
    /\ UNCHANGED <<now, viaRedis, visits, counted>>

\* The client of Redis sends a pipeline again whose replies do not come.
Retry(c) ==
    /\ pc[c] \in {"count", "add", "reply"}
    /\ Goto(c, "purge")
    /\ full' = [full EXCEPT ![c] = FALSE]
    /\ UNCHANGED <<now, viaRedis, log, visits, counted, req>>

\* The pipeline fails after any of its commands, and the request goes through; or the
\* process is gone, and nobody hears of it.
Fail(c) ==
    /\ pc[c] # "idle"
    /\ Done(c, "open", 0)
    /\ UNCHANGED <<now, viaRedis, visits, counted>>

\* Redis evicts the key.
Evict ==
    /\ visits' = [visits EXCEPT ![Redis] = {}]
    /\ counted' = [counted EXCEPT ![Redis] = {}]
    /\ UNCHANGED <<now, viaRedis, log, pipeline>>

-------------------------------------------------------------------------------

\* A pipeline does not take longer than Patience.
Tick ==
    /\ now < MaxTime
    /\ \A c \in Calls : pc[c] # "idle" => now - log[req[c]].at < Patience
    /\ now' = now + 1
    /\ UNCHANGED <<viaRedis, log, visits, counted, pipeline>>

Init ==
    /\ now = 0
    /\ viaRedis \in SUBSET Processes
    /\ log = <<>>
    /\ visits = [l \in Limiters |-> {}]
    /\ counted = [l \in Limiters |-> {}]
    /\ pc = [c \in Calls |-> "idle"]
    /\ req = [c \in Calls |-> 0]
    /\ full = [c \in Calls |-> FALSE]

Next ==
    \/ \E p \in Processes : Allow(p) \/ Refuse(p) \/ Cleanup(p) \/ Restart(p)
    \/ \E c \in Calls : \/ Arrive(c) \/ ZRemRangeByScore(c) \/ ZCard(c) \/ ZAdd(c)
                        \/ Reply(c) \/ Retry(c) \/ Fail(c)
    \/ Evict
    \/ Tick

Spec == Init /\ [][Next]_vars

-------------------------------------------------------------------------------
(* Properties *)

\* What a limiter admitted in a window that begins at t.
Admitted(l, t) ==
    {i \in counted[l] : /\ log[i].verdict = "admitted"
                        /\ log[i].at >= t /\ log[i].at < t + Window}

\* A process admits no more than the budget in any window, wherever it begins, and
\* whenever the clean-up runs.
BudgetKept ==
    \A p \in Processes, t \in 0..MaxTime : Cardinality(Admitted(p, t)) <= Max

\* While a window lasts, the processes together exceed it by no more than the other
\* pipelines that may be under way, which count before one another's ZADD; and by as many
\* again when it is over, which are late and count after a pipeline of the next window has
\* cleared it.
SharedBudget ==
    \A t \in 0..MaxTime :
        Cardinality(Admitted(Redis, t)) <=
            Max + (IF now < t + Window THEN 1 ELSE 2) * (Cardinality(Calls) - 1)

\* What counts against a request: in the window before it, to a process, what that
\* admitted; to Redis, what it was sent, the request itself included, for a pipeline
\* sent again counts itself.
Against(i) ==
    {j \in Requests : /\ log[j].by = log[i].by
                      /\ log[j].at > log[i].at - Window
                      /\ log[i].by # Redis => j < i /\ log[j].verdict = "admitted"}

\* Nobody is refused who has not used the budget.
RefusedOverBudget ==
    \A i \in Requests : log[i].verdict = "refused" => Cardinality(Against(i)) >= Max

\* What Retry-After says is over, and the fraction of a second it may leave out with it:
\* up to a second less one tick of the clock.
WaitedFor(i) == log[i].at + log[i].told * Second + Second - 1

\* A client that has waited that long, which may be almost a second more than
\* Retry-After said, is refused only for what it sent meanwhile: to a process, only for
\* what that admitted.  Not so for a budget of one in Redis, where a pipeline that is sent
\* again is refused for itself.
WaitSuffices ==
    \A i, j \in Requests :
        /\ log[i].verdict = "refused" /\ log[j].verdict = "refused"
        /\ log[i].by = log[j].by
        /\ log[i].by = Redis => Max > 1
        /\ log[j].at >= WaitedFor(i)
        => \E k \in Requests \ {i, j} :
                /\ log[k].by = log[j].by /\ log[k].at >= log[i].at
                /\ log[k].by # Redis => k > i /\ k < j /\ log[k].verdict = "admitted"
===============================================================================
