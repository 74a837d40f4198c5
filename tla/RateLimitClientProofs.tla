------------------------ MODULE RateLimitClientProofs -------------------------
(***************************************************************************)
(* Theorems about RateLimit that need more than RateLimitProofs: what a    *)
(* client may count on that waits for Retry-After, and by how much         *)
(* processes that share Redis may exceed the budget.                       *)
(*                                                                         *)
(* For the first, a limiter remembers, of the requests before one it has   *)
(* refused, fewer than the budget that are still inside the window when    *)
(* the wait is over.  For the second, a window is followed from its first  *)
(* request to the last pipeline that is under way when it ends: either     *)
(* Redis still has everything it counts, or the window is over.            *)
(***************************************************************************)
EXTENDS RateLimitProofs

-------------------------------------------------------------------------------
(* What a step does to the log and to the memory of a process *)

\* A new entry, if there is one, is stamped with the time.
LogStep ==
    /\ LogKept
    /\ \/ Requests' = Requests
       \/ /\ Requests' = Requests \union {Len(log) + 1}
          /\ log'[Len(log) + 1].at = now
    /\ now <= now'

LEMMA EntryLogged ==
    ASSUME TypeOK, NEW l \in Limiters, NEW v \in Verdicts, NEW n \in Nat, Enter(l, v, n)
    PROVE  /\ LogKept /\ Requests' = Requests \union {Len(log) + 1}
           /\ log'[Len(log) + 1].at = now /\ log'[Len(log) + 1].by = l
           /\ log'[Len(log) + 1].verdict = v /\ log'[Len(log) + 1].told = n
           /\ \A i \in Requests : log'[i] = log[i]
<1> DEFINE e == [at |-> now, by |-> l, verdict |-> v, told |-> n]
<1>1. /\ LogKept /\ Requests' = Requests \union {Len(log) + 1}
      /\ \A i \in Requests : log'[i] = log[i]
      /\ log'[Len(log) + 1] = e
  BY Entered
<1>2. e.at = now /\ e.by = l /\ e.verdict = v /\ e.told = n
  OBVIOUS
<1> QED
  BY <1>1, <1>2

\* A process tells how long its oldest visit remains in the window.
LEMMA RefusalTold ==
    ASSUME IInv, NEW p \in Processes, Refuse(p)
    PROVE  \E o \in Fresh(p), n \in Nat :
                /\ n = Header(Window - (now - log[o].at))
                /\ Enter(p, "refused", n)
                /\ o \in Requests /\ log[o].at \in Nat
<1>1. PICK o \in Fresh(p) : o = Oldest(Fresh(p))
  BY FreshVisits, OldestType DEF IInv, Refuse
<1>2. o \in Requests /\ log[o].at \in Nat
  <2>1. \A i \in Requests : log[i] \in Entry
    BY DEF IInv, TypeOK, Requests
  <2> QED
    BY <2>1, FreshVisits DEF Entry
<1>3. Header(Window - (now - log[o].at)) \in Nat
  <2>1. Window - (now - log[o].at) \in Int
    BY <1>2, LimitAssumption DEF IInv, TypeOK
  <2> QED
    BY <2>1, HeaderType
<1> QED
  BY <1>1, <1>2, <1>3 DEF Refuse

LEMMA StepLogged ==
    ASSUME IInv, [Next]_vars
    PROVE  LogStep
<1>0. TypeOK /\ now \in Nat
  BY LimitAssumption DEF IInv, TypeOK
<1>1. CASE UNCHANGED log /\ now <= now'
  BY <1>0, <1>1, SameLog DEF LogStep
<1>2. ASSUME NEW p \in Processes, Allow(p)
      PROVE  LogStep
  BY <1>0, <1>2, FreshVisits, EntryLogged DEF Allow, LogStep, Verdicts
<1>3. ASSUME NEW p \in Processes, Refuse(p)
      PROVE  LogStep
  <2>1. PICK n \in Nat : Enter(p, "refused", n)
    BY <1>3, RefusalTold
  <2> QED
    BY <1>0, <1>3, <2>1, FreshVisits, EntryLogged DEF Refuse, LogStep, Verdicts
<1>4. ASSUME NEW c \in Calls, Arrive(c)
      PROVE  LogStep
  BY <1>0, <1>4, EntryLogged DEF Arrive, LogStep, Verdicts, Limiters
<1>5. ASSUME NEW c \in Calls, Reply(c) \/ Fail(c)
      PROVE  LogStep
  <2>1. Header(Window) \in Nat /\ pc[c] # "idle" /\ now' = now
    BY <1>5, HeaderType, LimitAssumption DEF Reply, Fail
  <2>2. \E v \in Verdicts, n \in Nat : Done(c, v, n)
    BY <1>5, <2>1 DEF Reply, Fail, Verdicts
  <2> QED
    BY <1>0, <2>1, <2>2, Answered DEF LogStep
<1>6. CASE \/ \E p \in Processes : Cleanup(p) \/ Restart(p)
           \/ \E c \in Calls : ZRemRangeByScore(c) \/ ZCard(c) \/ ZAdd(c) \/ Retry(c)
           \/ Evict \/ UNCHANGED vars
  BY <1>0, <1>1, <1>6
  DEF Cleanup, Restart, ZRemRangeByScore, ZCard, ZAdd, Retry, Evict, vars
<1>7. CASE Tick
  BY <1>0, <1>1, <1>7 DEF Tick
<1> QED
  BY <1>2, <1>3, <1>4, <1>5, <1>6, <1>7 DEF Next
-------------------------------------------------------------------------------
(* Waiting for Retry-After *)

\* Requests are logged in the order of their times.
Ordered == \A i, j \in Requests : i <= j => log[i].at <= log[j].at

\* A process remembers no more than the budget.
Roomy == \A p \in Processes : Cardinality(visits[p]) <= Max

\* Redis does not say when its oldest visit leaves the window, but when all of it has.
Told == \A i \in Requests : log[i].verdict = "refused" /\ log[i].by = Redis =>
            log[i].told = Header(Window)

\* What came before a refused request, and is still in the window when it has waited.
StillIn(i) ==
    {k \in visits[log[i].by] : k < i /\ log[k].at > WaitedFor(i) - Window}

NoRoom == \A i \in Requests : log[i].verdict = "refused" /\ log[i].by # Redis =>
            Cardinality(StillIn(i)) < Max

\* WaitSuffices, for the limiter of a process.
ProcessWaits ==
    \A i, j \in Requests :
        /\ log[i].verdict = "refused" /\ log[j].verdict = "refused"
        /\ log[i].by = log[j].by /\ log[i].by # Redis
        /\ log[j].at >= WaitedFor(i)
        => \E k \in Requests : /\ k > i /\ k < j /\ log[k].verdict = "admitted"
                               /\ log[k].by = log[j].by /\ log[k].at >= log[i].at

WaitInv == IInv /\ Ordered /\ Roomy /\ Told /\ NoRoom /\ ProcessWaits

\* Whole seconds rounded down fall short by less than a second.
LEMMA HeaderWaits ==
    ASSUME NEW t \in Int
    PROVE  Header(t) * Second >= 1 /\ Header(t) * Second + Second - 1 >= t
<1>1. Second \in Nat /\ Second >= 1
  BY LimitAssumption
<1>2. CASE t < Second
  BY <1>1, <1>2 DEF Header
<1>3. CASE t >= Second
  <2> DEFINE d == t \div Second
  <2>1. d \in Int /\ d * Second + Second > t /\ d >= 1
    BY <1>1, <1>3
  <2>2. Header(t) = d
    BY <1>1, <1>3 DEF Header
  <2>3. d * Second \in Int
    BY <1>1, <2>1
  <2> HIDE DEF d
  <2> QED
    BY <1>1, <1>3, <2>1, <2>2, <2>3
<1> QED
  BY <1>1, <1>2, <1>3

LEMMA OrderKept ==
    ASSUME IInv, Ordered, LogStep
    PROVE  Ordered'
<1> SUFFICES ASSUME NEW i \in Requests', NEW j \in Requests', i <= j
             PROVE  log'[i].at <= log'[j].at
  BY DEF Ordered
<1>1. CASE i \in Requests /\ j \in Requests
  BY <1>1 DEF Ordered, LogStep, LogKept
<1>2. CASE j = Len(log) + 1 /\ log'[j].at = now
  <2>1. CASE i = j
    BY <1>2, <2>1, LimitAssumption DEF IInv, TypeOK
  <2>2. CASE i \in Requests
    BY <1>2, <2>2 DEF IInv, Stamped, LogStep, LogKept
  <2> QED
    BY <1>2, <2>1, <2>2 DEF LogStep
<1> QED
  BY <1>1, <1>2 DEF LogStep, LogKept, Requests

\* What a process remembers of old requests it has remembered all the time.
LEMMA VisitsGain ==
    ASSUME IInv, Roomy, [Next]_vars, NEW p \in Processes
    PROVE  /\ visits'[p] \subseteq visits[p] \union {Len(log) + 1}
           /\ Cardinality(visits'[p]) <= Max
<1>1. /\ p \in Limiters /\ p # Redis /\ Redis \in Limiters
      /\ visits \in [Limiters -> SUBSET (1..Len(log))] /\ Len(log) \in Nat
  BY FreshVisits DEF IInv, TypeOK, Requests, Limiters
<1>2. Cardinality(visits[p]) <= Max
  BY DEF Roomy
<1>3. CASE visits'[p] \subseteq visits[p]
  <2>1. Cardinality(visits[p]) \in Nat /\ Cardinality(visits'[p]) \in Nat
        /\ Cardinality(visits'[p]) <= Cardinality(visits[p])
    BY <1>1, <1>3, Counted
  <2> QED
    BY <1>2, <1>3, <2>1, LimitAssumption
<1>4. CASE Allow(p)
  <2>1. visits'[p] = Fresh(p) \union {Len(log) + 1} /\ Cardinality(Fresh(p)) < Max
    BY <1>1, <1>4 DEF Allow
  <2>2. Len(log) + 1 \notin Fresh(p)
    BY <1>1, FreshVisits
  <2>3. Cardinality(visits'[p]) = Cardinality(Fresh(p)) + 1
    BY <2>1, <2>2, FreshVisits, FS_AddElement
  <2> QED
    BY <2>1, <2>3, FreshVisits, LimitAssumption
<1>5. CASE Refuse(p) \/ Cleanup(p) \/ Restart(p)
  BY <1>1, <1>3, <1>5, FreshVisits DEF Refuse, Cleanup, Restart
<1>6. ASSUME NEW q \in Processes, q # p,
             Allow(q) \/ Refuse(q) \/ Cleanup(q) \/ Restart(q)
      PROVE  visits'[p] = visits[p]
  BY <1>1, <1>6 DEF Allow, Refuse, Cleanup, Restart
<1>7. ASSUME NEW c \in Calls,
             \/ Arrive(c) \/ ZRemRangeByScore(c) \/ ZCard(c) \/ ZAdd(c)
             \/ Reply(c) \/ Retry(c) \/ Fail(c)
      PROVE  visits'[p] = visits[p]
  BY <1>1, <1>7 DEF Arrive, ZRemRangeByScore, ZCard, ZAdd, Reply, Retry, Fail
<1>8. CASE Evict \/ Tick \/ UNCHANGED vars
  BY <1>1, <1>3, <1>8 DEF Evict, Tick, vars
<1> QED
  BY <1>3, <1>4, <1>5, <1>6, <1>7, <1>8 DEF Next

\* How a request comes to be refused.
LEMMA RefusedAfter ==
    ASSUME IInv, [Next]_vars, NEW i \in Requests', log'[i].verdict = "refused"
    PROVE  \/ i \in Requests /\ log'[i] = log[i]
           \/ log'[i].by = Redis /\ log'[i].told = Header(Window)
           \/ \E p \in Processes : Refuse(p) /\ i = Len(log) + 1
<1>0. TypeOK
  BY DEF IInv
<1>1. CASE log' = log
  BY <1>0, <1>1, SameLog
<1>2. ASSUME NEW p \in Processes, Allow(p)
      PROVE  i \in Requests /\ log'[i] = log[i]
  BY <1>0, <1>2, FreshVisits, EntryLogged DEF Allow, Verdicts
<1>3. ASSUME NEW p \in Processes, Refuse(p)
      PROVE  (i \in Requests /\ log'[i] = log[i]) \/ i = Len(log) + 1
  <2>1. PICK n \in Nat : Enter(p, "refused", n)
    BY <1>3, RefusalTold
  <2> QED
    BY <1>0, <2>1, FreshVisits, EntryLogged DEF Verdicts
<1>4. ASSUME NEW c \in Calls, Arrive(c)
      PROVE  i \in Requests /\ log'[i] = log[i]
  BY <1>0, <1>4, EntryLogged DEF Arrive, Verdicts, Limiters
<1>5. ASSUME NEW c \in Calls, Reply(c) \/ Fail(c)
      PROVE  \/ i \in Requests /\ log'[i] = log[i]
             \/ log'[i].by = Redis /\ log'[i].told = Header(Window)
  <2>1. PICK v \in Verdicts, n \in Nat :
            Done(c, v, n) /\ (v = "refused" => n = Header(Window))
    BY <1>5, HeaderType, LimitAssumption DEF Reply, Fail, Verdicts
  <2>2. pc[c] # "idle"
    BY <1>5 DEF Reply, Fail
  <2>3. /\ LogKept /\ Requests' = Requests
        /\ \A k \in Requests \ {req[c]} : log'[k] = log[k]
        /\ log'[req[c]].verdict = v /\ log'[req[c]].told = n
    BY <2>1, <2>2, Answered
  <2>4. req[c] \in Requests /\ log[req[c]].by = Redis
    BY <2>2 DEF IInv, Owned
  <2> QED
    BY <2>1, <2>3, <2>4 DEF LogKept
<1>6. CASE \/ \E p \in Processes : Cleanup(p) \/ Restart(p)
           \/ \E c \in Calls : ZRemRangeByScore(c) \/ ZCard(c) \/ ZAdd(c) \/ Retry(c)
           \/ Evict \/ Tick \/ UNCHANGED vars
  BY <1>1, <1>6
  DEF Cleanup, Restart, ZRemRangeByScore, ZCard, ZAdd, Retry, Evict, Tick, vars
<1> QED
  BY <1>2, <1>3, <1>4, <1>5, <1>6 DEF Next

\* Of the visits a refusal leaves, the oldest is gone when the client has waited; later
\* steps only forget more of them.
LEMMA NoRoomKept ==
    ASSUME IInv, Roomy, NoRoom, [Next]_vars
    PROVE  NoRoom'
<1> SUFFICES ASSUME NEW i \in Requests', log'[i].verdict = "refused", log'[i].by # Redis
             PROVE  Cardinality(StillIn(i)') < Max
  BY DEF NoRoom
<1>1. LogStep /\ TypeOK /\ Len(log) \in Nat
  BY StepLogged DEF IInv, TypeOK
<1>2. CASE i \in Requests /\ log'[i] = log[i]
  <2>1. PICK p \in Processes : p = log[i].by
    BY <1>1, <1>2 DEF LogStep, LogKept, Entry, Limiters
  <2>2. p \in Limiters /\ visits'[p] \subseteq visits[p] \union {Len(log) + 1}
    BY VisitsGain DEF Limiters
  <2>3. visits[p] \subseteq 1..Len(log) /\ i \in 1..Len(log)
    BY <1>1, <1>2, <2>2 DEF TypeOK, Requests
  <2>4. WaitedFor(i)' = WaitedFor(i)
    BY <1>2 DEF WaitedFor
  <2>5. StillIn(i)' \subseteq StillIn(i)
    <3> SUFFICES ASSUME NEW k \in visits'[p], k < i,
                        log'[k].at > WaitedFor(i) - Window
                 PROVE  k \in visits[p] /\ log[k].at > WaitedFor(i) - Window
      BY <1>2, <2>1, <2>4 DEF StillIn
    <3>1. k \in visits[p]
      BY <1>1, <2>2, <2>3
    <3>2. k \in Requests
      BY <3>1, <2>3 DEF Requests
    <3> QED
      BY <1>1, <3>1, <3>2 DEF LogStep, LogKept
  <2>6. Cardinality(StillIn(i)) < Max
    BY <1>2 DEF NoRoom
  <2>7. StillIn(i) \subseteq 1..Len(log)
    BY <2>1, <2>3 DEF StillIn
  <2>8. /\ Cardinality(StillIn(i)) \in Nat /\ Cardinality(StillIn(i)') \in Nat
        /\ Cardinality(StillIn(i)') <= Cardinality(StillIn(i))
    BY <1>1, <2>5, <2>7, Counted
  <2> QED
    BY <2>6, <2>8, LimitAssumption
<1>3. ASSUME NEW p \in Processes, Refuse(p), i = Len(log) + 1
      PROVE  Cardinality(StillIn(i)') < Max
  <2>1. PICK o \in Fresh(p), n \in Nat :
            /\ n = Header(Window - (now - log[o].at))
            /\ Enter(p, "refused", n)
            /\ o \in Requests /\ log[o].at \in Nat
    BY <1>3, RefusalTold
  <2>2. /\ log'[i].at = now /\ log'[i].by = p /\ log'[i].told = n
        /\ \A k \in Requests : log'[k] = log[k]
    BY <1>1, <1>3, <2>1, FreshVisits, EntryLogged DEF Verdicts
  <2>3. visits'[p] = Fresh(p) /\ Cardinality(Fresh(p)) <= Max
    <3>1. visits'[p] = Fresh(p)
      BY <1>1, <1>3, FreshVisits DEF Refuse, TypeOK
    <3> QED
      BY <3>1, VisitsGain
  <2>4. now \in Nat /\ Window \in Nat /\ Second \in Nat
    BY <1>1, LimitAssumption DEF TypeOK
  <2>5. n * Second + Second - 1 >= Window - (now - log[o].at) /\ n * Second \in Nat
    <3>1. Window - (now - log[o].at) \in Int
      BY <2>1, <2>4
    <3> QED
      BY <2>1, <2>4, <3>1, HeaderWaits
  <2>6. WaitedFor(i)' = now + n * Second + Second - 1
    BY <2>2 DEF WaitedFor
  <2>7. WaitedFor(i)' - Window >= log[o].at /\ WaitedFor(i)' \in Int
    BY <2>1, <2>4, <2>5, <2>6
  <2>8. StillIn(i)' \subseteq Fresh(p) \ {o}
    <3>1. log'[o].at = log[o].at
      BY <2>1, <2>2
    <3>2. ~ (log'[o].at > WaitedFor(i)' - Window)
      BY <2>1, <2>4, <2>7, <3>1
    <3>3. StillIn(i)' = {k \in Fresh(p) : k < i /\ log'[k].at > WaitedFor(i)' - Window}
      BY <2>2, <2>3 DEF StillIn
    <3> QED
      BY <3>2, <3>3
  <2>9. /\ IsFiniteSet(Fresh(p) \ {o})
        /\ Cardinality(Fresh(p) \ {o}) = Cardinality(Fresh(p)) - 1
    BY <2>1, FreshVisits, FS_RemoveElement
  <2>10. Cardinality(StillIn(i)') <= Cardinality(Fresh(p) \ {o})
    BY <2>8, <2>9, FS_Subset
  <2>11. Cardinality(StillIn(i)') \in Nat
    BY <2>8, <2>9, FS_Subset, FS_CardinalityType
  <2> QED
    BY <2>3, <2>9, <2>10, <2>11, FreshVisits, LimitAssumption
<1> QED
  BY <1>2, <1>3, RefusedAfter

\* When a process refuses again, too many of its visits are new.
LEMMA ProcessWaitsKept ==
    ASSUME WaitInv, [Next]_vars
    PROVE  ProcessWaits'
<1> SUFFICES ASSUME NEW i \in Requests', NEW j \in Requests',
                    log'[i].verdict = "refused", log'[j].verdict = "refused",
                    log'[i].by = log'[j].by, log'[i].by # Redis,
                    log'[j].at >= WaitedFor(i)'
             PROVE  \E k \in Requests' :
                        /\ k > i /\ k < j /\ log'[k].verdict = "admitted"
                        /\ log'[k].by = log'[j].by /\ log'[k].at >= log'[i].at
  BY DEF ProcessWaits
<1>1. IInv /\ TypeOK /\ LogStep /\ LogKept /\ Len(log) \in Nat /\ now \in Nat
  BY StepLogged, LimitAssumption DEF WaitInv, IInv, TypeOK, LogStep
<1>2. \A k \in Requests : log[k].at \in Nat /\ log[k].at <= now
  BY <1>1 DEF LogKept, Entry, IInv, Stamped
<1>3. CASE i \in Requests /\ log'[i] = log[i] /\ j \in Requests /\ log'[j] = log[j]
  <2>1. WaitedFor(i)' = WaitedFor(i)
    BY <1>3 DEF WaitedFor
  <2>2. PICK k \in Requests :
            /\ k > i /\ k < j /\ log[k].verdict = "admitted"
            /\ log[k].by = log[j].by /\ log[k].at >= log[i].at
    BY <1>3, <2>1 DEF WaitInv, ProcessWaits
  <2>3. k \in Requests' /\ log'[k] = log[k]
    BY <1>1, <1>3, <2>2 DEF LogKept
  <2> QED
    BY <1>3, <2>2, <2>3
<1>4. ASSUME NEW p \in Processes, Refuse(p), j = Len(log) + 1,
             i \in Requests, log'[i] = log[i]
      PROVE  \E k \in Requests' :
                        /\ k > i /\ k < j /\ log'[k].verdict = "admitted"
                        /\ log'[k].by = log'[j].by /\ log'[k].at >= log'[i].at
  <2>1. PICK n \in Nat : Enter(p, "refused", n)
    BY <1>1, <1>4, RefusalTold
  <2>2. /\ log'[j].at = now /\ log'[j].by = p
        /\ \A k \in Requests : log'[k] = log[k] /\ k \in Requests'
    BY <1>1, <1>4, <2>1, FreshVisits, EntryLogged DEF Verdicts
  <2>3. WaitedFor(i)' = WaitedFor(i) /\ WaitedFor(i) <= now /\ WaitedFor(i) \in Int
    <3>1. log[i].told \in Nat /\ log[i].at \in Nat /\ Second \in Nat
      BY <1>1, <1>4, LimitAssumption DEF LogKept, Entry
    <3>2. log[i].told * Second \in Int
      BY <3>1
    <3> QED
      BY <1>4, <2>2, <3>1, <3>2 DEF WaitedFor
  <2>4. PICK k \in Fresh(p) : ~ (k < i)
    <3> SUFFICES ASSUME \A k \in Fresh(p) : k < i
                 PROVE  FALSE
      OBVIOUS
    <3>1. Fresh(p) \subseteq StillIn(i)
      <4> SUFFICES ASSUME NEW k \in Fresh(p)
                   PROVE  k \in visits[p] /\ k < i /\ log[k].at > WaitedFor(i) - Window
        BY <1>4, <2>2 DEF StillIn
      <4>1. k \in visits[p] /\ k \in Requests
        BY <1>1, FreshVisits
      <4>2. now - log[k].at < Window
        BY DEF Fresh
      <4> QED
        BY <1>1, <1>2, <2>3, <4>1, <4>2, LimitAssumption
    <3>2. Cardinality(StillIn(i)) < Max
      BY <1>4 DEF WaitInv, NoRoom
    <3>3. StillIn(i) \subseteq 1..Len(log)
      BY <1>1, <1>4, <2>2, FreshVisits DEF StillIn, TypeOK, Requests
    <3>4. /\ Cardinality(StillIn(i)) \in Nat
          /\ Cardinality(Fresh(p)) <= Cardinality(StillIn(i))
      BY <1>1, <3>1, <3>3, Counted
    <3> QED
      BY <1>1, <1>4, <3>2, <3>4, FreshVisits, LimitAssumption DEF Refuse
  <2>5. k \in Requests /\ k \in visits[p]
    BY <1>1, FreshVisits
  <2>6. log[k].verdict = "admitted" /\ log[k].by = p
    BY <1>1, <2>5, FreshVisits DEF IInv, Remembered, Owned
  <2>7. i # k
    BY <1>4, <2>6
  <2>8. i < k /\ k < j
    BY <1>1, <1>4, <2>4, <2>5, <2>7 DEF Requests
  <2>9. log[i].at <= log[k].at
    BY <1>1, <1>4, <2>5, <2>8 DEF WaitInv, Ordered, Requests
  <2> QED
    BY <1>2, <1>4, <2>2, <2>5, <2>6, <2>8, <2>9
<1>5. ASSUME NEW p \in Processes, Refuse(p), i = Len(log) + 1
      PROVE  FALSE
  <2>1. PICK o \in Fresh(p), n \in Nat :
            /\ n = Header(Window - (now - log[o].at))
            /\ Enter(p, "refused", n)
            /\ o \in Requests /\ log[o].at \in Nat
    BY <1>1, <1>5, RefusalTold
  <2>2. /\ log'[i].at = now /\ log'[i].told = n /\ Requests' = Requests \union {i}
        /\ \A k \in Requests : log'[k] = log[k]
    BY <1>1, <1>5, <2>1, FreshVisits, EntryLogged DEF Verdicts
  <2>3. log'[j].at <= now
    BY <1>1, <1>2, <2>2
  <2>4. n * Second >= 1 /\ n * Second \in Nat /\ Second \in Nat /\ Second >= 1
    <3>1. Window - (now - log[o].at) \in Int /\ Second \in Nat
      BY <1>1, <2>1, LimitAssumption
    <3> QED
      BY <2>1, <3>1, HeaderWaits, LimitAssumption
  <2>5. WaitedFor(i)' = now + n * Second + Second - 1
    BY <2>2 DEF WaitedFor
  <2>6. log'[j].at \in Int
    BY <1>1, <1>2, <2>2
  <2> QED
    BY <1>1, <2>3, <2>4, <2>5, <2>6
<1> QED
  BY <1>1, <1>3, <1>4, <1>5, RefusedAfter

LEMMA WaitInvariant ==
    ASSUME WaitInv, [Next]_vars, IInv'
    PROVE  WaitInv'
<1>1. IInv /\ Ordered /\ Roomy /\ Told /\ NoRoom
  BY DEF WaitInv
<1>2. Ordered'
  BY <1>1, StepLogged, OrderKept
<1>3. Roomy'
  BY <1>1, VisitsGain DEF Roomy
<1>4. Told'
  <2> SUFFICES ASSUME NEW i \in Requests', log'[i].verdict = "refused", log'[i].by = Redis
               PROVE  log'[i].told = Header(Window)
    BY DEF Told
  <2>1. ASSUME NEW p \in Processes, Refuse(p), i = Len(log) + 1
        PROVE  FALSE
    <3>1. PICK n \in Nat : Enter(p, "refused", n)
      BY <1>1, <2>1, RefusalTold
    <3> QED
      BY <1>1, <2>1, <3>1, FreshVisits, EntryLogged DEF IInv, Verdicts
  <2> QED
    BY <1>1, <2>1, RefusedAfter DEF Told
<1> QED
  BY <1>1, <1>2, <1>3, <1>4, NoRoomKept, ProcessWaitsKept DEF WaitInv

\* Redis says to wait until its whole window is over, but for the request itself.
LEMMA RedisWaits ==
    ASSUME IInv, Told, NEW i \in Requests, NEW j \in Requests,
           log[i].verdict = "refused", log[j].verdict = "refused",
           log[i].by = Redis, log[j].by = Redis, Max > 1,
           log[j].at >= WaitedFor(i)
    PROVE  \E k \in Requests \ {i, j} : log[k].by = Redis /\ log[k].at >= log[i].at
<1>1. TypeOK /\ Len(log) \in Nat
  BY DEF IInv, TypeOK
<1>2. \A k \in Requests : log[k] \in Entry
  BY <1>1 DEF TypeOK, Requests
<1>3. Cardinality(Against(j)) >= Max /\ Against(j) \subseteq 1..Len(log)
  BY <1>1 DEF IInv, RefusedOverBudget, Against, Requests
<1>4. PICK k \in Against(j) : k # j
  <2> SUFFICES ASSUME Against(j) \subseteq {j}
               PROVE  FALSE
    OBVIOUS
  <2>1. Cardinality({j}) = 1 /\ IsFiniteSet({j})
    BY FS_Singleton
  <2>2. Cardinality(Against(j)) <= 1 /\ Cardinality(Against(j)) \in Nat
    <3>1. Cardinality(Against(j)) <= Cardinality({j})
      BY <2>1, FS_Subset
    <3> QED
      BY <2>1, <1>1, <1>3, <3>1, Counted
  <2> QED
    BY <1>3, <2>2, LimitAssumption
<1>5. k \in Requests /\ log[k].by = Redis /\ log[k].at > log[j].at - Window
  BY <1>4 DEF Against
<1>6. log[i].told = Header(Window)
  BY DEF Told
<1>7. /\ Header(Window) * Second + Second - 1 >= Window
      /\ Header(Window) * Second \in Int
      /\ Window \in Nat /\ Second \in Nat
  BY HeaderWaits, HeaderType, LimitAssumption
<1>8. WaitedFor(i) = log[i].at + Header(Window) * Second + Second - 1
  BY <1>6 DEF WaitedFor
<1>9. log[k].at > log[i].at
  <2>1. log[k].at \in Nat /\ log[i].at \in Nat /\ log[j].at \in Nat
    BY <1>2, <1>5 DEF Entry
  <2> QED
    BY <1>5, <1>7, <1>8, <2>1
<1> QED
  <2>1. log[k].at \in Nat /\ log[i].at \in Nat
    BY <1>2, <1>5 DEF Entry
  <2> QED
    BY <1>4, <1>5, <1>9, <2>1
-------------------------------------------------------------------------------
\* A client that waits as long as Retry-After says and almost a second more, for the
\* fraction the header leaves out, is refused only for what it sent meanwhile.  This is for
\* any window and any budget in memory, and in Redis for any budget above one: a process
\* remembers less than a budget of what came before, and Redis nothing at all.
THEOREM WaitingSuffices == Spec => []WaitSuffices
<1>1. Init => WaitInv
  <2> SUFFICES ASSUME Init
               PROVE  WaitInv
    OBVIOUS
  <2>1. IInv
    BY Initially
  <2>2. Requests = {}
    BY DEF Init, Requests
  <2>3. Roomy
    <3>1. \A p \in Processes : visits[p] = {}
      BY DEF Init, Limiters
    <3> QED
      BY <3>1, FS_EmptySet, LimitAssumption DEF Roomy
  <2> QED
    BY <2>1, <2>2, <2>3 DEF WaitInv, Ordered, Told, NoRoom, ProcessWaits
<1>2. WaitInv /\ [Next]_vars /\ IInv' => WaitInv'
  BY WaitInvariant
<1>3. WaitInv => WaitSuffices
  <2> SUFFICES ASSUME WaitInv, NEW i \in Requests, NEW j \in Requests,
                      log[i].verdict = "refused", log[j].verdict = "refused",
                      log[i].by = log[j].by, log[i].by = Redis => Max > 1,
                      log[j].at >= WaitedFor(i)
               PROVE  \E k \in Requests \ {i, j} :
                /\ log[k].by = log[j].by /\ log[k].at >= log[i].at
                /\ log[k].by # Redis => k > i /\ k < j /\ log[k].verdict = "admitted"
    BY DEF WaitSuffices
  <2>1. CASE log[i].by = Redis
    <3>1. IInv /\ Told
      BY DEF WaitInv
    <3>2. PICK k \in Requests \ {i, j} : log[k].by = Redis /\ log[k].at >= log[i].at
      BY <2>1, <3>1, RedisWaits
    <3> QED
      BY <2>1, <3>2
  <2>2. CASE log[i].by # Redis
    <3>1. Len(log) \in Nat
      BY DEF WaitInv, IInv, TypeOK
    <3> QED
      BY <2>2, <3>1 DEF WaitInv, ProcessWaits, Requests
  <2> QED
    BY <2>1, <2>2
<1> QED
  BY <1>1, <1>2, <1>3, Invariance, PTL DEF Spec
-------------------------------------------------------------------------------
(* The budget that processes share *)

\* What Redis admitted, or is about to, in the window that begins at t.
InWindow(t) == {i \in counted[Redis] : log[i].at >= t /\ log[i].at < t + Window}

\* Pipelines under way whose request is in it, and those of them that found room.
Coming(t) == {c \in Calls : /\ pc[c] # "idle"
                            /\ log[req[c]].at >= t /\ log[req[c]].at < t + Window}

Adding(t) == {c \in Coming(t) : pc[c] = "add" /\ ~full[c]}

Of(D) == {req[c] : c \in D}

\* Redis remembers all of the window; or the window is over, and no more can join it than
\* the pipelines that are late.
Whole(t) ==
    /\ InWindow(t) \subseteq visits[Redis]
    /\ Cardinality(InWindow(t) \union Of(Adding(t))) < Max + Cardinality(Calls)

Over(t) ==
    /\ now >= t + Window
    /\ Cardinality(InWindow(t) \union Of(Coming(t))) <= Max + 2 * (Cardinality(Calls) - 1)

Shared == \A t \in 0..MaxTime : Whole(t) \/ Over(t)

LEMMA Pipelines ==
    Cardinality(Calls) \in Nat /\ Cardinality(Calls) >= 1 /\ Max \in Nat /\ Max >= 1
BY LimitAssumption, FS_CardinalityType, FS_EmptySet

\* There are no more requests under way than pipelines.
LEMMA Images ==
    ASSUME NEW f, NEW D \in SUBSET Calls
    PROVE  /\ IsFiniteSet({f[c] : c \in D})
           /\ Cardinality({f[c] : c \in D}) \in Nat /\ Cardinality(D) \in Nat
           /\ Cardinality({f[c] : c \in D}) <= Cardinality(D)
           /\ Cardinality(D) <= Cardinality(Calls)
           /\ D # Calls => Cardinality(D) <= Cardinality(Calls) - 1
<1> DEFINE T == {f[c] : c \in D}
           g == [c \in D |-> f[c]]
<1>1. /\ IsFiniteSet(D) /\ Cardinality(D) <= Cardinality(Calls)
      /\ Cardinality(D) = Cardinality(Calls) => D = Calls
  BY LimitAssumption, FS_Subset
<1>2. g \in Surjection(D, T)
  BY DEF Surjection
<1>3. IsFiniteSet(T) /\ Cardinality(T) <= Cardinality(D)
  BY <1>1, <1>2, FS_Surjection
<1>4. Cardinality(D) \in Nat /\ Cardinality(T) \in Nat
  BY <1>1, <1>3, FS_CardinalityType
<1> QED
  BY <1>1, <1>3, <1>4, Pipelines

LEMMA UnionBound ==
    ASSUME NEW S, NEW T, IsFiniteSet(S), IsFiniteSet(T)
    PROVE  /\ IsFiniteSet(S \union T) /\ Cardinality(S \union T) \in Nat
           /\ Cardinality(S) \in Nat /\ Cardinality(T) \in Nat
           /\ Cardinality(S \union T) <= Cardinality(S) + Cardinality(T)
<1>1. IsFiniteSet(S \cap T) /\ Cardinality(S \cap T) \in Nat
  BY FS_Subset, FS_CardinalityType
<1>2. /\ IsFiniteSet(S \union T)
      /\ Cardinality(S \union T) = Cardinality(S) + Cardinality(T) - Cardinality(S \cap T)
  BY FS_Union
<1>3. /\ Cardinality(S) \in Nat /\ Cardinality(T) \in Nat
      /\ Cardinality(S \union T) \in Nat
  BY <1>2, FS_CardinalityType
<1> QED
  BY <1>1, <1>2, <1>3

LEMMA Smaller ==
    ASSUME NEW S, NEW T, IsFiniteSet(T), S \subseteq T
    PROVE  /\ Cardinality(S) \in Nat /\ Cardinality(T) \in Nat
           /\ Cardinality(S) <= Cardinality(T)
BY FS_Subset, FS_CardinalityType

\* What a step does to the limiter in Redis and its pipelines.
RedisStep ==
    /\ \A c \in Calls : pc'[c] # "idle" =>
            \/ pc[c] # "idle" /\ req'[c] = req[c]
            \/ pc'[c] = "purge" /\ req'[c] = Len(log) + 1 /\ log'[Len(log) + 1].at = now
    /\ \A i \in counted'[Redis] \ counted[Redis] :
            /\ i \in visits'[Redis]
            /\ \E c \in Calls : i = req[c] /\ pc[c] = "add" /\ ~full[c]
    /\ \A c \in Calls : pc'[c] = "add" /\ ~full'[c] =>
            \/ pc[c] = "add" /\ ~full[c] /\ req'[c] = req[c]
            \/ /\ pc[c] = "count" /\ Cardinality(visits[Redis]) < Max
               /\ UNCHANGED <<log, visits, counted>>
    /\ \/ visits[Redis] \subseteq visits'[Redis]
       \/ counted'[Redis] = {}
       \/ \E c \in Calls : /\ pc[c] = "purge"
                           /\ visits'[Redis] = {i \in visits[Redis] :
                                    log[i].at > log[req[c]].at - Window}
                           /\ UNCHANGED <<now, log, counted, req>>

LEMMA StepInRedis ==
    ASSUME IInv, [Next]_vars
    PROVE  RedisStep
<1>1. /\ visits \in [Limiters -> SUBSET Requests] /\ counted \in [Limiters -> SUBSET Requests]
      /\ pc \in [Calls -> {"idle", "purge", "count", "add", "reply"}]
      /\ req \in [Calls -> Nat] /\ full \in [Calls -> BOOLEAN]
      /\ Redis \in Limiters /\ \A p \in Processes : p # Redis /\ p \in Limiters
  BY LimitAssumption DEF IInv, TypeOK, Limiters
<1>2. CASE /\ UNCHANGED <<pc, req, full>>
           /\ visits'[Redis] = visits[Redis] /\ counted'[Redis] = counted[Redis]
  BY <1>2 DEF RedisStep
<1>3. ASSUME NEW p \in Processes, Allow(p) \/ Refuse(p) \/ Cleanup(p) \/ Restart(p)
      PROVE  RedisStep
  BY <1>1, <1>2, <1>3 DEF Allow, Refuse, Cleanup, Restart, pipeline
<1>4. CASE Tick \/ UNCHANGED vars
  BY <1>2, <1>4 DEF Tick, vars, pipeline
<1>5. CASE Evict
  BY <1>1, <1>5 DEF Evict, pipeline, RedisStep
<1>6. ASSUME NEW c \in Calls, Arrive(c)
      PROVE  RedisStep
  <2>1. log'[Len(log) + 1].at = now
    BY <1>6, EntryLogged DEF IInv, Arrive, Limiters, Verdicts
  <2> QED
    BY <1>1, <1>6, <2>1 DEF Arrive, Goto, RedisStep
<1>7. ASSUME NEW c \in Calls, ZRemRangeByScore(c)
      PROVE  RedisStep
  BY <1>1, <1>7 DEF ZRemRangeByScore, Goto, RedisStep
<1>8. ASSUME NEW c \in Calls, ZCard(c)
      PROVE  RedisStep
  <2>1. full'[c] = (Cardinality(visits[Redis]) >= Max) /\ pc[c] = "count"
    BY <1>1, <1>8 DEF ZCard
  <2>2. Cardinality(visits[Redis]) \in Nat
    <3>1. visits[Redis] \subseteq 1..Len(log) /\ Len(log) \in Nat
      BY <1>1 DEF Requests, IInv, TypeOK
    <3> QED
      BY <3>1, Counted
  <2>3. ~ full'[c] => Cardinality(visits[Redis]) < Max
    <3>1. full'[c] <=> Cardinality(visits[Redis]) >= Max
      BY <2>1
    <3> QED
      BY <2>2, <3>1, Pipelines
  <2>4. UNCHANGED <<log, visits, counted, req>>
    BY <1>8 DEF ZCard
  <2>5. \A d \in Calls \ {c} : pc'[d] = pc[d] /\ full'[d] = full[d]
    BY <1>1, <1>8 DEF ZCard, Goto
  <2>6. pc'[c] = "add"
    BY <1>1, <1>8 DEF ZCard, Goto
  <2> QED
    BY <2>1, <2>3, <2>4, <2>5, <2>6 DEF RedisStep
<1>9. ASSUME NEW c \in Calls, ZAdd(c)
      PROVE  RedisStep
  BY <1>1, <1>9 DEF ZAdd, Goto, RedisStep
<1>10. ASSUME NEW c \in Calls, Retry(c)
       PROVE  RedisStep
  BY <1>1, <1>10 DEF Retry, Goto, RedisStep
<1>11. ASSUME NEW c \in Calls, Reply(c) \/ Fail(c)
       PROVE  RedisStep
  <2>1. /\ pc' = [pc EXCEPT ![c] = "idle"] /\ req' = [req EXCEPT ![c] = 0]
        /\ full' = [full EXCEPT ![c] = FALSE]
        /\ UNCHANGED <<visits, counted>>
    BY <1>11 DEF Reply, Fail, Done, Goto
  <2> QED
    BY <1>1, <2>1 DEF RedisStep
<1> QED
  BY <1>3, <1>4, <1>5, <1>6, <1>7, <1>8, <1>9, <1>10, <1>11 DEF Next

LEMMA WindowTypes ==
    ASSUME IInv, NEW t \in 0..MaxTime
    PROVE  /\ InWindow(t) \subseteq Requests /\ IsFiniteSet(InWindow(t))
           /\ Coming(t) \subseteq Calls /\ Adding(t) \subseteq Coming(t)
           /\ IsFiniteSet(Of(Coming(t))) /\ IsFiniteSet(Of(Adding(t)))
           /\ \A c \in Calls : pc[c] # "idle" => req[c] \in Requests
<1>1. counted[Redis] \subseteq 1..Len(log) /\ Len(log) \in Nat
  BY DEF IInv, TypeOK, Limiters, Requests
<1>2. InWindow(t) \subseteq 1..Len(log)
  BY <1>1 DEF InWindow
<1>3. Coming(t) \subseteq Calls /\ Adding(t) \subseteq Coming(t)
  BY DEF Coming, Adding
<1>4. IsFiniteSet(Of(Coming(t))) /\ IsFiniteSet(Of(Adding(t)))
  BY <1>3, Images DEF Of
<1> QED
  BY <1>1, <1>2, <1>3, <1>4, Counted DEF Requests, IInv, Owned

\* A pipeline joins a window only with its own request, and only while it lasts.
LEMMA Joined ==
    ASSUME IInv, LogStep, RedisStep, NEW t \in 0..MaxTime, NEW c \in Coming(t)'
    PROVE  \/ c \in Coming(t) /\ req'[c] = req[c]
           \/ now < t + Window /\ pc'[c] = "purge"
<1>1. /\ c \in Calls /\ pc'[c] # "idle"
      /\ log'[req'[c]].at >= t /\ log'[req'[c]].at < t + Window
  BY DEF Coming
<1>2. CASE pc[c] # "idle" /\ req'[c] = req[c]
  <2>1. req[c] \in Requests
    BY <1>1, <1>2 DEF IInv, Owned
  <2>2. log'[req'[c]].at = log[req[c]].at
    BY <1>2, <2>1 DEF LogStep, LogKept
  <2> QED
    BY <1>1, <1>2, <2>2 DEF Coming
<1> QED
  BY <1>1, <1>2 DEF RedisStep

LEMMA Admitting ==
    ASSUME IInv, LogStep, RedisStep, NEW t \in 0..MaxTime, NEW i \in InWindow(t)'
    PROVE  /\ i \in InWindow(t) \union Of(Adding(t))
           /\ i \in InWindow(t) \/ i \in visits'[Redis]
<1>1. i \in counted'[Redis] /\ log'[i].at >= t /\ log'[i].at < t + Window
  BY DEF InWindow
<1>2. CASE i \in counted[Redis]
  <2>1. i \in Requests
    BY <1>2 DEF IInv, TypeOK, Limiters
  <2>2. log'[i].at = log[i].at
    BY <2>1 DEF LogStep, LogKept
  <2> QED
    BY <1>1, <1>2, <2>2 DEF InWindow
<1>3. ASSUME NEW c \in Calls, i = req[c], pc[c] = "add", ~full[c]
      PROVE  i \in Of(Adding(t))
  <2>1. i \in Requests
    BY <1>3 DEF IInv, Owned
  <2>2. log'[i].at = log[i].at
    BY <2>1 DEF LogStep, LogKept
  <2> QED
    BY <1>1, <1>3, <2>2 DEF Of, Adding, Coming
<1>4. CASE i \notin counted[Redis]
  <2>1. /\ i \in visits'[Redis]
        /\ \E c \in Calls : i = req[c] /\ pc[c] = "add" /\ ~full[c]
    BY <1>1, <1>4 DEF RedisStep
  <2> QED
    BY <1>3, <2>1
<1> QED
  BY <1>2, <1>4

\* Nobody joins a window that is over.
LEMMA OverStays ==
    ASSUME IInv, LogStep, RedisStep, NEW t \in 0..MaxTime, Over(t), now' \in Nat
    PROVE  Over(t)'
<1> DEFINE S == InWindow(t) \union Of(Coming(t))
<1>1. now \in Nat /\ t \in Nat /\ Window \in Nat /\ MaxTime \in Nat
  BY LimitAssumption DEF IInv, TypeOK
<1>2. now' >= t + Window /\ ~ (now < t + Window)
  BY <1>1 DEF Over, LogStep
<1>3. S' \subseteq S
  <2>1. ASSUME NEW i \in InWindow(t)'
        PROVE  i \in S
    BY Admitting, WindowTypes DEF Of
  <2>2. ASSUME NEW i \in Of(Coming(t))'
        PROVE  i \in S
    <3>1. PICK c \in Coming(t)' : i = req'[c]
      BY <2>2 DEF Of
    <3>2. c \in Coming(t) /\ req'[c] = req[c]
      BY <1>2, <3>1, Joined
    <3> QED
      BY <3>1, <3>2 DEF Of
  <2> QED
    BY <2>1, <2>2
<1>4. IsFiniteSet(S)
  BY WindowTypes, UnionBound
<1>5. Cardinality(S) <= Max + 2 * (Cardinality(Calls) - 1)
  BY DEF Over
<1>6. Cardinality(S') <= Max + 2 * (Cardinality(Calls) - 1)
  <2>1. Cardinality(S') \in Nat /\ Cardinality(S) \in Nat /\ Cardinality(S') <= Cardinality(S)
    BY <1>3, <1>4, Smaller
  <2> HIDE DEF S
  <2> QED
    BY <1>5, <2>1, Pipelines
<1> QED
  BY <1>2, <1>6 DEF Over

\* While Redis remembers a window, it has room only for what fits; what a later request
\* clears away, that request and its pipeline no longer belong to.
LEMMA WholeStays ==
    ASSUME IInv, LogStep, RedisStep, NEW t \in 0..MaxTime, Whole(t), now' \in Nat
    PROVE  Whole(t)' \/ Over(t)'
<1> DEFINE N == InWindow(t)
           S == N \union Of(Adding(t))
<1>1. /\ N \subseteq visits[Redis] /\ Cardinality(S) < Max + Cardinality(Calls)
      /\ IsFiniteSet(N) /\ IsFiniteSet(Of(Adding(t)))
  BY WindowTypes DEF Whole
<1>2. IsFiniteSet(S) /\ Cardinality(S) \in Nat /\ Cardinality(N) \in Nat
      /\ Cardinality(N) <= Cardinality(S)
  BY <1>1, UnionBound, Smaller
<1>3. \A i \in N' : i \in S
  BY Admitting
<1>4. Cardinality(S') < Max + Cardinality(Calls)
  <2>1. CASE \E c \in Calls : /\ pc[c] = "count" /\ Cardinality(visits[Redis]) < Max
                              /\ UNCHANGED <<log, visits, counted>>
    <3>1. N' = N
      BY <2>1 DEF InWindow
    <3>2. Cardinality(N) < Max
      <4>1. visits[Redis] \subseteq 1..Len(log) /\ Len(log) \in Nat
        BY DEF IInv, TypeOK, Limiters, Requests
      <4>2. /\ Cardinality(visits[Redis]) \in Nat
            /\ Cardinality(N) <= Cardinality(visits[Redis])
        BY <1>1, <4>1, Counted
      <4> QED
        BY <1>2, <2>1, <4>2, Pipelines
    <3>3. Adding(t)' \in SUBSET Calls
      BY DEF Adding, Coming
    <3>4. /\ IsFiniteSet(Of(Adding(t))') /\ Cardinality(Of(Adding(t))') \in Nat
          /\ Cardinality(Of(Adding(t))') <= Cardinality(Calls)
      <4>1. PICK D \in SUBSET Calls : D = Adding(t)'
        BY <3>3
      <4>2. PICK f : f = req'
        OBVIOUS
      <4>3. Of(Adding(t))' = {f[c] : c \in D}
        BY <4>1, <4>2 DEF Of
      <4>4. /\ IsFiniteSet({f[c] : c \in D}) /\ Cardinality({f[c] : c \in D}) \in Nat
            /\ Cardinality({f[c] : c \in D}) <= Cardinality(D)
            /\ Cardinality(D) \in Nat /\ Cardinality(D) <= Cardinality(Calls)
        BY Images
      <4>5. Cardinality({f[c] : c \in D}) <= Cardinality(Calls)
        BY <4>4, Pipelines
      <4> QED
        BY <4>3, <4>4, <4>5
    <3>5. /\ Cardinality(S') \in Nat
          /\ Cardinality(S') <= Cardinality(N) + Cardinality(Of(Adding(t))')
      BY <1>1, <3>1, <3>4, UnionBound
    <3> HIDE DEF N, S
    <3> QED
      BY <1>2, <3>2, <3>4, <3>5, Pipelines
  <2>2. CASE \A c \in Calls : pc'[c] = "add" /\ ~full'[c] =>
                pc[c] = "add" /\ ~full[c] /\ req'[c] = req[c]
    <3>1. ASSUME NEW i \in Of(Adding(t))'
          PROVE  i \in S
      <4>1. PICK c \in Adding(t)' : i = req'[c]
        BY <3>1 DEF Of
      <4>2. c \in Coming(t)' /\ c \in Calls /\ pc'[c] = "add" /\ ~full'[c]
        BY <4>1 DEF Adding, Coming
      <4>3. c \in Coming(t) /\ req'[c] = req[c]
        BY <4>2, Joined
      <4> QED
        BY <2>2, <4>1, <4>2, <4>3 DEF Of, Adding
    <3>2. S' \subseteq S
      BY <1>3, <3>1
    <3>3. Cardinality(S') \in Nat /\ Cardinality(S') <= Cardinality(S)
      BY <1>2, <3>2, Smaller
    <3> HIDE DEF S
    <3> QED
      BY <1>1, <1>2, <3>3, Pipelines
  <2> QED
    BY <2>1, <2>2 DEF RedisStep
<1>5. CASE N' \subseteq visits'[Redis]
  BY <1>4, <1>5 DEF Whole
<1>6. CASE visits[Redis] \subseteq visits'[Redis]
  BY <1>1, <1>5, <1>6, Admitting
<1>7. CASE counted'[Redis] = {}
  BY <1>5, <1>7 DEF InWindow
<1>8. ASSUME NEW c \in Calls, pc[c] = "purge",
             visits'[Redis] = {i \in visits[Redis] : log[i].at > log[req[c]].at - Window},
             UNCHANGED <<now, log, counted, req>>,
             NEW i \in N', i \notin visits'[Redis]
      PROVE  Over(t)'
  <2>1. N' = N
    BY <1>8 DEF InWindow
  <2>2. i \in visits[Redis] /\ ~ (log[i].at > log[req[c]].at - Window)
    BY <1>1, <1>8, <2>1
  <2>3. i \in Requests /\ req[c] \in Requests /\ log[i].at >= t
    BY <1>8, <2>1, WindowTypes DEF InWindow
  <2>4. /\ log[i].at \in Nat /\ log[req[c]].at \in Nat /\ log[req[c]].at <= now
        /\ now \in Nat /\ t \in Nat /\ Window \in Nat
    BY <2>3, LimitAssumption, SameLog DEF IInv, TypeOK, Stamped, LogStep, LogKept, Entry
  <2>5. now >= t + Window /\ ~ (log[req[c]].at < t + Window)
    BY <2>2, <2>3, <2>4
  <2>6. Coming(t)' \in SUBSET Calls /\ Coming(t)' # Calls
    BY <1>8, <2>5 DEF Coming
  <2>7. /\ IsFiniteSet(Of(Coming(t))') /\ Cardinality(Of(Coming(t))') \in Nat
        /\ Cardinality(Of(Coming(t))') <= Cardinality(Calls) - 1
    <3>1. PICK D \in SUBSET Calls : D = Coming(t)' /\ D # Calls
      BY <2>6
    <3>2. PICK f : f = req'
      OBVIOUS
    <3>3. Of(Coming(t))' = {f[d] : d \in D}
      BY <3>1, <3>2 DEF Of
    <3>4. /\ IsFiniteSet({f[d] : d \in D}) /\ Cardinality({f[d] : d \in D}) \in Nat
          /\ Cardinality({f[d] : d \in D}) <= Cardinality(D)
          /\ Cardinality(D) \in Nat /\ Cardinality(D) <= Cardinality(Calls) - 1
      BY <3>1, Images
    <3>5. Cardinality({f[d] : d \in D}) <= Cardinality(Calls) - 1
      BY <3>4, Pipelines
    <3> QED
      BY <3>3, <3>4, <3>5
  <2>8. Cardinality((N \union Of(Coming(t)))') <= Max + 2 * (Cardinality(Calls) - 1)
    <3>1. /\ Cardinality((N \union Of(Coming(t)))') \in Nat
          /\ Cardinality((N \union Of(Coming(t)))')
                <= Cardinality(N) + Cardinality(Of(Coming(t))')
      BY <1>1, <2>1, <2>7, UnionBound
    <3> HIDE DEF N, S
    <3> QED
      BY <1>1, <1>2, <2>7, <3>1, Pipelines
  <2> QED
    BY <1>8, <2>5, <2>8 DEF Over
<1> QED
  BY <1>5, <1>6, <1>7, <1>8 DEF RedisStep

\* The excess of the processes together over the budget: what found room before one
\* another's ZADD and, once the window has ended, what was late then.
THEOREM SharedBudgetKept == Spec => []SharedBudget
<1>1. Init => Shared
  <2> SUFFICES ASSUME Init, NEW t \in 0..MaxTime
               PROVE  Whole(t)
    BY DEF Shared
  <2>1. InWindow(t) = {} /\ Of(Adding(t)) = {}
    BY DEF Init, InWindow, Of, Adding, Coming, Limiters
  <2>2. Cardinality(InWindow(t) \union Of(Adding(t))) = 0
    BY <2>1, FS_EmptySet
  <2> QED
    BY <2>1, <2>2, Pipelines DEF Whole
<1>2. IInv /\ Shared /\ [Next]_vars /\ IInv' => Shared'
  <2> SUFFICES ASSUME IInv, Shared, [Next]_vars, IInv', NEW t \in 0..MaxTime
               PROVE  Whole(t)' \/ Over(t)'
    BY DEF Shared
  <2>1. LogStep /\ RedisStep /\ now' \in Nat
    BY StepLogged, StepInRedis, LimitAssumption DEF IInv, TypeOK
  <2> QED
    BY <2>1, WholeStays, OverStays DEF Shared
<1>3. IInv /\ Shared => SharedBudget
  <2> SUFFICES ASSUME IInv, Shared, NEW t \in 0..MaxTime
               PROVE  Cardinality(Admitted(Redis, t)) <=
                        Max + (IF now < t + Window THEN 1 ELSE 2) * (Cardinality(Calls) - 1)
    BY DEF SharedBudget
  <2>1. Admitted(Redis, t) \subseteq InWindow(t)
    BY DEF Admitted, InWindow
  <2>2. CASE Whole(t)
    <3>1. /\ IsFiniteSet(InWindow(t) \union Of(Adding(t)))
          /\ Cardinality(InWindow(t) \union Of(Adding(t))) < Max + Cardinality(Calls)
      BY <2>2, WindowTypes, UnionBound DEF Whole
    <3>2. /\ Cardinality(Admitted(Redis, t)) \in Nat
          /\ Cardinality(InWindow(t) \union Of(Adding(t))) \in Nat
          /\ Cardinality(Admitted(Redis, t))
                <= Cardinality(InWindow(t) \union Of(Adding(t)))
      BY <2>1, <3>1, Smaller
    <3> QED
      BY <3>1, <3>2, Pipelines
  <2>3. CASE Over(t)
    <3>0. ~ (now < t + Window)
      BY <2>3, LimitAssumption DEF Over, IInv, TypeOK
    <3>1. /\ IsFiniteSet(InWindow(t) \union Of(Coming(t)))
          /\ Cardinality(InWindow(t) \union Of(Coming(t)))
                <= Max + 2 * (Cardinality(Calls) - 1)
      BY <2>3, WindowTypes, UnionBound DEF Over
    <3>2. /\ Cardinality(Admitted(Redis, t)) \in Nat
          /\ Cardinality(InWindow(t) \union Of(Coming(t))) \in Nat
          /\ Cardinality(Admitted(Redis, t))
                <= Cardinality(InWindow(t) \union Of(Coming(t)))
      BY <2>1, <3>1, Smaller
    <3> QED
      BY <3>0, <3>1, <3>2, Pipelines
  <2> QED
    BY <2>2, <2>3 DEF Shared
<1> QED
  BY <1>1, <1>2, <1>3, Invariance, PTL DEF Spec
===============================================================================
