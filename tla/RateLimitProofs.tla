--------------------------- MODULE RateLimitProofs ----------------------------
(***************************************************************************)
(* Theorems about RateLimit, for any processes, pipelines, budget and      *)
(* window.  A window is bounded when its last request is admitted, by what *)
(* the limiter remembers then: the invariant says that it remembers every  *)
(* request it counts that is still inside the window, and that what a      *)
(* pipeline found in Redis was inside the window of its request.           *)
(***************************************************************************)
EXTENDS RateLimit, FiniteSetTheorems, SequenceTheorems,
        WellFoundedInduction, TLAPS

Stamped == \A i \in Requests : log[i].at <= now

\* A limiter remembers and counts its own requests; a pipeline is young.
Owned ==
    /\ \A l \in Limiters : \A i \in visits[l] \union counted[l] : log[i].by = l
    /\ \A c \in Calls : pc[c] # "idle" =>
            /\ req[c] \in Requests /\ log[req[c]].by = Redis
            /\ now - log[req[c]].at <= Patience

Remembered ==
    \A p \in Processes :
        /\ \A i \in counted[p] : now - log[i].at < Window => i \in visits[p]
        /\ \A i \in visits[p] : log[i].verdict = "admitted"

\* What a pipeline is about to count, and has counted, is inside its window.
Counting ==
    /\ \A c \in Calls : pc[c] = "count" =>
            \A j \in visits[Redis] : log[j].at > log[req[c]].at - Window
    /\ \A c \in Calls : full[c] =>
            pc[c] \in {"add", "reply"} /\ Cardinality(Against(req[c])) >= Max

IInv ==
    /\ TypeOK
    /\ Stamped
    /\ Owned
    /\ Remembered
    /\ Counting
    /\ BudgetKept
    /\ RefusedOverBudget

-------------------------------------------------------------------------------
(* The log *)

\* The log is finite, so subsets of it are counted as one expects.
LEMMA Counted ==
    ASSUME NEW n \in Nat, NEW S \in SUBSET (1..n)
    PROVE  /\ IsFiniteSet(S) /\ Cardinality(S) \in Nat
           /\ \A T \in SUBSET S : Cardinality(T) <= Cardinality(S)
<1>1. IsFiniteSet(1..n)
  BY FS_Interval
<1>2. IsFiniteSet(S)
  BY <1>1, FS_Subset
<1> QED
  BY <1>2, FS_Subset, FS_CardinalityType

\* A request is logged once; only its verdict is filled in, and only that of Redis.
LogKept ==
    /\ Len(log') \in Nat /\ Len(log) \in Nat /\ Len(log) <= Len(log')
    /\ \A i \in Requests :
            /\ i \in Requests' /\ log[i] \in Entry
            /\ log'[i].at = log[i].at /\ log'[i].by = log[i].by
            /\ log[i].by # Redis => log'[i] = log[i]

\* A new entry comes last.
LEMMA Entered ==
    ASSUME TypeOK, NEW l \in Limiters, NEW v \in Verdicts, NEW n \in Nat, Enter(l, v, n)
    PROVE  /\ log' \in Seq(Entry) /\ LogKept
           /\ Requests' = Requests \union {Len(log) + 1} /\ Len(log) + 1 \notin Requests
           /\ \A i \in Requests : log'[i] = log[i]
           /\ log'[Len(log) + 1] = [at |-> now, by |-> l, verdict |-> v, told |-> n]
<1> DEFINE e == [at |-> now, by |-> l, verdict |-> v, told |-> n]
<1>1. e \in Entry /\ log \in Seq(Entry) /\ Len(log) \in Nat
  BY LimitAssumption DEF TypeOK, Entry
<1>2. log' = Append(log, e)
  BY DEF Enter
<1> HIDE DEF e
<1>3. /\ log' \in Seq(Entry) /\ Len(log') = Len(log) + 1
      /\ \A i \in 1..Len(log) : log'[i] = log[i]
      /\ log'[Len(log) + 1] = e
  BY <1>1, <1>2, AppendProperties
<1>4. Requests' = Requests \union {Len(log) + 1} /\ Len(log) + 1 \notin Requests
  BY <1>1, <1>3 DEF Requests
<1>5. LogKept
  BY <1>1, <1>3, <1>4 DEF LogKept, Requests
<1> QED
  BY <1>3, <1>4, <1>5 DEF Requests, e

\* A verdict filled in.
LEMMA Answered ==
    ASSUME IInv, NEW c \in Calls, pc[c] # "idle", NEW v \in Verdicts, NEW n \in Nat,
           Done(c, v, n)
    PROVE  /\ log' \in Seq(Entry) /\ LogKept /\ Requests' = Requests
           /\ \A i \in Requests \ {req[c]} : log'[i] = log[i]
           /\ log'[req[c]].verdict = v /\ log'[req[c]].told = n
<1> DEFINE e == [log[req[c]] EXCEPT !.verdict = v, !.told = n]
<1>1. /\ log \in Seq(Entry) /\ Len(log) \in Nat
      /\ req[c] \in 1..Len(log) /\ log[req[c]].by = Redis
  BY DEF IInv, TypeOK, Owned, Requests
<1>2. log \in [1..Len(log) -> Entry] /\ log[req[c]] \in Entry
  BY <1>1
<1>3. /\ e \in Entry /\ e.at = log[req[c]].at /\ e.by = log[req[c]].by
      /\ e.verdict = v /\ e.told = n
  BY <1>2 DEF Entry
<1>4. log' = [log EXCEPT ![req[c]] = e]
  BY DEF Done
<1> HIDE DEF e
<1>5. /\ log' \in [1..Len(log) -> Entry] /\ log'[req[c]] = e
      /\ \A i \in 1..Len(log) : i # req[c] => log'[i] = log[i]
  BY <1>1, <1>2, <1>3, <1>4
<1>6. log' \in Seq(Entry) /\ Len(log') = Len(log)
  BY <1>1, <1>5
<1>7. Requests' = Requests
  BY <1>6 DEF Requests
<1>8. LogKept
  BY <1>1, <1>2, <1>3, <1>5, <1>6, <1>7 DEF LogKept, Requests
<1> QED
  BY <1>3, <1>5, <1>6, <1>7, <1>8 DEF Requests

LEMMA SameLog ==
    ASSUME TypeOK, log' = log
    PROVE  LogKept /\ Requests' = Requests
<1>1. log \in Seq(Entry) /\ Len(log) \in Nat
  BY DEF TypeOK
<1>2. \A i \in 1..Len(log) : log[i] \in Entry
  BY <1>1
<1> QED
  BY <1>1, <1>2 DEF LogKept, Requests

\* What a Retry-After may be.
LEMMA HeaderType ==
    ASSUME NEW t \in Int
    PROVE  Header(t) \in Nat
<1>1. Second \in Nat \ {0}
  BY LimitAssumption
<1>2. t >= Second => t \div Second \in Nat
  BY <1>1
<1> QED
  BY <1>1, <1>2 DEF Header

\* The oldest of the visits is one of them.
LEMMA OldestType ==
    ASSUME TypeOK, NEW S \in SUBSET Requests, Cardinality(S) >= Max
    PROVE  Oldest(S) \in S
<1> DEFINE Less == {x \in Nat \X Nat : x[1] < x[2]}
<1>1. IsWellFoundedOn(Less, Nat)
  BY NatLessThanWellFounded DEF OpToRel
<1>2. S \subseteq Nat /\ S # {}
  <2>1. Len(log) \in Nat
    BY DEF TypeOK
  <2>2. S # {}
    BY LimitAssumption, FS_EmptySet
  <2> QED
    BY <2>1, <2>2 DEF Requests
<1>3. PICK i \in S : \A j \in S : ~ (<<j, i>> \in Less)
  BY <1>1, <1>2, WFMin
<1>4. ASSUME NEW j \in S PROVE i <= j
  <2>1. i \in Nat /\ j \in Nat
    BY <1>2, <1>3
  <2>2. <<j, i>> \in Nat \X Nat
    BY <2>1
  <2>3. ~ (j < i)
    BY <1>3, <2>2
  <2> QED
    BY <2>1, <2>3
<1> QED
  BY <1>3, <1>4 DEF Oldest

-------------------------------------------------------------------------------
(* What any step keeps that only adds to the log *)

LEMMA AgainstGrows ==
    ASSUME LogKept, NEW i \in Requests
    PROVE  /\ Cardinality(Against(i)) \in Nat /\ Cardinality(Against(i)') \in Nat
           /\ Cardinality(Against(i)) <= Cardinality(Against(i)')
<1>1. Against(i) \subseteq Against(i)'
  <2> SUFFICES ASSUME NEW j \in Against(i)
               PROVE  j \in Against(i)'
    OBVIOUS
  <2>1. j \in Requests /\ j \in Requests' /\ i \in Requests'
    BY DEF LogKept, Against
  <2>2. /\ log'[j].at = log[j].at /\ log'[j].by = log[j].by
        /\ log'[i].at = log[i].at /\ log'[i].by = log[i].by
        /\ log[j].by # Redis => log'[j].verdict = log[j].verdict
    BY <2>1 DEF LogKept
  <2> QED
    BY <2>1, <2>2 DEF Against
<1>2. /\ Len(log) \in Nat /\ Against(i) \subseteq 1..Len(log)
      /\ Len(log') \in Nat /\ Against(i)' \subseteq 1..Len(log')
  BY DEF LogKept, Against, Requests
<1> QED
  BY <1>1, <1>2, Counted

\* A request once refused rightly stays so.
LEMMA RefusalsStand ==
    ASSUME IInv, LogKept,
           \A i \in Requests' : log'[i].verdict = "refused" =>
                \/ i \in Requests /\ log[i].verdict = "refused"
                \/ Cardinality(Against(i)') >= Max
    PROVE  RefusedOverBudget'
<1> SUFFICES ASSUME NEW i \in Requests', log'[i].verdict = "refused"
             PROVE  Cardinality(Against(i)') >= Max
  BY DEF RefusedOverBudget
<1> CASE i \in Requests /\ log[i].verdict = "refused"
  <2>1. Cardinality(Against(i)) >= Max
    BY DEF IInv, RefusedOverBudget
  <2> QED
    BY <2>1, AgainstGrows, LimitAssumption
<1> QED
  OBVIOUS

\* A process that counts no new request has admitted no more than before.
LEMMA AdmittedShrinks ==
    ASSUME IInv, LogKept, NEW p \in Processes, counted'[p] \subseteq counted[p],
           NEW t \in 0..MaxTime
    PROVE  Cardinality(Admitted(p, t)') <= Max
<1>1. Cardinality(Admitted(p, t)) <= Max
  BY DEF IInv, BudgetKept
<1>2. Len(log) \in Nat /\ Admitted(p, t) \subseteq 1..Len(log)
  BY DEF IInv, TypeOK, Limiters, Admitted, Requests, LogKept
<1>3. Admitted(p, t)' \subseteq Admitted(p, t)
  <2> SUFFICES ASSUME NEW i \in Admitted(p, t)'
               PROVE  i \in Admitted(p, t)
    OBVIOUS
  <2>1. i \in counted[p]
    BY DEF Admitted
  <2>2. i \in Requests /\ log[i].by = p /\ p # Redis
    BY <2>1, LimitAssumption DEF IInv, TypeOK, Owned, Limiters
  <2>3. log'[i] = log[i]
    BY <2>2 DEF LogKept
  <2> QED
    BY <2>1, <2>3 DEF Admitted
<1>4. /\ Cardinality(Admitted(p, t)) \in Nat
      /\ Cardinality(Admitted(p, t)') \in Nat
      /\ Cardinality(Admitted(p, t)') <= Cardinality(Admitted(p, t))
  BY <1>2, <1>3, Counted
<1> QED
  BY <1>1, <1>4, LimitAssumption

LEMMA BudgetsStand ==
    ASSUME IInv, LogKept, \A p \in Processes : counted'[p] \subseteq counted[p]
    PROVE  BudgetKept'
BY AdmittedShrinks DEF BudgetKept

\* A pipeline keeps its request.
LEMMA StillYoung ==
    ASSUME IInv, LogKept, NEW c \in Calls, pc[c] # "idle", req'[c] = req[c], now' = now
    PROVE  /\ req[c] \in Requests /\ req'[c] \in Requests'
           /\ log'[req'[c]].by = Redis /\ log'[req'[c]].at = log[req[c]].at
           /\ now' - log'[req'[c]].at <= Patience
<1>1. PICK r \in Requests : r = req[c]
  BY DEF IInv, Owned
<1>2. log[r].by = Redis /\ now - log[r].at <= Patience
  BY <1>1 DEF IInv, Owned
<1>3. r \in Requests' /\ log'[r].at = log[r].at /\ log'[r].by = log[r].by
  BY DEF LogKept
<1> QED
  BY <1>1, <1>2, <1>3

\* A pipeline that found the budget used goes on to say so.
LEMMA StillFull ==
    ASSUME IInv, LogKept, NEW c \in Calls, full[c], req'[c] = req[c]
    PROVE  (Cardinality(Against(req[c])) >= Max)'
<1>1. PICK r \in Requests : r = req[c] /\ Cardinality(Against(r)) >= Max
  BY DEF IInv, Owned, Counting
<1>2. Cardinality(Against(r)') >= Max
  BY <1>1, AgainstGrows, LimitAssumption
<1>3. Against(r)' = Against(req[c])'
  BY <1>1 DEF Against
<1> QED
  BY <1>2, <1>3

-------------------------------------------------------------------------------
(* The limiter of a process *)

LEMMA FreshVisits ==
    ASSUME IInv, NEW p \in Processes
    PROVE  /\ p \in Limiters /\ p # Redis /\ Len(log) \in Nat
           /\ Fresh(p) \in SUBSET Requests /\ Fresh(p) \subseteq visits[p]
           /\ IsFiniteSet(Fresh(p)) /\ Cardinality(Fresh(p)) \in Nat
<1>1. p \in Limiters /\ p # Redis /\ Len(log) \in Nat
  BY LimitAssumption DEF IInv, TypeOK, Limiters
<1>2. Fresh(p) \subseteq visits[p] /\ Fresh(p) \in SUBSET Requests
  BY <1>1 DEF Fresh, IInv, TypeOK
<1> QED
  BY <1>1, <1>2, Counted DEF Requests

\* A process has only room left for one request that is new to the window: everything
\* else it admitted in that window it still remembers.
LEMMA AllowKeeps ==
    ASSUME IInv, NEW p \in Processes, Allow(p)
    PROVE  IInv'
<1> DEFINE new == Len(log) + 1
<1>1. /\ log' \in Seq(Entry) /\ LogKept
      /\ Requests' = Requests \union {new} /\ new \notin Requests
      /\ \A i \in Requests : log'[i] = log[i]
      /\ log'[new] = [at |-> now, by |-> p, verdict |-> "admitted", told |-> 0]
  BY FreshVisits, Entered DEF IInv, Allow, Verdicts
<1>2. /\ visits' = [visits EXCEPT ![p] = Fresh(p) \union {new}]
      /\ counted' = [counted EXCEPT ![p] = counted[p] \union {new}]
      /\ Cardinality(Fresh(p)) < Max
      /\ UNCHANGED <<now, viaRedis, pc, req, full>>
  BY DEF Allow, pipeline
<1>3. /\ visits \in [Limiters -> SUBSET Requests] /\ counted \in [Limiters -> SUBSET Requests]
      /\ Limiters' = Limiters /\ Redis \in Limiters
  BY DEF IInv, TypeOK, Limiters
<1> HIDE DEF new
<1>4. /\ visits'[p] = Fresh(p) \union {new} /\ counted'[p] = counted[p] \union {new}
      /\ \A l \in Limiters \ {p} : visits'[l] = visits[l] /\ counted'[l] = counted[l]
  BY <1>2, <1>3, FreshVisits
<1>5. TypeOK'
  BY <1>1, <1>2, <1>3, FreshVisits DEF IInv, TypeOK
<1>6. Stamped'
  BY <1>1, <1>2 DEF IInv, TypeOK, Stamped
<1>7. Owned'
  <2>1. ASSUME NEW l \in Limiters, NEW i \in visits'[l] \union counted'[l]
        PROVE  log'[i].by = l
    <3> CASE i = new /\ l = p
      BY <1>1
    <3> CASE i \in visits[l] \union counted[l]
      BY <1>1, <1>3 DEF IInv, Owned
    <3> QED
      BY <1>1, <1>3, <1>4, FreshVisits
  <2>2. ASSUME NEW c \in Calls, pc'[c] # "idle"
        PROVE  /\ req'[c] \in Requests' /\ log'[req'[c]].by = Redis
               /\ now' - log'[req'[c]].at <= Patience
    BY <1>1, <1>2, <2>2, StillYoung
  <2> QED
    BY <2>1, <2>2, <1>3 DEF Owned
<1>8. Remembered'
  <2> SUFFICES ASSUME NEW q \in Processes
               PROVE  /\ \A i \in counted'[q] : now - log'[i].at < Window => i \in visits'[q]
                      /\ \A i \in visits'[q] : log'[i].verdict = "admitted"
    BY <1>2 DEF Remembered
  <2>1. q \in Limiters
    BY DEF Limiters
  <2>2. CASE q = p
    <3>1. \A i \in counted[p] : now - log[i].at < Window => i \in Fresh(p)
      BY DEF IInv, Remembered, Fresh
    <3>2. \A i \in Fresh(p) : log[i].verdict = "admitted"
      BY FreshVisits DEF IInv, Remembered
    <3> QED
      BY <2>1, <2>2, <3>1, <3>2, <1>1, <1>3, <1>4, FreshVisits
  <2>3. CASE q # p
    <3>1. visits'[q] = visits[q] /\ counted'[q] = counted[q]
      BY <1>4, <2>1, <2>3
    <3> QED
      BY <3>1, <2>1, <1>1, <1>3 DEF IInv, Remembered
  <2> QED
    BY <2>2, <2>3
<1>9. Counting'
  <2>1. visits'[Redis] = visits[Redis] /\ visits[Redis] \subseteq Requests
    BY <1>3, <1>4, FreshVisits
  <2>2. ASSUME NEW c \in Calls, pc'[c] = "count", NEW j \in visits'[Redis]
        PROVE  log'[j].at > log'[req'[c]].at - Window
    <3>1. log'[req'[c]].at = log[req[c]].at
      BY <1>1, <1>2, <2>2, StillYoung
    <3>2. log[j].at > log[req[c]].at - Window
      BY <1>2, <2>1, <2>2 DEF IInv, Counting
    <3> QED
      BY <1>1, <2>1, <3>1, <3>2
  <2>3. ASSUME NEW c \in Calls, full'[c]
        PROVE  pc'[c] \in {"add", "reply"} /\ (Cardinality(Against(req[c])) >= Max)'
    <3>1. full[c] /\ req'[c] = req[c] /\ pc'[c] = pc[c]
      BY <1>2, <2>3
    <3>2. pc[c] \in {"add", "reply"}
      BY <3>1 DEF IInv, Counting
    <3> QED
      BY <1>1, <3>1, <3>2, StillFull
  <2> QED
    BY <2>2, <2>3 DEF Counting
<1>10. BudgetKept'
  <2> SUFFICES ASSUME NEW q \in Processes, NEW t \in 0..MaxTime
               PROVE  Cardinality(Admitted(q, t)') <= Max
    BY DEF BudgetKept
  <2>1. CASE q # p
    BY <1>1, <1>4, <2>1, AdmittedShrinks DEF Limiters
  <2>2. CASE q = p /\ now >= t /\ now < t + Window
    <3>1. Admitted(p, t)' \subseteq Fresh(p) \union {new}
      <4> SUFFICES ASSUME NEW i \in counted[p], log'[i].at >= t
                   PROVE  i \in Fresh(p)
        BY <1>4 DEF Admitted
      <4>1. i \in Requests /\ log[i].at >= t /\ log[i].at \in Nat
        BY <1>1, <1>3, FreshVisits DEF LogKept, Entry
      <4>2. now - log[i].at < Window
        BY <4>1, <2>2, LimitAssumption DEF IInv, TypeOK
      <4> QED
        BY <4>2 DEF IInv, Remembered, Fresh
    <3>2. /\ IsFiniteSet(Fresh(p) \union {new})
          /\ Cardinality(Fresh(p) \union {new}) = Cardinality(Fresh(p)) + 1
      BY <1>1, FreshVisits, FS_AddElement
    <3>3. Cardinality(Admitted(p, t)') <= Cardinality(Fresh(p)) + 1
      BY <3>1, <3>2, FS_Subset
    <3>4. Cardinality(Admitted(p, t)') \in Nat
      BY <3>1, <3>2, FS_Subset, FS_CardinalityType
    <3> QED
      BY <1>2, <2>2, <3>3, <3>4, FreshVisits, LimitAssumption
  <2>3. CASE q = p /\ ~ (now >= t /\ now < t + Window)
    <3>1. Admitted(p, t)' \subseteq Admitted(p, t)
      BY <1>1, <1>3, <1>4, <2>3, FreshVisits DEF Admitted
    <3>2. Cardinality(Admitted(p, t)) <= Max
      BY DEF IInv, BudgetKept
    <3>3. Admitted(p, t) \subseteq 1..Len(log)
      BY <1>3, FreshVisits DEF Admitted, Requests
    <3>4. /\ Cardinality(Admitted(p, t)) \in Nat
          /\ Cardinality(Admitted(p, t)') \in Nat
          /\ Cardinality(Admitted(p, t)') <= Cardinality(Admitted(p, t))
      BY <3>1, <3>3, FreshVisits, Counted
    <3> QED
      BY <2>3, <3>2, <3>4, LimitAssumption
  <2> QED
    BY <2>1, <2>2, <2>3
<1>11. RefusedOverBudget'
  BY <1>1, RefusalsStand
<1> QED
  BY <1>5, <1>6, <1>7, <1>8, <1>9, <1>10, <1>11 DEF IInv

-------------------------------------------------------------------------------
(* Steps that forget visits *)

LEMMA Forgets ==
    ASSUME IInv, log' \in Seq(Entry), LogKept, Stamped', RefusedOverBudget',
           UNCHANGED <<now, viaRedis, pc, req, full>>,
           visits' \in [Limiters -> SUBSET Requests],
           counted' \in [Limiters -> SUBSET Requests],
           \A l \in Limiters : visits'[l] \subseteq visits[l] /\ counted'[l] \subseteq counted[l],
           \A p \in Processes : \A i \in counted'[p] :
                now - log[i].at < Window => i \in visits'[p]
    PROVE  IInv'
<1>1. Limiters' = Limiters /\ Redis \in Limiters /\ Requests \subseteq Requests'
  BY DEF Limiters, LogKept
<1>2. ASSUME NEW p \in Processes
      PROVE  p \in Limiters /\ p # Redis
  BY LimitAssumption DEF Limiters
<1>3. TypeOK'
  BY <1>1 DEF IInv, TypeOK
<1>4. Owned'
  <2>1. ASSUME NEW l \in Limiters, NEW i \in visits'[l] \union counted'[l]
        PROVE  log'[i].by = l
    BY DEF IInv, Owned, LogKept
  <2>2. ASSUME NEW c \in Calls, pc'[c] # "idle"
        PROVE  /\ req'[c] \in Requests' /\ log'[req'[c]].by = Redis
               /\ now' - log'[req'[c]].at <= Patience
    BY <2>2, StillYoung
  <2> QED
    BY <1>1, <2>1, <2>2 DEF Owned
<1>5. Remembered'
  <2> SUFFICES ASSUME NEW p \in Processes
               PROVE  /\ \A i \in counted'[p] : now - log'[i].at < Window => i \in visits'[p]
                      /\ \A i \in visits'[p] : log'[i].verdict = "admitted"
    BY DEF Remembered
  <2>1. p \in Limiters /\ p # Redis
    BY <1>2
  <2>2. ASSUME NEW i \in visits'[p] \union counted'[p]
        PROVE  log'[i] = log[i]
    BY <2>1 DEF IInv, Owned, LogKept
  <2>3. \A i \in visits[p] : log[i].verdict = "admitted"
    BY DEF IInv, Remembered
  <2> QED
    BY <2>1, <2>2, <2>3
<1>6. Counting'
  <2>1. ASSUME NEW c \in Calls, pc'[c] = "count", NEW j \in visits'[Redis]
        PROVE  log'[j].at > log'[req'[c]].at - Window
    <3>1. log'[req'[c]].at = log[req[c]].at
      BY <2>1, StillYoung
    <3>2. log[j].at > log[req[c]].at - Window
      BY <1>1, <2>1 DEF IInv, Counting
    <3>3. log'[j].at = log[j].at
      BY <1>1 DEF LogKept
    <3> QED
      BY <3>1, <3>2, <3>3
  <2>2. ASSUME NEW c \in Calls, full'[c]
        PROVE  pc'[c] \in {"add", "reply"} /\ (Cardinality(Against(req[c])) >= Max)'
    <3>1. full[c] /\ req'[c] = req[c] /\ pc'[c] = pc[c]
      BY <2>2
    <3>2. pc[c] \in {"add", "reply"}
      BY <3>1 DEF IInv, Counting
    <3> QED
      BY <3>1, <3>2, StillFull
  <2> QED
    BY <2>1, <2>2 DEF Counting
<1>7. BudgetKept'
  BY <1>2, BudgetsStand
<1> QED
  BY <1>3, <1>4, <1>5, <1>6, <1>7 DEF IInv

\* A process refuses when what it admitted in the window fills the budget.
LEMMA RefuseKeeps ==
    ASSUME IInv, NEW p \in Processes, Refuse(p)
    PROVE  IInv'
<1>0. PICK new \in Nat : new = Len(log) + 1
  BY FreshVisits
<1> DEFINE told == Header(Window - (now - log[Oldest(Fresh(p))].at))
<1>1. told \in Nat
  <2>1. Oldest(Fresh(p)) \in Requests
    BY FreshVisits, OldestType DEF IInv, Refuse
  <2>2. log[Oldest(Fresh(p))].at \in Nat
    <3>1. \A i \in Requests : log[i] \in Entry
      BY DEF IInv, TypeOK, Requests
    <3> QED
      BY <2>1, <3>1 DEF Entry
  <2>3. Window - (now - log[Oldest(Fresh(p))].at) \in Int
    BY <2>2, LimitAssumption DEF IInv, TypeOK
  <2> QED
    BY <2>3, HeaderType
<1> HIDE DEF told
<1>2. Enter(p, "refused", told)
  BY DEF Refuse, told
<1>3. /\ log' \in Seq(Entry) /\ LogKept
      /\ Requests' = Requests \union {new} /\ new \notin Requests
      /\ \A i \in Requests : log'[i] = log[i]
      /\ log'[new] = [at |-> now, by |-> p, verdict |-> "refused", told |-> told]
  BY <1>0, <1>1, <1>2, FreshVisits, Entered DEF IInv, Verdicts
<1>4. /\ visits' = [visits EXCEPT ![p] = Fresh(p)] /\ Cardinality(Fresh(p)) >= Max
      /\ UNCHANGED <<now, viaRedis, counted, pc, req, full>>
  BY DEF Refuse, pipeline
<1>5. Stamped'
  BY <1>3, <1>4 DEF IInv, TypeOK, Stamped
<1>6. Cardinality(Against(new)') >= Max
  <2>1. Fresh(p) \subseteq Against(new)'
    <3> SUFFICES ASSUME NEW i \in Fresh(p)
                 PROVE  i \in Against(new)'
      OBVIOUS
    <3>1. i \in Requests /\ log'[i] = log[i] /\ i < new
      BY <1>0, <1>3, FreshVisits DEF Requests
    <3>2. log[i].by = p /\ log[i].verdict = "admitted" /\ log[i].at \in Nat
      BY <3>1, FreshVisits, <1>3 DEF IInv, Owned, Remembered, LogKept, Entry
    <3>3. log[i].at > now - Window
      BY <3>2, LimitAssumption DEF Fresh, IInv, TypeOK
    <3> QED
      BY <1>3, <3>1, <3>2, <3>3, FreshVisits DEF Against
  <2>2. Len(log') \in Nat /\ Against(new)' \subseteq 1..Len(log')
    BY <1>3 DEF Against, Requests, LogKept
  <2>3. /\ Cardinality(Against(new)') \in Nat
        /\ Cardinality(Fresh(p)) <= Cardinality(Against(new)')
    BY <2>1, <2>2, Counted
  <2> QED
    BY <1>4, <2>3, FreshVisits, LimitAssumption
<1>7. RefusedOverBudget'
  <2>1. ASSUME NEW i \in Requests', log'[i].verdict = "refused"
        PROVE  \/ i \in Requests /\ log[i].verdict = "refused"
               \/ Cardinality(Against(i)') >= Max
    <3>1. CASE i = new
      BY <1>6, <3>1
    <3>2. CASE i \in Requests
      BY <1>3, <2>1, <3>2
    <3> QED
      BY <1>3, <3>1, <3>2
  <2> QED
    BY <1>3, <2>1, RefusalsStand
<1>8. /\ visits' \in [Limiters -> SUBSET Requests]
      /\ counted' \in [Limiters -> SUBSET Requests]
      /\ \A l \in Limiters : visits'[l] \subseteq visits[l] /\ counted'[l] \subseteq counted[l]
  BY <1>4, FreshVisits DEF IInv, TypeOK
<1>9. ASSUME NEW q \in Processes, NEW i \in counted'[q], now - log[i].at < Window
      PROVE  i \in visits'[q]
  BY <1>4, <1>9, FreshVisits DEF IInv, TypeOK, Remembered, Fresh
<1> QED
  BY <1>3, <1>4, <1>5, <1>7, <1>8, <1>9, Forgets

\* The clean-up, a restart, or an eviction.
LEMMA QuietlyForgets ==
    ASSUME IInv, log' = log, UNCHANGED <<now, viaRedis, pc, req, full>>,
           NEW l \in Limiters, NEW S \in SUBSET visits[l], NEW T \in SUBSET counted[l],
           visits' = [visits EXCEPT ![l] = S], counted' = [counted EXCEPT ![l] = T],
           \A i \in T : now - log[i].at < Window => i \in S \/ l = Redis
    PROVE  IInv'
<1>1. LogKept /\ Requests' = Requests /\ log' \in Seq(Entry)
  BY SameLog DEF IInv, TypeOK
<1>2. Stamped' /\ RefusedOverBudget'
  <2>1. Stamped'
    BY <1>1 DEF IInv, Stamped
  <2> QED
    BY <2>1, <1>1, RefusalsStand
<1>3. /\ visits \in [Limiters -> SUBSET Requests] /\ counted \in [Limiters -> SUBSET Requests]
  BY DEF IInv, TypeOK
<1>4. /\ visits'[l] = S /\ counted'[l] = T
      /\ \A k \in Limiters \ {l} : visits'[k] = visits[k] /\ counted'[k] = counted[k]
  BY <1>3
<1>5. /\ visits' \in [Limiters -> SUBSET Requests]
      /\ counted' \in [Limiters -> SUBSET Requests]
  BY <1>3
<1>6. \A k \in Limiters : visits'[k] \subseteq visits[k] /\ counted'[k] \subseteq counted[k]
  BY <1>4
<1>7. ASSUME NEW q \in Processes, NEW i \in counted'[q], now - log[i].at < Window
      PROVE  i \in visits'[q]
  <2>1. q \in Limiters /\ q # Redis
    BY LimitAssumption DEF Limiters
  <2>2. CASE q = l
    BY <1>4, <1>7, <2>1, <2>2
  <2>3. CASE q # l
    BY <1>4, <1>7, <2>1, <2>3 DEF IInv, Remembered
  <2> QED
    BY <2>2, <2>3
<1> QED
  BY <1>1, <1>2, <1>5, <1>6, <1>7, Forgets

LEMMA ForgettingKeeps ==
    ASSUME IInv,
           Evict \/ \E p \in Processes : Cleanup(p) \/ Restart(p)
    PROVE  IInv'
<1>1. CASE Evict
  BY <1>1, QuietlyForgets DEF Evict, Limiters, pipeline
<1>2. ASSUME NEW p \in Processes, Restart(p)
      PROVE  IInv'
  BY <1>2, QuietlyForgets DEF Restart, Limiters, pipeline
<1>3. ASSUME NEW p \in Processes, Cleanup(p)
      PROVE  IInv'
  <2>1. counted' = [counted EXCEPT ![p] = counted[p]]
    BY <1>3, FreshVisits DEF Cleanup, IInv, TypeOK
  <2>2. \A i \in counted[p] : now - log[i].at < Window => i \in Fresh(p)
    BY DEF IInv, Remembered, Fresh
  <2> QED
    BY <1>3, <2>1, <2>2, FreshVisits, QuietlyForgets DEF Cleanup, pipeline
<1> QED
  BY <1>1, <1>2, <1>3

-------------------------------------------------------------------------------
(* The limiter in Redis *)

\* It is nothing to the limiters of the processes.
LEMMA ProcessesStand ==
    ASSUME IInv, LogKept, now' = now,
           \A p \in Processes : visits'[p] = visits[p] /\ counted'[p] = counted[p]
    PROVE  Remembered' /\ BudgetKept'
<1>1. ASSUME NEW p \in Processes
      PROVE  /\ \A i \in counted'[p] : now' - log'[i].at < Window => i \in visits'[p]
             /\ \A i \in visits'[p] : log'[i].verdict = "admitted"
  <2>1. p \in Limiters /\ p # Redis
    BY LimitAssumption DEF Limiters
  <2>2. \A i \in visits[p] \union counted[p] : log'[i] = log[i]
    BY <2>1 DEF IInv, TypeOK, Owned, LogKept
  <2> QED
    BY <2>2 DEF IInv, Remembered
<1>2. Remembered'
  BY <1>1 DEF Remembered
<1> QED
  BY <1>2, BudgetsStand

LEMMA ArriveKeeps ==
    ASSUME IInv, NEW c \in Calls, Arrive(c)
    PROVE  IInv'
<1>0. PICK new \in Nat : new = Len(log) + 1
  BY DEF IInv, TypeOK
<1>1. /\ log' \in Seq(Entry) /\ LogKept
      /\ Requests' = Requests \union {new} /\ new \notin Requests
      /\ \A i \in Requests : log'[i] = log[i]
      /\ log'[new] = [at |-> now, by |-> Redis, verdict |-> "none", told |-> 0]
  BY <1>0, Entered DEF IInv, Arrive, Limiters, Verdicts
<1>2. /\ pc[c] = "idle"
      /\ pc' = [pc EXCEPT ![c] = "purge"] /\ req' = [req EXCEPT ![c] = new]
      /\ UNCHANGED <<now, viaRedis, visits, counted, full>>
  BY <1>0 DEF Arrive, Goto
<1>3. /\ visits \in [Limiters -> SUBSET Requests] /\ counted \in [Limiters -> SUBSET Requests]
      /\ pc \in [Calls -> {"idle", "purge", "count", "add", "reply"}]
      /\ req \in [Calls -> Nat] /\ Redis \in Limiters /\ Limiters' = Limiters
  BY DEF IInv, TypeOK, Limiters
<1>4. pc'[c] = "purge" /\ req'[c] = new
  BY <1>2, <1>3
<1>5. \A d \in Calls \ {c} : pc'[d] = pc[d] /\ req'[d] = req[d]
  BY <1>2, <1>3
<1>6. TypeOK'
  BY <1>1, <1>2, <1>3 DEF IInv, TypeOK
<1>7. Stamped'
  BY <1>1, <1>2 DEF IInv, TypeOK, Stamped
<1>8. Owned'
  <2>1. ASSUME NEW l \in Limiters, NEW i \in visits'[l] \union counted'[l]
        PROVE  log'[i].by = l
    BY <1>1, <1>2, <1>3 DEF IInv, Owned
  <2>2. ASSUME NEW d \in Calls, pc'[d] # "idle"
        PROVE  /\ req'[d] \in Requests' /\ log'[req'[d]].by = Redis
               /\ now' - log'[req'[d]].at <= Patience
    <3>1. CASE d = c
      BY <1>1, <1>2, <1>4, <3>1, LimitAssumption DEF IInv, TypeOK
    <3>2. CASE d # c
      BY <1>1, <1>2, <1>5, <2>2, <3>2, StillYoung
    <3> QED
      BY <3>1, <3>2
  <2> QED
    BY <2>1, <2>2, <1>3 DEF Owned
<1>9. Counting'
  <2>1. ASSUME NEW d \in Calls, pc'[d] = "count", NEW j \in visits'[Redis]
        PROVE  log'[j].at > log'[req'[d]].at - Window
    <3>1. d # c /\ pc[d] = "count" /\ req'[d] = req[d] /\ j \in visits[Redis]
      BY <1>2, <1>4, <1>5, <2>1
    <3>2. log'[req'[d]].at = log[req[d]].at
      BY <1>1, <1>2, <3>1, StillYoung
    <3>3. log[j].at > log[req[d]].at - Window
      BY <3>1 DEF IInv, Counting
    <3>4. log'[j].at = log[j].at
      BY <1>1, <1>3, <3>1
    <3> QED
      BY <3>2, <3>3, <3>4
  <2>2. ASSUME NEW d \in Calls, full'[d]
        PROVE  pc'[d] \in {"add", "reply"} /\ (Cardinality(Against(req[d])) >= Max)'
    <3>1. full[d] /\ pc[d] \in {"add", "reply"}
      BY <1>2, <2>2 DEF IInv, Counting
    <3>2. req'[d] = req[d] /\ pc'[d] = pc[d]
      BY <1>2, <1>5, <3>1
    <3> QED
      BY <1>1, <3>1, <3>2, StillFull
  <2> QED
    BY <2>1, <2>2 DEF Counting
<1>10. Remembered' /\ BudgetKept'
  BY <1>1, <1>2, ProcessesStand
<1>11. RefusedOverBudget'
  BY <1>1, RefusalsStand
<1> QED
  BY <1>6, <1>7, <1>8, <1>9, <1>10, <1>11 DEF IInv

\* The commands in between: the log stays, and the visits in Redis grow by a request of
\* the pipeline, if at all, or shrink.
LEMMA CommandKeeps ==
    ASSUME IInv, NEW c \in Calls, pc[c] # "idle",
           NEW step \in {"purge", "count", "add", "reply"}, pc' = [pc EXCEPT ![c] = step],
           NEW V \in SUBSET (visits[Redis] \union {req[c]}),
           NEW K \in SUBSET (counted[Redis] \union {req[c]}),
           visits' = [visits EXCEPT ![Redis] = V],
           counted' = [counted EXCEPT ![Redis] = K],
           NEW f \in BOOLEAN, full' = [full EXCEPT ![c] = f],
           f => step \in {"add", "reply"} /\ Cardinality(Against(req[c])) >= Max,
           step = "count" => \A j \in V : log[j].at > log[req[c]].at - Window,
           UNCHANGED <<now, viaRedis, log, req>>
    PROVE  IInv'
<1>1. LogKept /\ Requests' = Requests
  BY SameLog DEF IInv
<1>2. /\ visits \in [Limiters -> SUBSET Requests] /\ counted \in [Limiters -> SUBSET Requests]
      /\ pc \in [Calls -> {"idle", "purge", "count", "add", "reply"}]
      /\ full \in [Calls -> BOOLEAN] /\ Redis \in Limiters /\ Limiters' = Limiters
  BY DEF IInv, TypeOK, Limiters
<1>3. req[c] \in Requests /\ log[req[c]].by = Redis
  BY DEF IInv, Owned
<1>4. /\ pc'[c] = step /\ full'[c] = f /\ visits'[Redis] = V /\ counted'[Redis] = K
      /\ \A d \in Calls \ {c} : pc'[d] = pc[d] /\ full'[d] = full[d]
      /\ \A l \in Limiters \ {Redis} : visits'[l] = visits[l] /\ counted'[l] = counted[l]
  BY <1>2
<1>5. TypeOK'
  BY <1>1, <1>2, <1>3 DEF IInv, TypeOK
<1>6. Stamped'
  BY <1>1 DEF IInv, Stamped
<1>7. Owned'
  <2>1. ASSUME NEW l \in Limiters, NEW i \in visits'[l] \union counted'[l]
        PROVE  log'[i].by = l
    <3>1. CASE l = Redis
      BY <1>3, <1>4, <3>1 DEF IInv, Owned
    <3>2. CASE l # Redis
      BY <1>4, <3>2 DEF IInv, Owned
    <3> QED
      BY <3>1, <3>2
  <2>2. ASSUME NEW d \in Calls, pc'[d] # "idle"
        PROVE  /\ req'[d] \in Requests' /\ log'[req'[d]].by = Redis
               /\ now' - log'[req'[d]].at <= Patience
    BY <1>1, <1>4, <2>2, StillYoung
  <2> QED
    BY <2>1, <2>2, <1>2 DEF Owned
<1>8. Counting'
  <2>1. ASSUME NEW d \in Calls, pc'[d] = "count", NEW j \in visits'[Redis]
        PROVE  log'[j].at > log'[req'[d]].at - Window
    <3>1. CASE d = c
      BY <1>4, <2>1, <3>1
    <3>2. CASE d # c /\ j \in visits[Redis]
      BY <1>4, <2>1, <3>2 DEF IInv, Counting
    <3>3. CASE d # c /\ j = req[c]
      <4>1. pc[d] = "count" /\ req[d] \in Requests
        BY <1>4, <2>1, <3>3 DEF IInv, Owned
      <4>2. log[req[d]].at <= now /\ now - log[req[c]].at <= Patience
        BY <4>1 DEF IInv, Stamped, Owned
      <4>3. log[req[c]].at \in Nat /\ log[req[d]].at \in Nat /\ now \in Nat
        BY <1>1, <1>3, <4>1, LimitAssumption DEF IInv, TypeOK, LogKept, Entry
      <4> QED
        BY <3>3, <4>2, <4>3, LimitAssumption
    <3> QED
      BY <1>4, <3>1, <3>2, <3>3
  <2>2. ASSUME NEW d \in Calls, full'[d]
        PROVE  pc'[d] \in {"add", "reply"} /\ (Cardinality(Against(req[d])) >= Max)'
    <3>1. CASE d = c
      <4>1. PICK r \in Requests : r = req[c] /\ Cardinality(Against(r)) >= Max
        BY <1>3, <1>4, <2>2, <3>1
      <4>2. Cardinality(Against(r)') >= Max
        BY <1>1, <4>1, AgainstGrows, LimitAssumption
      <4>3. Against(r)' = Against(req[d])'
        BY <3>1, <4>1 DEF Against
      <4> QED
        BY <1>4, <2>2, <3>1, <4>2, <4>3
    <3>2. CASE d # c
      <4>1. full[d] /\ pc[d] \in {"add", "reply"} /\ pc'[d] = pc[d]
        BY <1>4, <2>2, <3>2 DEF IInv, Counting
      <4> QED
        BY <1>1, <4>1, StillFull
    <3> QED
      BY <3>1, <3>2
  <2> QED
    BY <2>1, <2>2 DEF Counting
<1>9. Remembered' /\ BudgetKept'
  <2>1. \A p \in Processes : p \in Limiters /\ p # Redis
    BY LimitAssumption DEF Limiters
  <2> QED
    BY <1>1, <1>4, <2>1, ProcessesStand
<1>10. RefusedOverBudget'
  BY <1>1, RefusalsStand
<1> QED
  BY <1>5, <1>6, <1>7, <1>8, <1>9, <1>10 DEF IInv

\* What ZCARD counts, ZREMRANGEBYSCORE has brought into the window.
LEMMA CommandsKeep ==
    ASSUME IInv, NEW c \in Calls,
           ZRemRangeByScore(c) \/ ZCard(c) \/ ZAdd(c) \/ Retry(c)
    PROVE  IInv'
<1>1. /\ visits = [visits EXCEPT ![Redis] = visits[Redis]]
      /\ counted = [counted EXCEPT ![Redis] = counted[Redis]]
      /\ full = [full EXCEPT ![c] = full[c]] /\ full[c] \in BOOLEAN
      /\ visits \in [Limiters -> SUBSET Requests]
      /\ Redis \in Limiters
  BY DEF IInv, TypeOK, Limiters
<1>2. full[c] => pc[c] \in {"add", "reply"} /\ Cardinality(Against(req[c])) >= Max
  BY DEF IInv, Counting
<1>3. CASE ZRemRangeByScore(c)
  <2>1. ~ full[c]
    BY <1>2, <1>3 DEF ZRemRangeByScore
  <2> DEFINE V == {i \in visits[Redis] : log[i].at > log[req[c]].at - Window}
  <2>2. /\ pc[c] = "purge" /\ pc' = [pc EXCEPT ![c] = "count"]
        /\ full' = [full EXCEPT ![c] = FALSE]
        /\ visits' = [visits EXCEPT ![Redis] = V]
        /\ counted' = [counted EXCEPT ![Redis] = counted[Redis]]
        /\ UNCHANGED <<now, viaRedis, log, req>>
    BY <1>1, <1>3, <2>1 DEF ZRemRangeByScore, Goto
  <2>3. V \in SUBSET (visits[Redis] \union {req[c]})
    OBVIOUS
  <2>4. \A j \in V : log[j].at > log[req[c]].at - Window
    OBVIOUS
  <2> HIDE DEF V
  <2> QED
    BY <2>2, <2>3, <2>4, CommandKeeps
<1>4. CASE ZCard(c)
  <2>1. visits[Redis] \subseteq Against(req[c])
    <3> SUFFICES ASSUME NEW j \in visits[Redis]
                 PROVE  j \in Against(req[c])
      OBVIOUS
    <3>1. pc[c] = "count" /\ log[req[c]].by = Redis
      BY <1>4 DEF ZCard, IInv, Owned
    <3>2. log[j].by = Redis /\ j \in Requests
      BY <1>1 DEF IInv, Owned
    <3>3. log[j].at > log[req[c]].at - Window
      BY <3>1 DEF IInv, Counting
    <3> QED
      BY <3>1, <3>2, <3>3 DEF Against
  <2>2. Len(log) \in Nat /\ Against(req[c]) \subseteq 1..Len(log)
    BY DEF IInv, TypeOK, Against, Requests
  <2>3. Cardinality(visits[Redis]) >= Max => Cardinality(Against(req[c])) >= Max
    <3>1. /\ Cardinality(visits[Redis]) \in Nat /\ Cardinality(Against(req[c])) \in Nat
          /\ Cardinality(visits[Redis]) <= Cardinality(Against(req[c]))
      BY <2>1, <2>2, Counted
    <3> QED
      BY <3>1, LimitAssumption
  <2> DEFINE f == Cardinality(visits[Redis]) >= Max
  <2>4. /\ pc[c] # "idle" /\ pc' = [pc EXCEPT ![c] = "add"] /\ full' = [full EXCEPT ![c] = f]
        /\ visits' = [visits EXCEPT ![Redis] = visits[Redis]]
        /\ counted' = [counted EXCEPT ![Redis] = counted[Redis]]
        /\ UNCHANGED <<now, viaRedis, log, req>>
    BY <1>1, <1>4 DEF ZCard, Goto
  <2>5. f \in BOOLEAN /\ (f => Cardinality(Against(req[c])) >= Max)
    BY <2>3
  <2> HIDE DEF f
  <2> QED
    BY <2>4, <2>5, CommandKeeps
<1>5. CASE ZAdd(c)
  <2> DEFINE K == counted[Redis] \union {i \in {req[c]} : ~full[c]}
             V == visits[Redis] \union {req[c]}
  <2>1. /\ pc[c] = "add" /\ pc' = [pc EXCEPT ![c] = "reply"]
        /\ full' = [full EXCEPT ![c] = full[c]]
        /\ visits' = [visits EXCEPT ![Redis] = V] /\ counted' = [counted EXCEPT ![Redis] = K]
        /\ UNCHANGED <<now, viaRedis, log, req>>
    BY <1>1, <1>5 DEF ZAdd, Goto
  <2>2. /\ V \in SUBSET (visits[Redis] \union {req[c]})
        /\ K \in SUBSET (counted[Redis] \union {req[c]})
    OBVIOUS
  <2> HIDE DEF V, K
  <2> QED
    BY <1>1, <1>2, <2>1, <2>2, CommandKeeps
<1>6. CASE Retry(c)
  BY <1>1, <1>6, CommandKeeps DEF Retry, Goto
<1> QED
  BY <1>3, <1>4, <1>5, <1>6

\* Whoever is refused was counted out.
LEMMA AnswerKeeps ==
    ASSUME IInv, NEW c \in Calls, Reply(c) \/ Fail(c)
    PROVE  IInv'
<1>1. PICK v \in {"admitted", "refused", "open"}, n \in Nat :
        Done(c, v, n) /\ (v = "refused" => full[c])
  <2>1. Header(Window) \in Nat
    BY HeaderType, LimitAssumption
  <2>2. CASE Fail(c)
    BY <2>2 DEF Fail
  <2>3. CASE Reply(c)
    BY <2>1, <2>3 DEF Reply
  <2> QED
    BY <2>2, <2>3
<1>2. pc[c] # "idle" /\ UNCHANGED <<now, viaRedis, visits, counted>>
  BY DEF Reply, Fail
<1>3. /\ log' \in Seq(Entry) /\ LogKept /\ Requests' = Requests
      /\ \A i \in Requests \ {req[c]} : log'[i] = log[i]
      /\ log'[req[c]].verdict = v
  BY <1>1, <1>2, Answered DEF Verdicts
<1>4. /\ pc' = [pc EXCEPT ![c] = "idle"] /\ req' = [req EXCEPT ![c] = 0]
      /\ full' = [full EXCEPT ![c] = FALSE]
  BY <1>1 DEF Done, Goto
<1>5. /\ visits \in [Limiters -> SUBSET Requests]
      /\ pc \in [Calls -> {"idle", "purge", "count", "add", "reply"}]
      /\ req \in [Calls -> Nat] /\ full \in [Calls -> BOOLEAN]
      /\ Redis \in Limiters /\ Limiters' = Limiters
  BY DEF IInv, TypeOK, Limiters
<1>6. /\ pc'[c] = "idle" /\ ~ full'[c]
      /\ \A d \in Calls \ {c} : pc'[d] = pc[d] /\ req'[d] = req[d] /\ full'[d] = full[d]
  BY <1>4, <1>5
<1>7. TypeOK'
  BY <1>2, <1>3, <1>4, <1>5 DEF IInv, TypeOK
<1>8. Stamped'
  BY <1>2, <1>3 DEF IInv, Stamped, LogKept
<1>9. Owned'
  <2>1. ASSUME NEW l \in Limiters, NEW i \in visits'[l] \union counted'[l]
        PROVE  log'[i].by = l
    BY <1>2, <1>3 DEF IInv, TypeOK, Owned, LogKept
  <2>2. ASSUME NEW d \in Calls, pc'[d] # "idle"
        PROVE  /\ req'[d] \in Requests' /\ log'[req'[d]].by = Redis
               /\ now' - log'[req'[d]].at <= Patience
    BY <1>2, <1>3, <1>6, <2>2, StillYoung
  <2> QED
    BY <2>1, <2>2, <1>5 DEF Owned
<1>10. Counting'
  <2>1. ASSUME NEW d \in Calls, pc'[d] = "count", NEW j \in visits'[Redis]
        PROVE  log'[j].at > log'[req'[d]].at - Window
    <3>1. pc[d] = "count" /\ req'[d] = req[d] /\ j \in visits[Redis] /\ j \in Requests
      BY <1>2, <1>5, <1>6, <2>1
    <3>2. log'[req'[d]].at = log[req[d]].at
      BY <1>2, <1>3, <3>1, StillYoung
    <3>3. log'[j].at = log[j].at
      BY <1>3, <3>1 DEF LogKept
    <3> QED
      BY <3>1, <3>2, <3>3 DEF IInv, Counting
  <2>2. ASSUME NEW d \in Calls, full'[d]
        PROVE  pc'[d] \in {"add", "reply"} /\ (Cardinality(Against(req[d])) >= Max)'
    <3>1. full[d] /\ pc[d] \in {"add", "reply"} /\ pc'[d] = pc[d] /\ req'[d] = req[d]
      BY <1>6, <2>2 DEF IInv, Counting
    <3> QED
      BY <1>3, <3>1, StillFull
  <2> QED
    BY <2>1, <2>2 DEF Counting
<1>11. Remembered' /\ BudgetKept'
  BY <1>2, <1>3, ProcessesStand
<1>12. RefusedOverBudget'
  <2>1. ASSUME NEW i \in Requests', log'[i].verdict = "refused"
        PROVE  \/ i \in Requests /\ log[i].verdict = "refused"
               \/ Cardinality(Against(i)') >= Max
    <3>1. CASE i = req[c]
      <4>1. Cardinality(Against(i)) >= Max
        BY <1>1, <1>3, <2>1, <3>1 DEF IInv, Counting
      <4> QED
        BY <1>3, <4>1, AgainstGrows, LimitAssumption
    <3>2. CASE i # req[c]
      BY <1>3, <2>1, <3>2
    <3> QED
      BY <3>1, <3>2
  <2> QED
    BY <1>3, <2>1, RefusalsStand
<1> QED
  BY <1>7, <1>8, <1>9, <1>10, <1>11, <1>12 DEF IInv

\* Time passes, and nothing comes back into a window.
LEMMA TickKeeps ==
    ASSUME IInv, Tick
    PROVE  IInv'
<1>1. LogKept /\ Requests' = Requests /\ now \in Nat /\ now' = now + 1
  BY SameLog, LimitAssumption DEF IInv, TypeOK, Tick
<1>2. /\ UNCHANGED <<viaRedis, log, visits, counted, pc, req, full>> /\ now < MaxTime
      /\ \A c \in Calls : pc[c] # "idle" => now - log[req[c]].at < Patience
  BY DEF Tick, pipeline
<1>3. \A i \in Requests : log[i].at \in Nat
  BY <1>1 DEF LogKept, Entry
<1>4. TypeOK'
  BY <1>1, <1>2, LimitAssumption DEF IInv, TypeOK, Limiters
<1>5. Stamped'
  BY <1>1, <1>2, <1>3 DEF IInv, Stamped
<1>6. Owned'
  BY <1>1, <1>2, <1>3, LimitAssumption DEF IInv, Owned, Limiters
<1>7. Remembered'
  <2>1. ASSUME NEW p \in Processes, NEW i \in counted[p], now + 1 - log[i].at < Window
        PROVE  i \in visits[p]
    <3>1. i \in Requests
      BY DEF IInv, TypeOK, Limiters
    <3>2. now - log[i].at < Window
      BY <1>1, <1>3, <2>1, <3>1, LimitAssumption
    <3> QED
      BY <3>2 DEF IInv, Remembered
  <2> QED
    <3>1. \A p \in Processes : \A i \in visits[p] : log[i].verdict = "admitted"
      BY DEF IInv, Remembered
    <3>2. log' = log /\ visits' = visits /\ counted' = counted
      BY <1>2
    <3>3. ASSUME NEW p \in Processes, NEW i \in counted'[p], now' - log'[i].at < Window
          PROVE  i \in visits'[p]
      <4>1. log[i].at \in Nat
        BY <1>3, <3>2 DEF IInv, TypeOK, Limiters
      <4>2. now + 1 - log[i].at < Window
        BY <1>1, <3>2, <3>3, <4>1
      <4> QED
        BY <2>1, <3>2, <4>2
    <3> QED
      BY <3>1, <3>2, <3>3 DEF Remembered
<1>8. Counting'
  <2>1. ASSUME NEW c \in Calls, full[c]
        PROVE  pc'[c] \in {"add", "reply"} /\ (Cardinality(Against(req[c])) >= Max)'
    BY <1>1, <1>2, <2>1, StillFull DEF IInv, Counting
  <2> QED
    BY <1>2, <2>1 DEF IInv, Counting
<1>9. BudgetKept' /\ RefusedOverBudget'
  BY <1>1, <1>2, BudgetsStand, RefusalsStand
<1> QED
  BY <1>4, <1>5, <1>6, <1>7, <1>8, <1>9 DEF IInv

-------------------------------------------------------------------------------
(* Theorems *)

LEMMA Initially ==
    ASSUME Init
    PROVE  IInv
<1>1. /\ now = 0 /\ viaRedis \subseteq Processes /\ log = <<>>
      /\ visits = [l \in Limiters |-> {}] /\ counted = [l \in Limiters |-> {}]
      /\ pc = [c \in Calls |-> "idle"] /\ req = [c \in Calls |-> 0]
      /\ full = [c \in Calls |-> FALSE]
  BY DEF Init
<1>2. log \in Seq(Entry) /\ Len(log) = 0 /\ Requests = {}
  BY <1>1 DEF Requests
<1>3. TypeOK
  BY <1>1, <1>2, LimitAssumption DEF TypeOK
<1>4. Stamped /\ RefusedOverBudget
  BY <1>2 DEF Stamped, RefusedOverBudget
<1>5. Owned /\ Remembered /\ Counting
  BY <1>1 DEF Owned, Remembered, Counting, Limiters
<1>6. BudgetKept
  <2>1. \A p \in Processes, t \in 0..MaxTime : Admitted(p, t) = {}
    BY <1>1 DEF Admitted, Limiters
  <2> QED
    BY <2>1, FS_EmptySet, LimitAssumption DEF BudgetKept
<1> QED
  BY <1>3, <1>4, <1>5, <1>6 DEF IInv

LEMMA Idles ==
    ASSUME IInv, UNCHANGED vars
    PROVE  IInv'
<1>1. LogKept /\ Requests' = Requests
  BY SameLog DEF IInv, vars
<1>2. Redis \in Limiters
  BY DEF Limiters
<1>3. visits = [visits EXCEPT ![Redis] = visits[Redis]]
  BY <1>2 DEF IInv, TypeOK
<1>4. counted = [counted EXCEPT ![Redis] = counted[Redis]]
  BY <1>2 DEF IInv, TypeOK
<1> QED
  BY <1>2, <1>3, <1>4, QuietlyForgets DEF vars, pipeline

\* The strengthening: a limiter of a process remembers what it admitted and is still in
\* the window, and a pipeline that found the budget used was right about it.
THEOREM Invariance == Spec => []IInv
<1>1. Init => IInv
  BY Initially
<1>2. IInv /\ [Next]_vars => IInv'
  BY AllowKeeps, RefuseKeeps, ForgettingKeeps, ArriveKeeps, CommandsKeep, AnswerKeeps,
     TickKeeps, Idles DEF Next
<1> QED
  BY <1>1, <1>2, PTL DEF Spec

\* Type correctness: a Retry-After is never negative.
THEOREM TypeCorrect == Spec => []TypeOK
<1>1. IInv => TypeOK
  BY DEF IInv
<1> QED
  BY <1>1, Invariance, PTL

\* The limiter of a process admits no more than the budget in any window, wherever it
\* begins and whenever the clean-up runs.
THEOREM BudgetIsKept == Spec => []BudgetKept
<1>1. IInv => BudgetKept
  BY DEF IInv
<1> QED
  BY <1>1, Invariance, PTL

\* A request is refused only when the budget was used in the window before it.
THEOREM NobodyRefusedEarly == Spec => []RefusedOverBudget
<1>1. IInv => RefusedOverBudget
  BY DEF IInv
<1> QED
  BY <1>1, Invariance, PTL
===============================================================================
