-------------------------- MODULE OneTimeCodesProofs --------------------------
(***************************************************************************)
(* What OneTimeCodes implies, for any people, and so what VoterAuth and    *)
(* AdminAccess inherit: whoever holds a code, as the live one, as one that *)
(* was found right or as one that let somebody in, is the person it was    *)
(* issued to.                                                              *)
(***************************************************************************)
EXTENDS OneTimeCodes, TLAPS

CodesTypeOK ==
    /\ live \in [People -> Nat]
    /\ issued \in Nat
    /\ checked \subseteq People \X (Nat \ {0})
    /\ granted \subseteq People \X (Nat \ {0})

Holds(p, c) == live[p] = c \/ <<p, c>> \in checked \/ <<p, c>> \in granted

\* No code is held before it is issued, nor by two.
IssuedFirst == \A p \in People, c \in Nat \ {0} : Holds(p, c) => c <= issued

HeldByOne ==
    \A p, q \in People, c \in Nat \ {0} : Holds(p, c) /\ Holds(q, c) => p = q

IInv == CodesTypeOK /\ IssuedFirst /\ HeldByOne /\ UsedOnce

LEMMA TypeKept ==
    ASSUME CodesTypeOK, [Next]_vars
    PROVE  CodesTypeOK'
<1> USE DEF CodesTypeOK
<1>1. ASSUME NEW p \in People, Issue(p)
      PROVE  CodesTypeOK'
  BY <1>1 DEF Issue
<1>2. ASSUME NEW p \in People, Check(p)
      PROVE  CodesTypeOK'
  <2>1. <<p, live[p]>> \in People \X (Nat \ {0})
    BY <1>2 DEF Check
  <2> QED
    BY <1>2, <2>1 DEF Check
<1>3. ASSUME NEW p \in People, NEW c \in 1..issued, Grant(p, c)
      PROVE  CodesTypeOK'
  <2>1. <<p, c>> \in checked /\ checked' \subseteq checked
    BY <1>3 DEF Grant
  <2> QED
    BY <1>3, <2>1 DEF Grant
<1>4. ASSUME NEW p \in People, NEW c \in 1..issued, GiveUp(p, c)
      PROVE  CodesTypeOK'
  BY <1>4 DEF GiveUp
<1>5. ASSUME NEW S \in SUBSET People, Withdraw(S)
      PROVE  CodesTypeOK'
  BY <1>5 DEF Withdraw
<1>6. CASE UNCHANGED vars
  BY <1>6 DEF vars
<1> QED
  BY <1>1, <1>2, <1>3, <1>4, <1>5, <1>6 DEF Next

\* Only Issue gives anybody a code, and that one is new.
NobodyGains == \A p \in People, c \in Nat \ {0} : Holds(p, c)' => Holds(p, c)

OneGains(r) == \A p \in People, c \in Nat \ {0} :
                    Holds(p, c)' => Holds(p, c) \/ (p = r /\ c = issued + 1)

LEMMA Holders ==
    ASSUME CodesTypeOK, [Next]_vars
    PROVE  \/ issued' = issued /\ NobodyGains
           \/ issued' = issued + 1 /\ \E r \in People : OneGains(r)
<1> USE DEF CodesTypeOK
<1>1. ASSUME NEW r \in People, Issue(r)
      PROVE  issued' = issued + 1 /\ OneGains(r)
  BY <1>1 DEF Issue, OneGains, Holds
<1>2. ASSUME NEW p \in People, Check(p)
      PROVE  issued' = issued /\ NobodyGains
  BY <1>2 DEF Check, NobodyGains, Holds
<1>3. ASSUME NEW p \in People, NEW c \in 1..issued, Grant(p, c)
      PROVE  issued' = issued /\ NobodyGains
  <2>1. checked' \subseteq checked /\ \A q \in People : live'[q] \in {0, live[q]}
    BY <1>3 DEF Grant
  <2>2. <<p, c>> \in checked /\ granted' = granted \union {<<p, c>>}
    BY <1>3 DEF Grant
  <2>3. issued' = issued
    BY <1>3 DEF Grant
  <2> QED
    BY <2>1, <2>2, <2>3 DEF NobodyGains, Holds
<1>4. ASSUME NEW p \in People, NEW c \in 1..issued, GiveUp(p, c)
      PROVE  issued' = issued /\ NobodyGains
  BY <1>4 DEF GiveUp, NobodyGains, Holds
<1>5. ASSUME NEW S \in SUBSET People, Withdraw(S)
      PROVE  issued' = issued /\ NobodyGains
  BY <1>5 DEF Withdraw, NobodyGains, Holds
<1>6. CASE UNCHANGED vars
  BY <1>6 DEF vars, NobodyGains, Holds
<1> QED
  BY <1>1, <1>2, <1>3, <1>4, <1>5, <1>6 DEF Next

LEMMA OwnersKept ==
    ASSUME IInv, [Next]_vars
    PROVE  IssuedFirst' /\ HeldByOne'
<1>1. issued \in Nat /\ CodesTypeOK
  BY DEF IInv, CodesTypeOK
<1>2. CASE issued' = issued /\ NobodyGains
  BY <1>2 DEF IInv, IssuedFirst, HeldByOne, NobodyGains
<1>3. ASSUME issued' = issued + 1,
             NEW r \in People, OneGains(r)
      PROVE  IssuedFirst' /\ HeldByOne'
  <2>1. \A p \in People : ~ Holds(p, issued + 1)
    BY <1>1 DEF IInv, IssuedFirst
  <2>2. IssuedFirst'
    BY <1>1, <1>3 DEF IInv, IssuedFirst, OneGains
  <2>3. HeldByOne'
    BY <1>1, <1>3, <2>1 DEF IInv, HeldByOne, OneGains
  <2> QED
    BY <2>2, <2>3
<1> QED
  BY <1>1, <1>2, <1>3, Holders

LEMMA UsedOnceKept ==
    ASSUME IInv, [Next]_vars
    PROVE  UsedOnce'
<1>1. /\ live \in [People -> Nat] /\ issued \in Nat
      /\ granted \subseteq People \X (Nat \ {0})
  BY DEF IInv, CodesTypeOK
<1>2. ASSUME NEW r \in People, Issue(r)
      PROVE  UsedOnce'
  <2>1. \A g \in granted : g[2] <= issued /\ g[2] \in Nat
    BY <1>1 DEF IInv, IssuedFirst, Holds
  <2> QED
    BY <1>1, <1>2, <2>1 DEF Issue, IInv, UsedOnce
<1>3. ASSUME NEW p \in People, NEW c \in 1..issued, Grant(p, c)
      PROVE  UsedOnce'
  <2>1. c \in Nat \ {0} /\ Holds(p, c)
    BY <1>1, <1>3 DEF Grant, Holds
  <2>2. \A q \in People : q # p => live[q] # c
    BY <2>1 DEF IInv, HeldByOne, Holds
  <2>3. \A q \in People : live'[q] = IF q = p THEN 0 ELSE live[q]
    BY <1>1, <1>3 DEF Grant
  <2>4. granted' = granted \union {<<p, c>>}
    BY <1>3 DEF Grant
  <2>5. \A g \in granted : g[2] # 0
    BY <1>1
  <2> QED
    BY <2>1, <2>2, <2>3, <2>4, <2>5 DEF IInv, UsedOnce
<1>4. ASSUME NEW S \in SUBSET People, Withdraw(S)
      PROVE  UsedOnce'
  <2>1. \A g \in granted : g[2] # 0
    BY <1>1
  <2>2. granted' = granted /\ \A q \in People : live'[q] \in {0, live[q]}
    BY <1>1, <1>4 DEF Withdraw
  <2> QED
    BY <2>1, <2>2 DEF IInv, UsedOnce
<1>5. CASE UNCHANGED <<live, granted>>
  BY <1>5 DEF IInv, UsedOnce
<1> QED
  BY <1>2, <1>3, <1>4, <1>5 DEF Next, Check, GiveUp, vars

\* Of any people, a code belongs to one.
THEOREM Invariance == Spec => []IInv
<1>1. Init => IInv
  BY DEF Init, IInv, CodesTypeOK, IssuedFirst, HeldByOne, UsedOnce, Holds
<1>2. IInv /\ [Next]_vars => IInv'
  BY TypeKept, OwnersKept, UsedOnceKept DEF IInv
<1> QED
  BY <1>1, <1>2, PTL DEF Spec

\* A code lets in no more than one person, and is nobody's live code afterwards.
THEOREM CodesAreSound == Spec => [](UsedOnce /\ OneOwner)
<1>1. IInv => UsedOnce /\ OneOwner
  <2> SUFFICES ASSUME IInv
               PROVE  OneOwner
    BY DEF IInv
  <2>1. \A g \in granted : /\ g[1] \in People /\ g[2] \in Nat \ {0}
                           /\ g = <<g[1], g[2]>>
    BY DEF IInv, CodesTypeOK
  <2>2. \A g \in granted : Holds(g[1], g[2])
    BY <2>1 DEF Holds
  <2> QED
    BY <2>1, <2>2 DEF IInv, HeldByOne, OneOwner
<1> QED
  BY <1>1, Invariance, PTL
===============================================================================
