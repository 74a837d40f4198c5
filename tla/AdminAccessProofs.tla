-------------------------- MODULE AdminAccessProofs ---------------------------
(***************************************************************************)
(* Theorems about AdminAccess, for any accounts, processes and calls.  A   *)
(* call writes what it has read a while ago, so the invariant speaks of    *)
(* the calls in flight as well as of the table: no version or code on its  *)
(* way to a browser is ahead of its row, and whatever a call is about to   *)
(* write, the super administrator is there.                                *)
(***************************************************************************)
EXTENDS AdminAccess, TLAPS

\* Past a SELECT that found the row.
OfRow == {"issue", "spend", "reread", "revoke"}

RowsExist ==
    /\ \A c \in Calls : pc[c] \in OfRow => Exists(work[c].user)
    /\ \A t \in tokens : Exists(t.user)

\* Codes are numbered from 1, in the table, in the hands of a login and among those
\* spent.
CodesIssued ==
    /\ \A u \in Accounts : Exists(u) => admins[u].code <= issued
    /\ \A c \in Calls : pc[c] = "spend" => work[c].code \in 1..issued
    /\ \A u \in Accounts : spent[u] \subseteq 1..issued

\* No code that is spent is in the table.
SpentCodeGone ==
    \A u \in Accounts : Exists(u) => admins[u].code \notin spent[u]

\* No session is ahead of its account, so raising the version ends it.
TokensBehind ==
    /\ \A t \in tokens : t.version <= admins[t.user].version
    /\ \A c \in Calls :
            pc[c] = "spend" => work[c].version <= admins[work[c].user].version

OneSuper ==
    /\ \A u \in Accounts : Exists(u) => Exists(Super)
    /\ \A u \in Accounts : Exists(u) => (admins[u].super <=> u = Super)
    /\ \A p \in Processes : proc[p] = "serving" => Exists(Super)
    /\ \A c \in Calls : pc[c] = "save" => Exists(Super)

IInv ==
    /\ TypeOK
    /\ RowsExist
    /\ CodesIssued
    /\ TokensBehind
    /\ OneSuper
    /\ SpentCodeGone

-------------------------------------------------------------------------------
(* What the table goes through *)

\* A row is a record of its fields.
LEMMA RowType ==
    ASSUME TypeOK, NEW u \in Accounts, Exists(u)
    PROVE  /\ admins[u] \in AdminRow
           /\ admins[u].code \in Nat
           /\ admins[u].version \in Nat
<1> QED
  BY DEF TypeOK, Exists, AdminRow

\* No statement removes a row or lowers a version.
Grows == \A u \in Accounts : Exists(u) =>
            Exists(u)' /\ admins'[u].version >= admins[u].version

LEMMA Unchanged ==
    ASSUME TypeOK, admins' = admins
    PROVE  Grows
<1>1. ASSUME NEW u \in Accounts, Exists(u)
      PROVE  Exists(u)' /\ admins'[u].version >= admins[u].version
  BY <1>1, RowType DEF Exists
<1> QED
  BY <1>1 DEF Grows

\* Every step leaves the rows in place and their versions at least as high.
LEMMA VersionsGrow ==
    ASSUME IInv, [Next]_vars
    PROVE  Grows
<1> USE AdminAssumption
<1>1. ASSUME NEW p \in Processes, InsertFirst(p)
      PROVE  Grows
  <2>1. CASE ~Exists(Super)
    BY <1>1, <2>1 DEF IInv, OneSuper, InsertFirst, Grows
  <2>2. CASE Exists(Super)
    BY <1>1, <2>2, Unchanged DEF IInv, InsertFirst
  <2> QED
    BY <2>1, <2>2
<1>2. ASSUME NEW c \in Calls, NEW w \in Accounts, Exists(w), NEW row \in AdminRow,
             row.version >= admins[w].version, admins' = [admins EXCEPT ![w] = row]
      PROVE  Grows
  BY <1>2, RowType DEF Grows, Exists, IInv, TypeOK
<1>3. ASSUME NEW c \in Calls, Step(c)
      PROVE  Grows
  <2> DEFINE w == work[c].user
             row == admins[w]
  <2>0. w \in Accounts /\ work[c].enabled \in BOOLEAN
    BY DEF IInv, TypeOK, Work
  <2>1. CASE IssueCode(c)
    <3>1. Exists(w)
      BY <2>1 DEF IssueCode, IInv, RowsExist, OfRow
    <3>2. issued + 1 \in Nat
      BY DEF IInv, TypeOK
    <3> DEFINE new == [row EXCEPT !.code = issued + 1, !.version = @ + 1]
    <3>3. new \in AdminRow /\ new.version >= row.version
      <4>1. row \in AdminRow /\ row.version \in Nat
        BY <2>0, <3>1, RowType DEF IInv
      <4> DEFINE coded == [row EXCEPT !.code = issued + 1]
      <4>2. coded \in AdminRow /\ coded.version = row.version
        BY <3>2, <4>1 DEF AdminRow
      <4>3. new = [coded EXCEPT !.version = @ + 1]
        OBVIOUS
      <4> HIDE DEF new, coded
      <4> QED
        BY <4>1, <4>2, <4>3 DEF AdminRow
    <3>4. admins' = [admins EXCEPT ![w] = new]
      BY <2>0, <2>1, <3>1 DEF IssueCode, IInv, TypeOK
    <3> QED
      BY <1>2, <2>0, <3>1, <3>3, <3>4
  <2>2. CASE SpendCode(c)
    <3>1. Exists(w)
      BY <2>2 DEF SpendCode, IInv, RowsExist, OfRow
    <3> DEFINE new == [row EXCEPT !.code = 0]
    <3>2. new \in AdminRow /\ new.version >= row.version
      BY <2>0, <3>1, RowType DEF IInv, AdminRow
    <3>3. admins' = [admins EXCEPT ![w] = new]
      BY <2>0, <2>2 DEF SpendCode, IInv, TypeOK
    <3> QED
      BY <1>2, <2>0, <3>1, <3>2, <3>3
  <2>3. CASE RaiseVersion(c)
    <3>1. CASE Exists(w)
      <4> DEFINE new == [row EXCEPT !.version = @ + 1]
      <4>1. new \in AdminRow /\ new.version >= row.version
        BY <2>0, <3>1, RowType DEF IInv, AdminRow
      <4>2. admins' = [admins EXCEPT ![w] = new]
        BY <2>0, <2>3, <3>1 DEF RaiseVersion, IInv, TypeOK
      <4> QED
        BY <1>2, <2>0, <3>1, <4>1, <4>2
    <3>2. CASE ~Exists(w)
      BY <2>3, <3>2, Unchanged DEF RaiseVersion, IInv
    <3> QED
      BY <3>1, <3>2
  <2>4. CASE RereadVersion(c)
    BY <2>4, Unchanged DEF RereadVersion, IInv
  <2>5. CASE Revoke(c)
    <3>1. Exists(w)
      BY <2>5 DEF Revoke, IInv, RowsExist, OfRow
    <3> DEFINE new == [row EXCEPT !.version = @ + 1]
    <3>2. new \in AdminRow /\ new.version >= row.version
      BY <2>0, <3>1, RowType DEF IInv, AdminRow
    <3>3. admins' = [admins EXCEPT ![w] = new]
      BY <2>0, <2>5 DEF Revoke, IInv, TypeOK
    <3> QED
      BY <1>2, <2>0, <3>1, <3>2, <3>3
  <2>6. CASE SaveAdmin(c)
    <3> DEFINE new == Saved(row, work[c].enabled)
    <3>1. new \in AdminRow
      BY <2>0, RowType DEF Saved, Exists, AdminRow, IInv
    <3>2. admins' = [admins EXCEPT ![w] = new]
      BY <2>6 DEF SaveAdmin
    <3>3. Exists(w) => new.version >= row.version
      BY <2>0, RowType DEF Saved, Exists, AdminRow, IInv
    <3>4. CASE Exists(w)
      BY <1>2, <2>0, <3>1, <3>2, <3>3, <3>4
    <3>5. CASE ~Exists(w)
      <4>1. ASSUME NEW u \in Accounts, Exists(u)
            PROVE  admins'[u] = admins[u]
        BY <2>0, <3>2, <3>5, <4>1 DEF Exists, IInv, TypeOK
      <4> QED
        BY <4>1, RowType DEF Grows, Exists, IInv
    <3> QED
      BY <3>4, <3>5
  <2> QED
    BY <1>3, <2>1, <2>2, <2>3, <2>4, <2>5, <2>6 DEF Step
<1>4. CASE \E p \in Processes : Start(p) \/ Stop(p)
  BY <1>1, <1>4, Unchanged DEF Start, CountAdmins, Stop, IInv
<1>5. CASE \E c \in Calls : Begin(c) \/ Step(c) \/ Abandon(c)
  BY <1>3, <1>5, Unchanged
  DEF Begin, RequestCode, Login, ChangePassword, Logout, ManageAdmins, Abandon, IInv
<1>6. CASE UNCHANGED vars
  BY <1>6, Unchanged DEF vars, IInv
<1> QED
  BY <1>4, <1>5, <1>6 DEF Next

-------------------------------------------------------------------------------
(* The invariant *)

\* A call that moves on or ends leaves the others alone.
LEMMA Others ==
    ASSUME TypeOK, NEW c \in Calls, NEW step, NEW w, Goto(c, step, w)
    PROVE  /\ pc'[c] = step /\ work'[c] = w
           /\ \A d \in Calls \ {c} : pc'[d] = pc[d] /\ work'[d] = work[d]
  BY DEF Goto, TypeOK

LEMMA TypePreserved ==
    ASSUME IInv, [Next]_vars
    PROVE  TypeOK'
<1> USE AdminAssumption DEF TypeOK, IInv
<1>0. NoWork \in Work
  BY DEF NoWork, Work
<1>1. CASE \E p \in Processes : Start(p) \/ Stop(p)
  <2>1. FirstAdmin \in AdminRow
    BY DEF FirstAdmin, AdminRow
  <2> QED
    BY <1>1, <2>1 DEF Start, Stop, CountAdmins, InsertFirst, call, Up
<1>2. ASSUME NEW c \in Calls, Begin(c)
      PROVE  TypeOK'
  <2>1. CASE RequestCode(c)
    BY <2>1, <1>0 DEF RequestCode, Goto, Steps, Work
  <2>2. CASE Login(c)
    <3>1. PICK u \in Accounts :
              /\ Enabled(u)
              /\ Goto(c, "spend", [user |-> u, code |-> admins[u].code,
                                   version |-> admins[u].version, enabled |-> FALSE])
      BY <2>2 DEF Login
    <3>2. admins[u].code \in Nat /\ admins[u].version \in Nat
      BY <3>1, RowType DEF Enabled
    <3> QED
      BY <2>2, <3>1, <3>2 DEF Login, Goto, Steps, Work
  <2>3. CASE ChangePassword(c)
    BY <2>3, <1>0 DEF ChangePassword, Goto, Steps, Work
  <2>4. CASE Logout(c)
    BY <2>4, <1>0 DEF Logout, Goto, Steps, Work, Token
  <2>5. CASE ManageAdmins(c)
    <3>1. PICK u \in Accounts, e \in BOOLEAN :
              Goto(c, "save", [NoWork EXCEPT !.user = u, !.enabled = e])
      BY <2>5 DEF ManageAdmins
    <3>2. [NoWork EXCEPT !.user = u, !.enabled = e] \in Work
      BY DEF NoWork, Work
    <3> QED
      BY <2>5, <3>1, <3>2 DEF ManageAdmins, Goto, Steps
  <2> QED
    BY <1>2, <2>1, <2>2, <2>3, <2>4, <2>5 DEF Begin
<1>3. ASSUME NEW c \in Calls, Step(c)
      PROVE  TypeOK'
  <2> DEFINE w == work[c].user
  <2>0. w \in Accounts /\ work[c] \in Work
    BY DEF Work
  <2>1. CASE IssueCode(c)
    <3>1. Exists(w) /\ admins[w] \in AdminRow
      BY <2>0, <2>1, RowType DEF IssueCode, RowsExist, OfRow
    <3>2. issued' \in 0..MaxCodes
      BY <2>1 DEF IssueCode
    <3>3. admins' \in [Accounts -> AdminRow \union {NoRow}]
      BY <2>0, <2>1, <3>1, <3>2 DEF IssueCode, AdminRow
    <3> QED
      BY <1>0, <2>1, <3>2, <3>3 DEF IssueCode, Finish, Goto, Steps
  <2>2. CASE SpendCode(c)
    <3>1. Exists(w) /\ admins[w] \in AdminRow
      BY <2>0, <2>2, RowType DEF SpendCode, RowsExist, OfRow
    <3>2. admins' \in [Accounts -> AdminRow \union {NoRow}]
      BY <2>0, <2>2, <3>1 DEF SpendCode, AdminRow
    <3>3. spent' \in [Accounts -> SUBSET Nat]
      BY <2>0, <2>2 DEF SpendCode, Work
    <3>4. tokens' \subseteq Token
      BY <2>0, <2>2 DEF SpendCode, GiveToken, Token, Work
    <3> QED
      BY <1>0, <2>2, <3>2, <3>3, <3>4 DEF SpendCode, Finish, Goto, Steps
  <2>3. CASE RaiseVersion(c)
    <3>1. ASSUME Exists(w)
          PROVE  [admins[w] EXCEPT !.version = @ + 1] \in AdminRow
      BY <2>0, <3>1, RowType DEF AdminRow
    <3>2. admins' \in [Accounts -> AdminRow \union {NoRow}]
      BY <2>0, <2>3, <3>1 DEF RaiseVersion
    <3> QED
      BY <1>0, <2>0, <2>3, <3>2 DEF RaiseVersion, Finish, Goto, Steps
  <2>4. CASE RereadVersion(c)
    <3>1. Exists(w) /\ admins[w].version \in Nat
      BY <2>0, <2>4, RowType DEF RereadVersion, RowsExist, OfRow
    <3>2. tokens' \subseteq Token
      BY <2>0, <2>4, <3>1 DEF RereadVersion, GiveToken, Token
    <3> QED
      BY <1>0, <2>4, <3>2 DEF RereadVersion, Finish, Goto, Steps
  <2>5. CASE Revoke(c)
    <3>1. Exists(w) /\ admins[w] \in AdminRow
      BY <2>0, <2>5, RowType DEF Revoke, RowsExist, OfRow
    <3>2. admins' \in [Accounts -> AdminRow \union {NoRow}]
      BY <2>0, <2>5, <3>1 DEF Revoke, AdminRow
    <3> QED
      BY <1>0, <2>5, <3>2 DEF Revoke, Finish, Goto, Steps
  <2>6. CASE SaveAdmin(c)
    <3>1. Saved(admins[w], work[c].enabled) \in AdminRow
      BY <2>0, RowType DEF Saved, Exists, AdminRow, Work
    <3>2. admins' \in [Accounts -> AdminRow \union {NoRow}]
      BY <2>0, <2>6, <3>1 DEF SaveAdmin
    <3> QED
      BY <1>0, <2>6, <3>2 DEF SaveAdmin, Finish, Goto, Steps
  <2> QED
    BY <1>3, <2>1, <2>2, <2>3, <2>4, <2>5, <2>6 DEF Step
<1>4. ASSUME NEW c \in Calls, Abandon(c)
      PROVE  TypeOK'
  BY <1>0, <1>4 DEF Abandon, Finish, Goto, Steps
<1>5. CASE UNCHANGED vars
  BY <1>5 DEF vars, call
<1> QED
  BY <1>1, <1>2, <1>3, <1>4, <1>5 DEF Next
\* The rows that calls and tokens are about stay.
LEMMA RowsPreserved ==
    ASSUME IInv, [Next]_vars
    PROVE  RowsExist'
<1> USE AdminAssumption DEF IInv, RowsExist
<1>0. Grows
  BY VersionsGrow
<1>1. CASE \E p \in Processes : Start(p) \/ Stop(p)
  <2>1. UNCHANGED <<call, tokens>>
    BY <1>1 DEF Start, Stop, CountAdmins, InsertFirst
  <2>2. \A c \in Calls : work[c].user \in Accounts
    BY DEF TypeOK, Work
  <2>3. \A t \in tokens : t.user \in Accounts
    BY DEF TypeOK, Token
  <2> QED
    BY <1>0, <2>1, <2>2, <2>3 DEF call, Grows
<1>2. ASSUME NEW c \in Calls, Begin(c) \/ Step(c) \/ Abandon(c)
      PROVE  RowsExist'
  <2>0. work[c].user \in Accounts
    BY DEF TypeOK, Work
  <2>1. \A d \in Calls \ {c} : pc'[d] = pc[d] /\ work'[d] = work[d]
    BY <1>2 DEF Begin, Step, Abandon, RequestCode, Login, ChangePassword, Logout,
        ManageAdmins, IssueCode, SpendCode, RaiseVersion, RereadVersion, Revoke,
        SaveAdmin, Finish, Goto, TypeOK
  <2>2. pc'[c] \in OfRow => work'[c].user \in Accounts /\ Exists(work'[c].user)
    <3>1. CASE Begin(c)
      <4>1. ASSUME NEW u \in Accounts, NEW step, Enabled(u),
                   Goto(c, step, [NoWork EXCEPT !.user = u])
            PROVE  work'[c].user = u
        BY <4>1 DEF Goto, NoWork, TypeOK
      <4>2. CASE RequestCode(c)
        BY <4>1, <4>2 DEF RequestCode, Enabled
      <4>3. CASE Login(c)
        <5>1. PICK u \in Accounts :
                  /\ Enabled(u)
                  /\ Goto(c, "spend", [user |-> u, code |-> admins[u].code,
                                       version |-> admins[u].version,
                                       enabled |-> FALSE])
          BY <4>3 DEF Login
        <5> QED
          BY <5>1 DEF Goto, Enabled, TypeOK
      <4>4. CASE Logout(c)
        BY <4>1, <4>4 DEF Logout, Authenticated, Enabled, TypeOK, Token
      <4>5. CASE ChangePassword(c) \/ ManageAdmins(c)
        BY <4>5 DEF ChangePassword, ManageAdmins, Goto, OfRow, TypeOK
      <4> QED
        BY <3>1, <4>2, <4>3, <4>4, <4>5 DEF Begin
    <3>2. CASE Step(c) \/ Abandon(c)
      BY <2>0, <3>2 DEF Step, Abandon, IssueCode, SpendCode, RaiseVersion,
          RereadVersion, Revoke, SaveAdmin, Finish, Goto, OfRow, TypeOK
    <3> QED
      BY <1>2, <3>1, <3>2
  <2>3. \A t \in tokens' : t.user \in Accounts /\ Exists(t.user)
    <3>1. CASE SpendCode(c) \/ RereadVersion(c)
      BY <2>0, <3>1 DEF SpendCode, RereadVersion, GiveToken, OfRow, TypeOK, Token
    <3>2. CASE ~SpendCode(c) /\ ~RereadVersion(c)
      <4>1. tokens' = tokens
        BY <1>2, <3>2 DEF Begin, Step, Abandon, RequestCode, Login, ChangePassword,
            Logout, ManageAdmins, IssueCode, RaiseVersion, Revoke, SaveAdmin
      <4> QED
        BY <4>1 DEF TypeOK, Token
    <3> QED
      BY <3>1, <3>2
  <2>4. \A d \in Calls \ {c} : work[d].user \in Accounts
    BY DEF TypeOK, Work
  <2>5. \A u \in Accounts : Exists(u) => Exists(u)'
    BY <1>0 DEF Grows
  <2>6. \A d \in Calls : pc'[d] \in OfRow => Exists(work[d].user)'
    BY <2>1, <2>2, <2>4, <2>5 DEF Exists
  <2>7. \A t \in tokens' : Exists(t.user)'
    BY <2>3, <2>5 DEF Exists
  <2> QED
    BY <2>6, <2>7 DEF Exists
<1>3. CASE UNCHANGED vars
  BY <1>3 DEF vars, call, Exists
<1> QED
  BY <1>1, <1>2, <1>3 DEF Next

\* Codes are issued in order, and one that is spent is not issued again.
LEMMA CodesPreserved ==
    ASSUME IInv, [Next]_vars
    PROVE  CodesIssued' /\ SpentCodeGone'
<1> USE AdminAssumption DEF IInv, CodesIssued, SpentCodeGone
<1>0. issued \in Nat /\ \A c \in Calls : work[c].user \in Accounts
  BY DEF TypeOK, Work
<1>1. CASE \E p \in Processes : Start(p) \/ Stop(p)
  <2>1. UNCHANGED <<call, issued, spent>>
    BY <1>1 DEF Start, Stop, CountAdmins, InsertFirst
  <2>2. \A u \in Accounts :
            \/ admins'[u] = admins[u]
            \/ admins'[u] # NoRow /\ admins'[u].code = 0
    <3>1. FirstAdmin \in AdminRow /\ FirstAdmin.code = 0
      BY DEF FirstAdmin, AdminRow
    <3>2. admins' = admins \/ admins' = [admins EXCEPT ![Super] = FirstAdmin]
      BY <1>1 DEF Start, Stop, CountAdmins, InsertFirst
    <3>3. admins' \in [Accounts -> AdminRow \union {NoRow}]
      BY <3>1, <3>2 DEF TypeOK
    <3>4. CASE admins' = [admins EXCEPT ![Super] = FirstAdmin]
      <4>1. admins'[Super] = FirstAdmin
        BY <3>4 DEF TypeOK
      <4>2. \A u \in Accounts \ {Super} : admins'[u] = admins[u]
        BY <3>4 DEF TypeOK
      <4> QED
        BY <3>1, <4>1, <4>2
    <3> QED
      BY <3>2, <3>4
  <2> QED
    BY <1>0, <2>1, <2>2 DEF call, Exists
<1>2. ASSUME NEW c \in Calls, Begin(c)
      PROVE  CodesIssued' /\ SpentCodeGone'
  <2>1. UNCHANGED <<admins, issued, spent>>
    BY <1>2 DEF Begin, RequestCode, Login, ChangePassword, Logout, ManageAdmins
  <2>2. \A d \in Calls \ {c} : pc'[d] = pc[d] /\ work'[d] = work[d]
    BY <1>2 DEF Begin, RequestCode, Login, ChangePassword, Logout, ManageAdmins, Goto,
        TypeOK
  <2>3. pc'[c] = "spend" => work'[c].code \in 1..issued
    <3>1. CASE Login(c)
      <4>1. PICK u \in Accounts :
                /\ Enabled(u) /\ admins[u].code # 0
                /\ Goto(c, "spend", [user |-> u, code |-> admins[u].code,
                                     version |-> admins[u].version, enabled |-> FALSE])
        BY <3>1 DEF Login
      <4>2. admins[u].code \in Nat /\ admins[u].code <= issued
        BY <4>1, RowType DEF Enabled
      <4> QED
        BY <1>0, <4>1, <4>2 DEF Goto, TypeOK
    <3>2. CASE ~Login(c)
      BY <1>2, <3>2 DEF Begin, RequestCode, ChangePassword, Logout, ManageAdmins, Goto,
          TypeOK
    <3> QED
      BY <3>1, <3>2
  <2> QED
    BY <2>1, <2>2, <2>3 DEF Exists
<1>3. ASSUME NEW c \in Calls, Step(c) \/ Abandon(c)
      PROVE  CodesIssued' /\ SpentCodeGone'
  <2> DEFINE w == work[c].user
  <2>1. \A d \in Calls : pc'[d] = "spend" => pc[d] = "spend" /\ work'[d] = work[d]
    BY <1>3 DEF Step, Abandon, IssueCode, SpendCode, RaiseVersion, RereadVersion,
        Revoke, SaveAdmin, Finish, Goto, TypeOK
  <2>2. issued' \in Nat /\ issued <= issued'
    BY <1>0, <1>3 DEF Step, Abandon, IssueCode, SpendCode, RaiseVersion, RereadVersion,
        Revoke, SaveAdmin
  <2>3. CASE IssueCode(c)
    <3>1. Exists(w) /\ admins[w] \in AdminRow
      BY <1>0, <2>3, RowType DEF IssueCode, RowsExist, OfRow
    <3>2. \A u \in Accounts \ {w} : admins'[u] = admins[u]
      BY <2>3 DEF IssueCode, TypeOK
    <3>3. admins'[w].code = issued + 1 /\ issued' = issued + 1
      BY <1>0, <2>3, <3>1 DEF IssueCode, TypeOK, AdminRow
    <3>4. \A u \in Accounts : spent'[u] = spent[u] /\ issued + 1 \notin spent[u]
      BY <1>0, <2>3 DEF IssueCode
    <3> QED
      BY <1>0, <2>1, <3>2, <3>3, <3>4, RowType DEF Exists
  <2>4. CASE SpendCode(c)
    <3>1. Exists(w) /\ admins[w] \in AdminRow
      BY <1>0, <2>4, RowType DEF SpendCode, RowsExist, OfRow
    <3>2. \A u \in Accounts \ {w} : admins'[u] = admins[u] /\ spent'[u] = spent[u]
      BY <2>4 DEF SpendCode, TypeOK
    <3>3. admins'[w].code = 0 /\ spent'[w] = spent[w] \union {work[c].code}
      BY <1>0, <2>4, <3>1 DEF SpendCode, TypeOK, AdminRow
    <3>4. work[c].code \in 1..issued /\ issued' = issued
      BY <2>4 DEF SpendCode
    <3> QED
      BY <1>0, <2>1, <3>2, <3>3, <3>4 DEF Exists
  <2>5. CASE ~IssueCode(c) /\ ~SpendCode(c)
    <3>1. UNCHANGED <<issued, spent>>
      BY <1>3, <2>5 DEF Step, Abandon, RaiseVersion, RereadVersion, Revoke, SaveAdmin
    <3>2. ASSUME NEW u \in Accounts, admins'[u] # NoRow
          PROVE  \/ Exists(u) /\ admins'[u].code = admins[u].code
                 \/ admins'[u].code = 0
      <4>1. CASE RaiseVersion(c) \/ Revoke(c)
        <5>1. ASSUME Exists(w)
              PROVE  [admins[w] EXCEPT !.version = @ + 1].code = admins[w].code
          BY <1>0, <5>1, RowType DEF AdminRow
        <5>2. CASE u = w
          BY <1>0, <4>1, <5>1, <5>2, <3>2
          DEF RaiseVersion, Revoke, TypeOK, Exists, RowsExist, OfRow
        <5>3. CASE u # w
          BY <4>1, <5>3, <3>2 DEF RaiseVersion, Revoke, TypeOK, Exists
        <5> QED
          BY <5>2, <5>3
      <4>2. CASE SaveAdmin(c)
        <5>1. ASSUME Exists(w)
              PROVE  [admins[w] EXCEPT !.enabled = work[c].enabled].code
                        = admins[w].code
          BY <1>0, <5>1, RowType DEF AdminRow
        <5> QED
          BY <1>0, <4>2, <5>1, <3>2 DEF SaveAdmin, Saved, TypeOK, Exists
      <4>3. CASE RereadVersion(c) \/ Abandon(c)
        BY <4>3, <3>2 DEF RereadVersion, Abandon, Exists
      <4> QED
        BY <1>3, <2>5, <4>1, <4>2, <4>3 DEF Step
    <3> QED
      BY <1>0, <2>1, <3>1, <3>2 DEF Exists
  <2> QED
    BY <2>3, <2>4, <2>5
<1>4. CASE UNCHANGED vars
  BY <1>4 DEF vars, call, Exists
<1> QED
  BY <1>1, <1>2, <1>3, <1>4 DEF Next
\* A token is made from a version that was read, and versions only rise.
LEMMA TokensPreserved ==
    ASSUME IInv, [Next]_vars
    PROVE  TokensBehind'
<1> USE AdminAssumption DEF IInv, TokensBehind
<1>0. Grows /\ RowsExist' /\ TypeOK'
  BY VersionsGrow, RowsPreserved, TypePreserved
<1>a. /\ \A c \in Calls : work[c].user \in Accounts /\ work[c].version \in Nat
      /\ \A t \in tokens : t.user \in Accounts /\ t.version \in Nat
  BY DEF TypeOK, Work, Token
<1>b. \A u \in Accounts : Exists(u) =>
            /\ admins[u].version \in Nat /\ admins'[u].version \in Nat
            /\ admins[u].version <= admins'[u].version
  <2>1. ASSUME NEW u \in Accounts, Exists(u)
        PROVE  admins'[u].version \in Nat /\ admins[u].version \in Nat
    BY <1>0, <2>1, RowType DEF Grows, Exists, TypeOK, AdminRow
  <2> QED
    BY <1>0, <2>1 DEF Grows
<1>1. ASSUME NEW t \in tokens
      PROVE  t.version <= admins'[t.user].version
  BY <1>1, <1>a, <1>b DEF RowsExist
<1>2. ASSUME NEW c \in Calls, pc[c] = "spend"
      PROVE  work[c].version <= admins'[work[c].user].version
  BY <1>2, <1>a, <1>b DEF RowsExist, OfRow
<1>3. ASSUME NEW c \in Calls, Begin(c)
      PROVE  TokensBehind'
  <2>1. tokens' = tokens /\ admins' = admins
    BY <1>3 DEF Begin, RequestCode, Login, ChangePassword, Logout, ManageAdmins
  <2>2. \A d \in Calls \ {c} : pc'[d] = pc[d] /\ work'[d] = work[d]
    BY <1>3 DEF Begin, RequestCode, Login, ChangePassword, Logout, ManageAdmins, Goto,
        TypeOK
  <2>3. pc'[c] = "spend" => work'[c].version <= admins[work'[c].user].version
    <3>1. CASE Login(c)
      <4>1. PICK u \in Accounts :
                /\ Enabled(u)
                /\ Goto(c, "spend", [user |-> u, code |-> admins[u].code,
                                     version |-> admins[u].version, enabled |-> FALSE])
        BY <3>1 DEF Login
      <4>2. admins[u].version \in Nat
        BY <4>1, RowType DEF Enabled
      <4> QED
        BY <4>1, <4>2 DEF Goto, TypeOK
    <3>2. CASE ~Login(c)
      BY <1>3, <3>2 DEF Begin, RequestCode, ChangePassword, Logout, ManageAdmins, Goto,
          TypeOK
    <3> QED
      BY <3>1, <3>2
  <2> QED
    BY <2>1, <2>2, <2>3, <1>1, <1>2
<1>4. ASSUME NEW c \in Calls, Step(c) \/ Abandon(c)
      PROVE  TokensBehind'
  <2>1. \A d \in Calls : pc'[d] = "spend" => pc[d] = "spend" /\ work'[d] = work[d]
    BY <1>4 DEF Step, Abandon, IssueCode, SpendCode, RaiseVersion, RereadVersion,
        Revoke, SaveAdmin, Finish, Goto, TypeOK
  <2>2. ASSUME NEW t \in tokens', t \notin tokens
        PROVE  t.version <= admins'[t.user].version
    <3>1. CASE SpendCode(c)
      <4>1. t = [user |-> work[c].user, version |-> work[c].version] /\ pc[c] = "spend"
        BY <2>2, <3>1 DEF SpendCode, GiveToken
      <4> QED
        BY <4>1, <1>2
    <3>2. CASE RereadVersion(c)
      <4>1. PICK v \in {0, admins[work[c].user].version} :
                t = [user |-> work[c].user, version |-> v]
        BY <2>2, <3>2 DEF RereadVersion, GiveToken
      <4>2. Exists(work[c].user) /\ admins' = admins
        BY <3>2 DEF RereadVersion, RowsExist, OfRow
      <4> QED
        BY <4>1, <4>2, <1>a, <1>b
    <3>3. CASE ~SpendCode(c) /\ ~RereadVersion(c)
      BY <1>4, <2>2, <3>3 DEF Step, Abandon, IssueCode, RaiseVersion, Revoke, SaveAdmin
    <3> QED
      BY <3>1, <3>2, <3>3
  <2> QED
    BY <1>1, <1>2, <2>1, <2>2
<1>5. CASE \E p \in Processes : Start(p) \/ Stop(p)
  <2>1. UNCHANGED <<call, tokens>>
    BY <1>5 DEF Start, Stop, CountAdmins, InsertFirst
  <2> QED
    BY <1>1, <1>2, <2>1 DEF call
<1>6. CASE UNCHANGED vars
  BY <1>6 DEF vars, call
<1> QED
  BY <1>3, <1>4, <1>5, <1>6 DEF Next

\* Nobody but the bootstrap makes a super administrator, and nothing unmakes it.
LEMMA SuperPreserved ==
    ASSUME IInv, [Next]_vars
    PROVE  OneSuper'
<1> USE AdminAssumption DEF IInv, OneSuper
<1>0. Grows /\ TypeOK'
  BY VersionsGrow, TypePreserved
<1>1. ASSUME NEW p \in Processes, Start(p) \/ Stop(p)
      PROVE  OneSuper'
  <2>1. \/ admins' = admins
        \/ ~Exists(Super) /\ admins' = [admins EXCEPT ![Super] = FirstAdmin]
    <3>1. CASE InsertFirst(p)
      BY <3>1 DEF InsertFirst
    <3>2. CASE CountAdmins(p) \/ Stop(p)
      BY <3>2 DEF CountAdmins, Stop
    <3> QED
      BY <1>1, <3>1, <3>2 DEF Start
  <2>2. FirstAdmin # NoRow /\ FirstAdmin.super
    <3>1. FirstAdmin \in AdminRow
      BY DEF FirstAdmin, AdminRow
    <3> QED
      BY <3>1 DEF FirstAdmin
  <2>3. pc' = pc
    BY <1>1 DEF Start, Stop, CountAdmins, InsertFirst, call
  <2>4. \A q \in Processes : proc'[q] = "serving" =>
            proc[q] = "serving" \/ (\E u \in Accounts : Exists(u)) \/ admins' # admins
    BY <1>1, <2>2 DEF Start, Stop, CountAdmins, InsertFirst, TypeOK, Exists
  <2>5. CASE admins' = admins
    BY <2>3, <2>4, <2>5 DEF Exists
  <2>6. CASE ~Exists(Super) /\ admins' = [admins EXCEPT ![Super] = FirstAdmin]
    <3>1. admins'[Super] = FirstAdmin
      BY <2>6 DEF TypeOK
    <3>2. \A u \in Accounts \ {Super} : ~Exists(u) /\ admins'[u] = admins[u]
      BY <2>6 DEF TypeOK
    <3> QED
      BY <2>2, <2>3, <3>1, <3>2 DEF Exists
  <2> QED
    BY <2>1, <2>5, <2>6
<1>2. ASSUME NEW c \in Calls, Begin(c)
      PROVE  OneSuper'
  <2>1. UNCHANGED <<admins, proc>>
    BY <1>2 DEF Begin, RequestCode, Login, ChangePassword, Logout, ManageAdmins
  <2>2. \A d \in Calls \ {c} : pc'[d] = pc[d]
    BY <1>2 DEF Begin, RequestCode, Login, ChangePassword, Logout, ManageAdmins, Goto,
        TypeOK
  <2>3. pc'[c] = "save" => Exists(Super)
    <3>1. CASE ManageAdmins(c)
      <4>1. PICK t \in tokens : Authenticated(t)
        BY <3>1 DEF ManageAdmins
      <4>2. t.user \in Accounts /\ Exists(t.user)
        BY <4>1 DEF Authenticated, Enabled, TypeOK, Token
      <4> QED
        BY <4>2
    <3>2. CASE ~ManageAdmins(c)
      BY <1>2, <3>2 DEF Begin, RequestCode, Login, ChangePassword, Logout, Goto, TypeOK
    <3> QED
      BY <3>1, <3>2
  <2> QED
    BY <2>1, <2>2, <2>3 DEF Exists
<1>3. ASSUME NEW c \in Calls, Step(c) \/ Abandon(c)
      PROVE  OneSuper'
  <2> DEFINE w == work[c].user
  <2>0. w \in Accounts
    BY DEF TypeOK, Work
  <2>1. proc' = proc /\ \A d \in Calls : pc'[d] = "save" => pc[d] = "save"
    BY <1>3 DEF Step, Abandon, IssueCode, SpendCode, RaiseVersion, RereadVersion,
        Revoke, SaveAdmin, Finish, Goto, TypeOK
  <2>2. ASSUME NEW u \in Accounts, Exists(u)
        PROVE  Exists(u)' /\ admins'[u].super = admins[u].super
    <3>1. admins[u] \in AdminRow
      BY <2>2, RowType
    <3>2. /\ \A n \in Nat : [admins[u] EXCEPT !.version = n].super = admins[u].super
          /\ \A n \in Nat : [admins[u] EXCEPT !.code = n].super = admins[u].super
          /\ \A e : [admins[u] EXCEPT !.enabled = e].super = admins[u].super
      BY <3>1 DEF AdminRow
    <3>3. issued + 1 \in Nat /\ admins[u].version + 1 \in Nat
      BY <3>1 DEF AdminRow, TypeOK
    <3>4. CASE IssueCode(c)
      <4>1. [admins[u] EXCEPT !.code = issued + 1, !.version = @ + 1].super
                = admins[u].super
        BY <3>1, <3>3 DEF AdminRow
      <4> QED
        BY <1>0, <2>0, <2>2, <3>4, <4>1 DEF IssueCode, Grows, TypeOK
    <3>5. CASE SpendCode(c) \/ RaiseVersion(c) \/ Revoke(c)
      <4>1. admins'[u] = admins[u] \/ u = w
        BY <2>0, <3>5 DEF SpendCode, RaiseVersion, Revoke, TypeOK
      <4>2. ASSUME u = w, SpendCode(c)
            PROVE  admins'[u] = [admins[u] EXCEPT !.code = 0]
        BY <2>0, <4>2 DEF SpendCode, TypeOK
      <4>3. ASSUME u = w, RaiseVersion(c) \/ Revoke(c)
            PROVE  admins'[u] = [admins[u] EXCEPT !.version = @ + 1]
        BY <2>0, <2>2, <4>3 DEF RaiseVersion, Revoke, TypeOK
      <4> QED
        BY <1>0, <2>2, <3>2, <3>3, <3>5, <4>1, <4>2, <4>3 DEF Grows
    <3>6. CASE SaveAdmin(c)
      BY <1>0, <2>0, <2>2, <3>2, <3>6 DEF SaveAdmin, Saved, Grows, TypeOK, Exists
    <3>7. CASE RereadVersion(c) \/ Abandon(c)
      BY <2>2, <3>7 DEF RereadVersion, Abandon, Exists
    <3> QED
      BY <1>3, <3>4, <3>5, <3>6, <3>7 DEF Step
  <2>3. ASSUME NEW u \in Accounts, ~Exists(u), Exists(u)'
        PROVE  Exists(Super) /\ u # Super /\ ~admins'[u].super
    <3>1. CASE SaveAdmin(c)
      <4>1. Exists(Super) /\ u # Super
        BY <2>3, <3>1 DEF SaveAdmin
      <4>2. u = w
        BY <2>0, <2>3, <3>1 DEF SaveAdmin, Exists, TypeOK
      <4> QED
        BY <2>3, <3>1, <4>1, <4>2 DEF SaveAdmin, Saved, Exists, TypeOK
    <3>2. CASE ~SaveAdmin(c)
      BY <1>3, <2>0, <2>3, <3>2 DEF Step, Abandon, IssueCode, SpendCode, RaiseVersion,
          RereadVersion, Revoke, RowsExist, OfRow, Exists, TypeOK
    <3> QED
      BY <3>1, <3>2
  <2> QED
    BY <2>1, <2>2, <2>3
<1>4. CASE UNCHANGED vars
  BY <1>4 DEF vars, call, Exists
<1> QED
  BY <1>1, <1>2, <1>3, <1>4 DEF Next

-------------------------------------------------------------------------------
(* Theorems *)

LEMMA Initially == Init => IInv
<1> SUFFICES ASSUME Init
             PROVE  IInv
  OBVIOUS
<1>1. NoWork \in Work
  BY AdminAssumption DEF NoWork, Work
<1>2. \A u \in Accounts : ~Exists(u)
  BY DEF Init, Exists
<1>3. TypeOK
  BY <1>1, AdminAssumption DEF Init, TypeOK, Steps
<1> QED
  BY <1>2, <1>3
  DEF Init, IInv, RowsExist, CodesIssued, TokensBehind, OneSuper, SpentCodeGone, OfRow

\* What the invariant says of the table, the calls and the tokens holds in every state.
THEOREM Invariance == Spec => []IInv
<1>1. IInv /\ [Next]_vars => IInv'
  BY TypePreserved, RowsPreserved, CodesPreserved, TokensPreserved, SuperPreserved
  DEF IInv
<1> QED
  BY <1>1, Initially, PTL DEF Spec

\* Every reachable state of AdminAccess is well typed.
THEOREM TypeCorrect == Spec => []TypeOK
BY Invariance, PTL DEF IInv

\* However many processes start at once and whatever is saved, there is exactly one
\* super administrator once a process serves with one.
THEOREM OneSuperAdmin == Spec => []SuperStays
<1>1. IInv => SuperStays
  BY AdminAssumption DEF IInv, OneSuper, SuperStays
<1> QED
  BY <1>1, Invariance, PTL

\* A token that a raised version has revoked stays revoked.
THEOREM RevocationLasts == Spec => RevokedForGood
<1>1. ASSUME IInv, [Next]_vars, NEW t \in tokens,
             Outdated(t) \/ admins'[t.user].version # admins[t.user].version
      PROVE  Outdated(t)'
  <2>1. t.user \in Accounts /\ t.version \in Nat /\ Exists(t.user)
    BY <1>1 DEF IInv, TypeOK, Token, RowsExist
  <2>2. Exists(t.user)' /\ admins'[t.user].version >= admins[t.user].version
    BY <1>1, <2>1, VersionsGrow DEF Grows
  <2>3. admins[t.user].version \in Nat /\ t.version <= admins[t.user].version
    BY <1>1, <2>1, RowType DEF IInv, TokensBehind
  <2>4. admins'[t.user].version \in Nat
    BY <1>1, <2>1, <2>2, TypePreserved DEF TypeOK, Exists, AdminRow
  <2> QED
    BY <1>1, <2>1, <2>2, <2>3, <2>4 DEF Outdated, Exists
<1>2. IInv /\ [Next]_vars =>
        [\A t \in tokens :
            Outdated(t) \/ admins'[t.user].version # admins[t.user].version
                => Outdated(t)']_vars
  BY <1>1
<1> QED
  BY <1>2, Invariance, PTL DEF Spec, RevokedForGood

-------------------------------------------------------------------------------
(* AdminAccess implements OneTimeCodes *)

\* What a code that is held amounts to.
LEMMA PairIssued ==
    ASSUME IInv, NEW c \in Calls, pc[c] = "spend"
    PROVE  /\ work[c].user \in Accounts /\ Exists(work[c].user)
           /\ work[c].code \in 1..issued
           /\ Pair(c) \in Accounts \X (1..MaxCodes)
<1>1. work[c].user \in Accounts /\ Exists(work[c].user)
  BY DEF IInv, TypeOK, Work, RowsExist, OfRow
<1>2. work[c].code \in 1..issued /\ issued \in 0..MaxCodes
  BY DEF IInv, TypeOK, CodesIssued
<1>3. work[c].code \in 1..MaxCodes
  BY <1>2, AdminAssumption
<1> QED
  BY <1>1, <1>2, <1>3 DEF Pair

\* A row that is new or changes in its other fields alone holds the same code.
LEMMA SameCodes ==
    ASSUME TypeOK, NEW u \in Accounts, NEW row \in AdminRow,
           admins' = [admins EXCEPT ![u] = row],
           row.code = IF Exists(u) THEN admins[u].code ELSE 0
    PROVE  Live' = Live
<1>1. row # NoRow
  BY AdminAssumption
<1>2. \A v \in Accounts : admins'[v] = IF v = u THEN row ELSE admins[v]
  BY DEF TypeOK
<1> QED
  BY <1>1, <1>2 DEF Live, Exists

\* A call that is not being granted, before or after, neither holds a code nor spends it.
LEMMA NotHeld ==
    ASSUME NEW c \in Calls, pc[c] # "spend", pc'[c] # "spend",
           \A d \in Calls \ {c} : pc'[d] = pc[d] /\ work'[d] = work[d]
    PROVE  Checked' = Checked
<1>1. \A d \in Calls : /\ pc'[d] = "spend" <=> pc[d] = "spend"
                       /\ pc[d] = "spend" => Pair(d)' = Pair(d)
  BY DEF Pair
<1> QED
  BY <1>1 DEF Checked

\* One that stops holding its code gives it up, unless another login holds the same.
LEMMA HeldNoMore ==
    ASSUME NEW c \in Calls, pc[c] = "spend", pc'[c] # "spend",
           \A d \in Calls \ {c} : pc'[d] = pc[d] /\ work'[d] = work[d]
    PROVE  Checked' \in {Checked, Checked \ {Pair(c)}} /\ Pair(c) \in Checked
<1>1. \A d \in Calls \ {c} : Pair(d)' = Pair(d) /\ pc'[d] = pc[d]
  BY DEF Pair
<1>2. Checked' \subseteq Checked /\ Checked \ {Pair(c)} \subseteq Checked'
  BY <1>1 DEF Checked
<1>3. Pair(c) \in Checked
  BY DEF Checked
<1> QED
  BY <1>2, <1>3

\* Each step of AdminAccess is a step of OneTimeCodes or changes nothing of it.
LEMMA OneTimeStep ==
    ASSUME IInv, [Next]_vars
    PROVE  [OneTime!Next]_OneTime!vars
<1>0. TypeOK /\ issued \in Nat
  BY DEF IInv, TypeOK
<1>s. CASE UNCHANGED <<Live, issued, Checked, Granted>>
  BY <1>s DEF OneTime!vars
<1>g. spent' = spent => Granted' = Granted
  BY DEF Granted
<1>l. admins' = admins => Live' = Live
  BY DEF Live, Exists
<1>c. ASSUME call' = call
      PROVE  Checked' = Checked
  BY <1>c DEF call, Checked, Pair
<1>1. ASSUME NEW p \in Processes, Start(p) \/ Stop(p)
      PROVE  UNCHANGED <<Live, issued, Checked, Granted>>
  <2>1. UNCHANGED <<call, issued, spent>>
    BY <1>1 DEF Start, Stop, CountAdmins, InsertFirst
  <2>2. Live' = Live
    <3>1. FirstAdmin \in AdminRow /\ FirstAdmin.code = 0
      BY DEF FirstAdmin, AdminRow
    <3>2. \/ admins' = admins
          \/ ~Exists(Super) /\ admins' = [admins EXCEPT ![Super] = FirstAdmin]
      BY <1>1 DEF Start, Stop, CountAdmins, InsertFirst
    <3> QED
      BY <1>0, <1>l, <3>1, <3>2, SameCodes, AdminAssumption
  <2> QED
    BY <1>c, <1>g, <2>1, <2>2
<1>2. ASSUME NEW c \in Calls, Begin(c)
      PROVE  [OneTime!Next]_OneTime!vars
  <2>1. UNCHANGED <<admins, issued, spent>> /\ pc[c] = "idle"
    BY <1>2 DEF Begin, RequestCode, Login, ChangePassword, Logout, ManageAdmins
  <2>2. \A d \in Calls \ {c} : pc'[d] = pc[d] /\ work'[d] = work[d]
    BY <1>0, <1>2 DEF Begin, RequestCode, Login, ChangePassword, Logout, ManageAdmins,
       Goto, TypeOK
  <2>3. CASE Login(c)
    <3>1. PICK u \in Accounts :
              /\ Enabled(u) /\ admins[u].code # 0
              /\ Goto(c, "spend", [user |-> u, code |-> admins[u].code,
                                   version |-> admins[u].version, enabled |-> FALSE])
      BY <2>3 DEF Login
    <3>2. Live[u] = admins[u].code
      BY <3>1 DEF Live, Enabled
    <3>3. pc'[c] = "spend" /\ Pair(c)' = <<u, Live[u]>>
      BY <1>0, <3>1, <3>2 DEF Goto, TypeOK, Pair
    <3>4. \A d \in Calls \ {c} : Pair(d)' = Pair(d)
      BY <2>2 DEF Pair
    <3>5. Checked' = Checked \union {<<u, Live[u]>>}
      BY <2>1, <2>2, <3>3, <3>4 DEF Checked
    <3> QED
      BY <1>g, <1>l, <2>1, <3>1, <3>2, <3>5 DEF OneTime!Next, OneTime!Check
  <2>4. CASE ~Login(c)
    <3>1. pc'[c] # "spend"
      BY <1>0, <1>2, <2>4 DEF Begin, RequestCode, ChangePassword, Logout, ManageAdmins,
         Goto, TypeOK
    <3>2. Checked' = Checked
      BY <2>1, <2>2, <3>1, NotHeld
    <3> QED
      BY <1>s, <1>g, <1>l, <2>1, <3>2
  <2> QED
    BY <2>3, <2>4
<1>3. ASSUME NEW c \in Calls, Step(c)
      PROVE  [OneTime!Next]_OneTime!vars
  <2> DEFINE u == work[c].user
             row == admins[u]
  <2>0. u \in Accounts /\ work[c].enabled \in BOOLEAN
    BY <1>0 DEF TypeOK, Work
  <2>1. \A d \in Calls \ {c} : pc'[d] = pc[d] /\ work'[d] = work[d]
    BY <1>0, <1>3, Others
    DEF Step, IssueCode, SpendCode, RaiseVersion, RereadVersion, Revoke, SaveAdmin, Finish
  <2>2. CASE IssueCode(c)
    <3>1. Exists(u) /\ row \in AdminRow
      BY <1>0, <2>0, <2>2, RowType DEF IssueCode, IInv, RowsExist, OfRow
    <3> DEFINE new == [row EXCEPT !.code = issued + 1, !.version = @ + 1]
    <3>2. new # NoRow /\ new.code = issued + 1
      <4> DEFINE coded == [row EXCEPT !.code = issued + 1]
      <4>1. coded \in AdminRow /\ coded.code = issued + 1
        BY <1>0, <3>1 DEF AdminRow
      <4>2. new = [coded EXCEPT !.version = @ + 1]
        OBVIOUS
      <4> HIDE DEF new, coded
      <4>3. new \in AdminRow /\ new.code = issued + 1
        BY <4>1, <4>2 DEF AdminRow
      <4> QED
        BY <4>3, AdminAssumption
    <3>3. admins' = [admins EXCEPT ![u] = new] /\ issued' = issued + 1 /\ spent' = spent
      BY <1>0, <2>0, <2>2 DEF IssueCode, TypeOK
    <3>4. \A v \in Accounts : admins'[v] = IF v = u THEN new ELSE admins[v]
      BY <1>0, <2>0, <3>3 DEF TypeOK
    <3> HIDE DEF new
    <3>5. Live' = [Live EXCEPT ![u] = issued + 1]
      BY <2>0, <3>2, <3>4 DEF Live, Exists
    <3>6. pc[c] = "issue" /\ pc'[c] = "idle"
      BY <1>0, <2>2, Others DEF IssueCode, Finish
    <3>7. Checked' = Checked
      BY <2>1, <3>6, NotHeld
    <3> QED
      BY <1>g, <2>0, <3>3, <3>5, <3>7 DEF OneTime!Next, OneTime!Issue
  <2>3. CASE SpendCode(c)
    <3>1. pc[c] = "spend" /\ pc'[c] = "idle" /\ issued' = issued
      BY <1>0, <2>3, Others DEF SpendCode, Finish
    <3>2. /\ Exists(u) /\ row \in AdminRow /\ work[c].code \in 1..issued
          /\ Pair(c) \in Accounts \X (1..MaxCodes)
      BY <1>0, <2>0, <3>1, PairIssued, RowType DEF TypeOK
    <3>3. Checked' \in {Checked, Checked \ {Pair(c)}} /\ Pair(c) \in Checked
      BY <2>1, <3>1, HeldNoMore
    <3> DEFINE new == [row EXCEPT !.code = 0]
    <3>4. new # NoRow /\ new.code = 0
      BY <3>2, AdminAssumption DEF AdminRow
    <3>5. \A v \in Accounts : admins'[v] = IF v = u THEN new ELSE admins[v]
      BY <1>0, <2>0, <2>3 DEF SpendCode, TypeOK
    <3> HIDE DEF new
    <3>6. Live' = [Live EXCEPT ![u] = 0]
      BY <2>0, <3>4, <3>5 DEF Live, Exists
    <3>7. Granted' = Granted \union {Pair(c)}
      <4>1. \A v \in Accounts : spent'[v] = IF v = u THEN spent[v] \union {work[c].code}
                                                     ELSE spent[v]
        BY <1>0, <2>0, <2>3 DEF SpendCode, TypeOK
      <4>2. \A v \in Accounts, n \in 1..MaxCodes :
                n \in spent'[v] <=> n \in spent[v] \/ <<v, n>> = Pair(c)
        BY <4>1 DEF Pair
      <4> QED
        BY <3>2, <4>2 DEF Granted
    <3> QED
      BY <2>0, <3>1, <3>2, <3>3, <3>6, <3>7 DEF OneTime!Next, OneTime!Grant, Pair
  <2>4. CASE RaiseVersion(c) \/ Revoke(c)
    <3>1. pc[c] # "spend" /\ pc'[c] # "spend" /\ UNCHANGED <<issued, spent>>
      BY <1>0, <2>4, Others DEF RaiseVersion, Revoke, Finish
    <3> DEFINE new == [row EXCEPT !.version = @ + 1]
    <3>2. \/ admins' = admins
          \/ Exists(u) /\ admins' = [admins EXCEPT ![u] = new]
      <4>1. Revoke(c) => Exists(u)
        BY DEF Revoke, IInv, RowsExist, OfRow
      <4> QED
        BY <1>0, <2>0, <2>4, <4>1 DEF RaiseVersion, Revoke, TypeOK
    <3>3. Exists(u) => new \in AdminRow /\ new.code = row.code
      BY <1>0, <2>0, RowType DEF AdminRow
    <3>4. Live' = Live
      BY <1>0, <1>l, <2>0, <3>2, <3>3, SameCodes
    <3> QED
      BY <1>s, <1>g, <2>1, <3>1, <3>4, NotHeld
  <2>5. CASE RereadVersion(c)
    <3>1. /\ pc[c] # "spend" /\ pc'[c] # "spend"
          /\ UNCHANGED <<admins, issued, spent>>
      BY <1>0, <2>5, Others DEF RereadVersion, Finish
    <3> QED
      BY <1>s, <1>g, <1>l, <2>1, <3>1, NotHeld
  <2>6. CASE SaveAdmin(c)
    <3>1. pc[c] # "spend" /\ pc'[c] # "spend" /\ UNCHANGED <<issued, spent>>
      BY <1>0, <2>6, Others DEF SaveAdmin, Finish
    <3> DEFINE new == Saved(row, work[c].enabled)
    <3>2. new \in AdminRow /\ new.code = IF Exists(u) THEN row.code ELSE 0
      <4>1. Exists(u) => row \in AdminRow
        BY <1>0, <2>0, RowType
      <4> QED
        BY <2>0, <4>1 DEF Saved, Exists, AdminRow
    <3>3. admins' = [admins EXCEPT ![u] = new]
      BY <2>6 DEF SaveAdmin
    <3>4. Live' = Live
      BY <1>0, <2>0, <3>2, <3>3, SameCodes
    <3> QED
      BY <1>s, <1>g, <2>1, <3>1, <3>4, NotHeld
  <2> QED
    BY <1>3, <2>2, <2>3, <2>4, <2>5, <2>6 DEF Step
<1>4. ASSUME NEW c \in Calls, Abandon(c)
      PROVE  [OneTime!Next]_OneTime!vars
  <2>1. /\ pc'[c] = "idle" /\ UNCHANGED <<admins, issued, spent>>
        /\ \A d \in Calls \ {c} : pc'[d] = pc[d] /\ work'[d] = work[d]
    BY <1>0, <1>4, Others DEF Abandon, Finish
  <2>2. CASE pc[c] # "spend"
    BY <1>s, <1>g, <1>l, <2>1, <2>2, NotHeld
  <2>3. CASE pc[c] = "spend"
    <3>1. Checked' \in {Checked, Checked \ {Pair(c)}}
      BY <2>1, <2>3, HeldNoMore
    <3>2. work[c].user \in Accounts /\ work[c].code \in 1..issued
      BY <2>3, PairIssued
    <3> QED
      BY <1>s, <1>g, <1>l, <2>1, <3>1, <3>2 DEF OneTime!Next, OneTime!GiveUp, Pair
  <2> QED
    BY <2>2, <2>3
<1>5. CASE UNCHANGED vars
  <2>1. UNCHANGED <<admins, issued, call, spent>>
    BY <1>5 DEF vars, call
  <2> QED
    BY <1>s, <1>g, <1>l, <1>c, <2>1
<1> QED
  BY <1>s, <1>1, <1>2, <1>3, <1>4, <1>5 DEF Next

\* For any accounts, processes and calls AdminAccess implements OneTimeCodes: whatever is
\* saved, changed, revoked and abandoned meanwhile, a login is granted only for a code that
\* was the account's own live one when it was compared, and the code is gone afterwards.
\* The sessions that a change of password gives out, without a code, are not logins and
\* stutter here.
THEOREM CodesAreOneTime == Spec => ImplementsOneTime
<1>1. Init => OneTime!Init
  <2> SUFFICES ASSUME Init
               PROVE  OneTime!Init
    OBVIOUS
  <2>1. Checked = {} /\ Granted = {}
    BY DEF Init, Checked, Granted
  <2>2. Live = [u \in Accounts |-> 0]
    BY DEF Init, Live, Exists
  <2> QED
    BY <2>1, <2>2 DEF Init, OneTime!Init
<1>2. IInv /\ [Next]_vars => [OneTime!Next]_OneTime!vars
  BY OneTimeStep
<1> QED
  BY <1>1, <1>2, Invariance, PTL DEF Spec, ImplementsOneTime, OneTime!Spec

Sound == INSTANCE OneTimeCodesProofs WITH
    People <- Accounts, live <- Live, checked <- Checked, granted <- Granted

\* What a temporary password proves: no code has let in to two accounts, and one that
\* has let somebody in is in no row any more.
THEOREM CodesOfOneAccount == Spec => [](OneTime!UsedOnce /\ OneTime!OneOwner)
<1>1. OneTime!Init => Sound!Init
  BY DEF OneTime!Init, Sound!Init
<1>2. [OneTime!Next]_OneTime!vars => [Sound!Next]_Sound!vars
  BY DEF OneTime!Next, OneTime!Issue, OneTime!Check, OneTime!Grant, OneTime!GiveUp,
     OneTime!Withdraw, OneTime!vars, Sound!Next, Sound!Issue, Sound!Check, Sound!Grant,
     Sound!GiveUp, Sound!Withdraw, Sound!vars
<1>3. Sound!UsedOnce /\ Sound!OneOwner => OneTime!UsedOnce /\ OneTime!OneOwner
  BY DEF Sound!UsedOnce, Sound!OneOwner, OneTime!UsedOnce, OneTime!OneOwner
<1>4. Sound!Spec => [](Sound!UsedOnce /\ Sound!OneOwner)
  BY Sound!CodesAreSound
<1> QED
  BY <1>1, <1>2, <1>3, <1>4, CodesAreOneTime, PTL
  DEF ImplementsOneTime, OneTime!Spec, Sound!Spec
===============================================================================
