----------------------------- MODULE AdminAccess ------------------------------
(***************************************************************************)
(* The table admin: the first administrator, who is created by whichever   *)
(* process starts first, single-use codes, sessions, and what a super      *)
(* administrator writes.  Handlers run at once; each is a sequence of      *)
(* statements outside any transaction.  A session is a signed token with   *)
(* the token_version it was made from, and revoking is raising the column. *)
(*                                                                         *)
(* A code is the number of the request that issued it, 0 for NULL and for  *)
(* a guess.  The lockout of VoterAuth may turn a login away before its     *)
(* first step here.  Names, phones, the password, which no login looks at, *)
(* and needs_change, which only picks a page, are left out.                *)
(***************************************************************************)
EXTENDS Integers

CONSTANTS
    Accounts,       \* admin.username
    Super,          \* GOVOTE_BOOTSTRAP_USERNAME
    Processes,      \* servers and workers on one database file
    Calls,          \* handlers that may run at the same time
    NoRow,          \* no row for a user name
    MaxCodes,       \* bound: codes issued in a behaviour
    MaxVersion      \* bound: of the token_version of each account

AdminRow == [super: BOOLEAN, enabled: BOOLEAN, code: Nat, version: Nat]

ASSUME AdminAssumption ==
    /\ Super \in Accounts
    /\ NoRow \notin AdminRow
    /\ MaxCodes \in Nat
    /\ MaxVersion \in [Accounts -> Nat]

VARIABLES
    admins,     \* the table, by user name
    issued,     \* codes issued so far
    tokens,     \* session tokens given out; one past AdminTokenTTL is one nobody
                \* shows again
    pc,         \* next statement of each call, "idle" before and after
    work,       \* whom a call is about, and what it has read or brings
    spent,      \* codes a login has been granted for, by account
    proc        \* where each process is in its start

call == <<pc, work>>
vars == <<admins, issued, tokens, pc, work, spent, proc>>

-------------------------------------------------------------------------------
(* State *)

Token == [user: Accounts, version: Nat]

Work == [user: Accounts, code: Nat, version: Nat, enabled: BOOLEAN]

NoWork == [user |-> Super, code |-> 0, version |-> 0, enabled |-> FALSE]

Steps == {"idle", "issue", "spend", "raise", "reread", "revoke", "save"}

\* Serving, with a super administrator or with a warning that there is none.
Up == {"serving", "unmanaged"}

TypeOK ==
    /\ admins \in [Accounts -> AdminRow \union {NoRow}]
    /\ issued \in 0..MaxCodes
    /\ tokens \subseteq Token
    /\ pc \in [Calls -> Steps]
    /\ work \in [Calls -> Work]
    /\ spent \in [Accounts -> SUBSET Nat]
    /\ proc \in [Processes -> {"down", "insert"} \union Up]

Exists(u) == admins[u] # NoRow
Enabled(u) == Exists(u) /\ admins[u].enabled

\* GetAuthenticatedAdmin, of a token that has not expired.
Authenticated(t) == Enabled(t.user) /\ admins[t.user].version = t.version

-------------------------------------------------------------------------------
(* A process starts: InitDB *)

\* Faulty: the INSERT is tried whatever the count was.
CountAdminsIgnored(p) ==
    /\ proc[p] = "down"
    /\ proc' = [proc EXCEPT ![p] = "insert"]
    /\ UNCHANGED <<admins, issued, tokens, call, spent>>

\* Without GOVOTE_BOOTSTRAP_PHONE nobody is created.
CountAdmins(p) ==
    /\ proc[p] = "down"
    /\ \E step \in IF \E u \in Accounts : Exists(u)
                   THEN {"serving"} ELSE {"insert", "unmanaged"} :
            proc' = [proc EXCEPT ![p] = step]
    /\ UNCHANGED <<admins, issued, tokens, call, spent>>

FirstAdmin == [super |-> TRUE, enabled |-> TRUE, code |-> 0, version |-> 0]

\* The user name is UNIQUE; the slower INSERT ends the process, which Docker starts
\* again.
InsertFirst(p) ==
    /\ proc[p] = "insert"
    /\ \/ /\ ~Exists(Super)
          /\ admins' = [admins EXCEPT ![Super] = FirstAdmin]
          /\ proc' = [proc EXCEPT ![p] = "serving"]
       \/ /\ Exists(Super)
          /\ proc' = [proc EXCEPT ![p] = "down"]
          /\ UNCHANGED admins
    /\ UNCHANGED <<issued, tokens, call, spent>>

\* A crash, a failed statement of the start, or a new deployment.
Stop(p) ==
    /\ proc[p] # "down"
    /\ proc' = [proc EXCEPT ![p] = "down"]
    /\ UNCHANGED <<admins, issued, tokens, call, spent>>

-------------------------------------------------------------------------------
(* The steps of a call *)

Goto(c, step, w) ==
    /\ pc' = [pc EXCEPT ![c] = step]
    /\ work' = [work EXCEPT ![c] = w]

Finish(c) == Goto(c, "idle", NoWork)

\* The token of the answer goes out with the version at hand.
GiveToken(u, version) ==
    tokens' = tokens \union {[user |-> u, version |-> version]}

\* A failed statement, an error page or the end of the process: the call does no
\* more, and what it has written stays.
Abandon(c) ==
    /\ pc[c] # "idle"
    /\ Finish(c)
    /\ UNCHANGED <<admins, issued, tokens, spent, proc>>

\* The SELECT of HandleUIRequestAdminTemporaryPassword.
RequestCode(c) ==
    /\ pc[c] = "idle"
    /\ \E u \in Accounts : Enabled(u) /\ Goto(c, "issue", [NoWork EXCEPT !.user = u])
    /\ UNCHANGED <<admins, issued, tokens, spent, proc>>

\* Its UPDATE: a new code, and the sessions of the account end.
IssueCode(c) ==
    LET u == work[c].user
    IN  /\ pc[c] = "issue"
        /\ issued < MaxCodes /\ admins[u].version < MaxVersion[u]
        /\ issued' = issued + 1
        /\ admins' = [admins EXCEPT ![u].code = issued', ![u].version = @ + 1]
        /\ Finish(c)
        /\ UNCHANGED <<tokens, spent, proc>>

\* The SELECT of HandleAdminLoginPost, when the code brought is the one in the row.
Login(c) ==
    /\ pc[c] = "idle"
    /\ \E u \in Accounts :
            /\ Enabled(u) /\ admins[u].code # 0
            /\ Goto(c, "spend", [user |-> u, code |-> admins[u].code,
                                 version |-> admins[u].version, enabled |-> FALSE])
    /\ UNCHANGED <<admins, issued, tokens, spent, proc>>

\* Faulty: the session does not wait for the UPDATE to succeed.
SpendCodeOpen(c) ==
    LET u == work[c].user
    IN  /\ pc[c] = "spend"
        /\ \/ admins' = [admins EXCEPT ![u].code = 0]
           \/ UNCHANGED admins
        /\ spent' = [spent EXCEPT ![u] = @ \union {work[c].code}]
        /\ GiveToken(u, work[c].version)
        /\ Finish(c)
        /\ UNCHANGED <<issued, proc>>

\* The UPDATE that clears the code, whichever is there by now; when it fails there is
\* no session.  The token carries the version of the SELECT.
SpendCode(c) ==
    LET u == work[c].user
    IN  /\ pc[c] = "spend"
        /\ admins' = [admins EXCEPT ![u].code = 0]
        /\ spent' = [spent EXCEPT ![u] = @ \union {work[c].code}]
        /\ GiveToken(u, work[c].version)
        /\ Finish(c)
        /\ UNCHANGED <<issued, proc>>

\* HandleAdminChangePassword, for the session's account or, on first access without a
\* session, the one the form names.
ChangePassword(c) ==
    /\ pc[c] = "idle"
    /\ \E u \in Accounts : Goto(c, "raise", [NoWork EXCEPT !.user = u])
    /\ UNCHANGED <<admins, issued, tokens, spent, proc>>

\* Its UPDATE; no row is the page "Administrador não encontrado".
RaiseVersion(c) ==
    LET u == work[c].user
    IN  /\ pc[c] = "raise"
        /\ \/ /\ Exists(u) /\ admins[u].version < MaxVersion[u]
              /\ admins' = [admins EXCEPT ![u].version = @ + 1]
              /\ Goto(c, "reread", work[c])
           \/ ~Exists(u) /\ Finish(c) /\ UNCHANGED admins
        /\ UNCHANGED <<issued, tokens, spent, proc>>

\* The version is read again, by when another call may have raised it; the error of
\* this SELECT is ignored.  No code is asked for, nor, when the form names the account,
\* a session.
RereadVersion(c) ==
    LET u == work[c].user
    IN  /\ pc[c] = "reread"
        /\ \E version \in {0, admins[u].version} : GiveToken(u, version)
        /\ Finish(c)
        /\ UNCHANGED <<admins, issued, spent, proc>>

\* HandleAdminLogout with a session; without one it only clears the cookie.
Logout(c) ==
    /\ pc[c] = "idle"
    /\ \E t \in tokens :
            Authenticated(t) /\ Goto(c, "revoke", [NoWork EXCEPT !.user = t.user])
    /\ UNCHANGED <<admins, issued, tokens, spent, proc>>

Revoke(c) ==
    LET u == work[c].user
    IN  /\ pc[c] = "revoke"
        /\ admins[u].version < MaxVersion[u]
        /\ admins' = [admins EXCEPT ![u].version = @ + 1]
        /\ Finish(c)
        /\ UNCHANGED <<issued, tokens, spent, proc>>

\* HandleUIManageAdminsPost: the session must be a super administrator's.
ManageAdmins(c) ==
    /\ pc[c] = "idle"
    /\ \E t \in tokens, u \in Accounts, e \in BOOLEAN :
            /\ Authenticated(t) /\ admins[t.user].super
            /\ Goto(c, "save", [NoWork EXCEPT !.user = u, !.enabled = e])
    /\ UNCHANGED <<admins, issued, tokens, spent, proc>>

\* Faulty: the row is written without its token_version.
SavedUnversioned(row, enabled) ==
    [super |-> FALSE, enabled |-> enabled, code |-> 0]

\* Faulty: INSERT OR REPLACE, which makes the row anew.
SavedAnew(row, enabled) ==
    [super |-> FALSE, enabled |-> enabled, code |-> 0, version |-> 0]

\* The row after the upsert: only name, phone and enabled of an old one change.
Saved(row, enabled) ==
    IF row = NoRow
    THEN [super |-> FALSE, enabled |-> enabled, code |-> 0, version |-> 0]
    ELSE [row EXCEPT !.enabled = enabled]

SaveAdmin(c) ==
    LET u == work[c].user
    IN  /\ pc[c] = "save"
        /\ admins' = [admins EXCEPT ![u] = Saved(@, work[c].enabled)]
        /\ Finish(c)
        /\ UNCHANGED <<issued, tokens, spent, proc>>

Init ==
    /\ admins = [u \in Accounts |-> NoRow]
    /\ issued = 0
    /\ tokens = {}
    /\ pc = [c \in Calls |-> "idle"]
    /\ work = [c \in Calls |-> NoWork]
    /\ spent = [u \in Accounts |-> {}]
    /\ proc = [p \in Processes |-> "down"]

Start(p) == CountAdmins(p) \/ InsertFirst(p)

Step(c) == \/ IssueCode(c) \/ SpendCode(c) \/ RaiseVersion(c) \/ RereadVersion(c)
           \/ Revoke(c) \/ SaveAdmin(c)

\* A request needs a process that answers it.
Begin(c) ==
    /\ \E p \in Processes : proc[p] \in Up
    /\ RequestCode(c) \/ Login(c) \/ ChangePassword(c) \/ Logout(c) \/ ManageAdmins(c)

Next ==
    \/ \E p \in Processes : Start(p) \/ Stop(p)
    \/ \E c \in Calls : Begin(c) \/ Step(c) \/ Abandon(c)

Spec == Init /\ [][Next]_vars

\* Docker starts a process that has ended, and a started one goes on; requests and
\* stops come when they come.
FairSpec == Spec /\ \A p \in Processes : WF_vars(Start(p))

-------------------------------------------------------------------------------
(* Properties *)

\* As soon as one process serves knowing an administrator, there is exactly one super
\* administrator, the bootstrapped one, however many processes start at once and
\* whatever is saved in the page of administrators.
SuperStays ==
    (\E p \in Processes : proc[p] = "serving") =>
        \A u \in Accounts : Exists(u) /\ admins[u].super <=> u = Super

\* A token that is refused for its version, or whose account's version moves, is never
\* accepted again, whatever logouts, changes and edits follow.
Outdated(t) == Exists(t.user) => admins[t.user].version # t.version

RevokedForGood ==
    [][\A t \in tokens :
            Outdated(t) \/ admins'[t.user].version # admins[t.user].version
                => Outdated(t)']_vars

\* The code in each row, those that a login about to be granted has found right, and
\* those that a login has spent.
Live == [u \in Accounts |-> IF Exists(u) THEN admins[u].code ELSE 0]

Pair(c) == <<work[c].user, work[c].code>>

Checked == {Pair(c) : c \in {d \in Calls : pc[d] = "spend"}}

Granted == {g \in Accounts \X (1..MaxCodes) : g[2] \in spent[g[1]]}

OneTime == INSTANCE OneTimeCodes WITH
    People <- Accounts, live <- Live, checked <- Checked, granted <- Granted

\* Temporary passwords keep the promise of OneTimeCodes, whatever is saved, changed and
\* revoked meanwhile: HandleAdminLoginPost only lets in for a code that was the account's
\* own when it was compared, whatever code the account has by then is taken back with it,
\* and no order of new codes, other logins and edits of the account brings a code back.
\* It speaks of logins.  The token that a change of password ends with (RereadVersion) is
\* given without a code, and is no step of OneTimeCodes.
ImplementsOneTime == OneTime!Spec

\* Once there is an administrator every process that is down or in its start comes to
\* serve, also one whose own INSERT then fails.
StartRecovers ==
    \A p \in Processes : Exists(Super) /\ proc[p] \notin Up ~> proc[p] \in Up
===============================================================================
