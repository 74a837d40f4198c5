# A TLA+ verification project for govote

govote is an electronic voting service written in Go: an HTTP API and an HTML
interface over one SQLite file, with an optional Redis for caches, rate limits
and a queue of votes. This directory holds TLA+ modules translated from its
source, the TLC runs that check them on small instances, and theorems that
TLAPS proves for every value of the constants. Paths below are relative to
`src/`; `internal/` is left out where it is clear.

## 1. The system and its parts

| Part | Source | State it keeps | Operations | Model |
|---|---|---|---|---|
| Vote transaction | `poll/poll.go` `CastVote` | tables `votes`, `voters`; the write lock; the connection pool | validate, take a connection, BEGIN IMMEDIATE, check, INSERT, UPDATE, COMMIT, audit | `CastVote` |
| Tallies | `poll/poll.go` `GetResults` | none | count | `Tally` in `CastVote` |
| Vote endpoints | `api` `HandleVote`, `ui` `HandleUIVote` | none of their own | marker, enqueue or CastVote, answer | `VoteQueue` |
| Vote queue | `cache/redis.go` | markers `voted:`, stream `govote:votes`, its group and pending list | mark, look up, XADD | `VoteQueue` |
| Vote worker | `worker/vote_worker.go` | the batch in hand | read, process, acknowledge | `VoteQueue` |
| Voter authentication | `api`, `ui`, `api/telegram.go` | `voters.passcode`, `verified_at`, `used_at` | request a passcode, verify it | `VoterAuth`; as environment in `CastVote`, `VoteQueue` |
| Lockout | `storage/lockout.go` | table `auth_lockout` | locked?, record, clear | `VoterAuth` |
| Polls | `api`, `ui` `HandleCreatePoll`, `HandleUICreatePoll`, the lists; `IsActive` | tables `polls`, `answers` | create, list | `PollBoard` |
| Caches | `cache/redis.go` | `polls:active`, `results:<id>` | look up, fill, invalidate, expire | `PollBoard` |
| Statistics | `poll/poll.go` `GetPollStats` | none | count, tally | `PollBoard` |
| Administrators | `admin/handlers.go`, `web/session.go` | table `admin`: code, `token_version` | code, login, password, logout, save | `AdminAccess` |
| Rate limit | `web/ratelimit.go`, `cache/redis.go` | visits of each address, in memory or Redis | allow, clean up | `RateLimit` |
| Start-up | `storage/storage.go` `InitDB` | the schema, the first admin | create, bootstrap, migrate | first admin in `AdminAccess` |
| HTTP plumbing, hashes, validation, pages | `web`, `server`, `security`, `validate`, `views` | none the protocol depends on | | not modelled (section 8) |

How they interact. Every process (API replicas, the vote worker) opens the same
SQLite file and keeps a pool of connections to it; SQLite lets one of them write
at a time. A voter asks for a passcode, verifies it, which sets `verified_at`
and gives out a signed vote token, and votes with the token. A vote reaches
`CastVote` along three paths: `HandleUIVote` calls it; `HandleVote` calls it
after looking at a marker in Redis; or, with `GOVOTE_VOTE_ASYNC`, `HandleVote`
puts a job on a Redis stream, answers 202, and the vote worker calls it later.
A stored vote drops the caches of its poll, except when the form took it. An
administrator's session is a signed token that is compared with the account's row
at each request. The rate limiter stands in front of passcode requests, verifications,
JSON votes and logins.

What is hard here: handlers and processes interleave between SQL statements;
what `CastVote` validates is read before its transaction; Redis and SQLite are
updated one after the other with nothing that ties them together; any process
may die between two steps; and a process has a bounded number of connections.
`PROJECT.json` lists these hazards at their lines, with the property that
covers each or the reason why none does.

What makes each part correct:

- vote transaction: one vote per voter and poll, 201 exactly for a stored vote,
  409 only to who has voted, only legal votes stored, a stored vote never taken back,
  the write lock given back, every request answered unless votes that audit hold the
  whole pool (with a pool of one the first of them does: section 6);
- tallies: a voter counts once per answer, radio tallies add up to the votes;
- queue: no path adds a second vote, a refused vote is not counted, an entry is
  not lost before the worker decided on it, every entry is read unless the worker is
  stuck for good, retried where the code says so, and dropped only when it is a
  duplicate (the last two violated: section 6);
- authentication: a code that was answered with success never comes back, only who
  proved a code is verified, a code is proof for one voter or administrator, a lock has its cause and its count, and as many failures
  as the threshold says lock (violated: section 6);
- polls: a cached list shows polls with answers they have, open when the second in which
  it was made began (violated for dates that are not in UTC, or with blanks around them:
  section 6); a cached tally never misses a vote that dropped it, unless a tally was on
  its way; caches catch up;
- administrators: a login needs the account's own live code, a spent code and a revoked
  session stay so, there is one super administrator, and every process comes up once there
  is one;
- rate limit: at most `max` requests in any window, nobody refused who has not used
  the budget, and waiting as long as `Retry-After` says, and the fraction of a second it
  leaves out, is enough (not for a budget of one in Redis: section 6).

## 2. Modules

| Module | What it is |
|---|---|
| `VoteLedger` | abstract: a ledger with at most one ballot per voter and poll that only grows, and receipts only for what is in it; `CastVote` and `VoteQueue` implement it |
| `CastVote` | the function statement by statement, with its callers' passcode requests and verifications, the clock, the pool and crashes |
| `CastVoteProofs` | inductive invariant, safety theorems and refinement, proved by TLAPS |
| `MCCastVote` | small instances for TLC |
| `VoteQueue` | both endpoints, the marker, the stream, the worker; `CastVote` as two actions |
| `VoteQueueProofs` | inductive invariant, safety theorems and refinement, proved by TLAPS |
| `MCVoteQueue` | small instances for TLC |
| `OneTimeCodes` | abstract: codes that are issued to one person, replace one another, are found right while they live and let that person in once the check is over; `VoterAuth` and `AdminAccess` implement it |
| `OneTimeCodesProofs` | what it implies for any people, proved by TLAPS |
| `VoterAuth` | passcode requests, verification and lockout, one action per statement |
| `VoterAuthProofs` | inductive invariant, safety theorems and refinement, proved by TLAPS |
| `MCVoterAuth` | small instances for TLC |
| `AdminAccess` | the first administrator, codes, sessions and accounts, one action per statement |
| `AdminAccessProofs` | inductive invariant, safety theorems and refinement, proved by TLAPS |
| `MCAdminAccess` | small instance for TLC |
| `PollBoard` | creation, lists, results and statistics with the caches in Redis |
| `PollBoardProofs` | inductive invariant and safety theorems, proved by TLAPS |
| `MCPollBoard` | small instances for TLC |
| `RateLimit` | both limiters, for one address |
| `RateLimitProofs` | inductive invariant and safety theorems, proved by TLAPS |
| `RateLimitClientProofs` | what a client and what processes together may count on, proved by TLAPS |
| `MCRateLimit` | small instances for TLC |

### CastVote

A request goes through the steps `idle, voter, poll, answers, conn, begin, dup,
insert, update, commit, audit, reply, done`, one per statement of the function,
and ends in `lost` when its process dies. Each action has the failure of its
statement as a disjunct, with the status the code returns.

- `votes` holds committed rows only. What a transaction has written is implied
  by the step of the request that holds the lock (`writer`), so ROLLBACK only has
  to give the lock back, as `Refuse` does; `Commit` adds the row and clears the
  passcode at once. A ROLLBACK that fails, an error the code discards (`poll.go:295`), is
  not modelled: what becomes of the lock is then up to the driver.
- `Insert` has the UNIQUE index as its guard. `CheckedVoterStaysFree` says that
  the guard never bites.
- A voter's row keeps, of its columns, what `CastVote` and its callers tell apart:
  `code` (`passcode IS NOT NULL`), `verified`, `used`. A voter without a row and
  one who is not verified get the same answers.
- `RequestPasscode` is the upsert of four handlers, `CheckCode` and `MarkVerified`
  the SELECT and the UPDATE of a verification, which are not in a transaction.
- `FreeConn` is the pool. `Pinned` are the connections `CastVote` keeps from
  `DB.Conn` to its return; a connection taken for one statement is free again
  when the action is over. `Audit` needs a second one: section 6.
- The passing of time is `Tick`. The expiry of a passcode and the match of its
  hash are a choice of the environment here (`CheckCode` may not happen).

`GetResults` is `Tally`: a pair of a row and a position is one element of
`json_each`, so an answer listed twice would count twice.

### VoteQueue

`async` chooses at the start whether `HandleVote` uses the queue. `CheckMarker`,
`Enqueue`, `Validate`, `Commit`, `Mark` are the steps of the handlers;
`Read`, `WCheckMarker`, `WValidate`, `WCommit`, `WAudit`, `WMark`, `WAck` those of
the worker. `WStart` is the head of `RunVoteWorker`: a Redis that does not answer then
makes it return for good, while its process lives on and is not restarted (`"off"`), and
an error of `ensureGroup` is only logged, so that the worker may read without a `group`,
which is an error each time. Only `WCrash`, the end of the process, leads back to a start.
The branch for a payload that does not decode (`vote_worker.go:75-79`) is not taken by an
entry that `EnqueueVote` wrote, and nothing else writes to the stream; `WJob` is what
decodes. `cursor` is the last entry delivered to the group and `pending` the
delivered entries not yet acknowledged: `Read` asks for `">"`, hence only for
entries after `cursor`. A failing Redis command has each outcome the code can
see: no marker found, marker not set, not acknowledged, and for XADD a 503 with
the entry in the stream or without. `CastVote` is cut down to its validating reads
and its transaction; that the transaction is atomic is what the runs and theorems
on module `CastVote` show. `outcome` records what the worker decided and is read by
properties only. That the Redis client may send an XADD twice is not an action of its
own: a second request with the same job is the same thing.

The environment asks for passcodes (which resets `verified_at` while the vote
token stays valid), verifies, closes polls and forgets markers.

### VoterAuth

An attempt is a call of `HandleVerify` or `HandleUIVerify`, which run the same
statements. None of them is in a transaction, so each is an action:

| Step | Statement |
|---|---|
| `ReadLock`, `ClearExpired` | `IsLocked`: SELECT; UPDATE of a lock that has run out |
| `CheckCode` | the handler's SELECT of code, `used_at` and expiry |
| `CountFailure`, `InsertFailure`, `RaiseFailure` | `RecordFailure`: SELECT; INSERT; UPDATE |
| `ClearFailures`, `MarkVerified` | DELETE of the counter; the handler's UPDATE, and its answer |

`seen` is what `RecordFailure` has read and the time it took, both used by its
UPDATE later. The lockout ignores every error of a statement: each action has it as
a disjunct. A code is the number of the request that issued it, so that codes are
compared and never computed; 0 is NULL, or a guess that is wrong. The time 0 is NULL
as well. `failed` counts the failures that `RecordFailure` believes it has recorded;
no action reads it, `FailuresLock` does. `ConsumeCode` is the UPDATE with which
`CastVote` clears the code of a voter who has a vote token. The lockout key of an
administrator goes through the same three functions.

As `OneTimeCodes` sees it, a voter's code is live while it is not used and has not run
out (`LiveCode`), it is found right by an attempt past `CheckCode` (`Checked`), and it has
let somebody in when that attempt is answered with success (`Granted`). A vote that
clears the code and a tick that ends it are withdrawals.

### AdminAccess

`proc` is the start of each process: `CountAdmins` and `InsertFirst` are the two
statements of `bootstrapSuperAdmin`, and `"unmanaged"` is a process that serves
although there is no administrator, because no phone is configured. A call of a
handler is a first action, its SELECT with the checks that follow, and one for each
later statement: `RequestCode`/`IssueCode`, `Login`/`SpendCode`,
`ChangePassword`/`RaiseVersion`/`RereadVersion`, `Logout`/`Revoke`,
`ManageAdmins`/`SaveAdmin`. `work` is what the call has read, and uses later.

A token is the account and the version it was made from, and `tokens` are all that
were ever given out; a token past its life is one that nobody shows. `Authenticated`
is `GetAuthenticatedAdmin`. The upsert of the page of administrators is `Saved`: of an
old row only name, phone and `enabled` change, so the code, the version and `is_super`
stay. The password is written and never read, and `needs_change` picks a page; both are
left out. As `OneTimeCodes` sees it, the code in the row is live, one that a login brings to
its UPDATE is found right, and one in `spent` has let somebody in by a login. The token
that `RereadVersion` gives at the end of a change of password stands outside: it is given
without a code (section 6), and no property says that it was not.

### PollBoard

A date is `digits` (what its text shows, in whole seconds), `offset`, how it ends (`Z`, an
offset, or neither, as the field of the form sends it) and whether there is a blank before
or after it, which `HandleCreatePoll` trims to parse the date and stores. The clock counts
half seconds, for the two comparisons do not read it alike: `Listed` compares, as both
lists do, the text of a date with that of the current second (`NotAfter`, `NotBefore`);
`IsActive`, which the page of a poll and every vote ask, parses the dates and compares
them with the clock as it is. One action per statement or Redis command: `InsertPoll`, `InsertAnswer`
as often as there are answers, `Created`, which goes on to the list when the JSON API
created the poll; `LookUp`, `QueryPolls`, `FetchAnswers`, `StoreList`; `ReadResults`,
`GetResults`, `StoreResults`; `CountVotes`, `ShowStats`. A call may be abandoned
anywhere, which is a failed statement or a failed Redis command, and what it wrote
stays. `Vote` is a vote of `CastVote` in one step, with or without the `Invalidate`
that `HandleVote` and the worker call and `HandleUIVote` does not; the worker calls it
for a duplicate too (`Repeat`). A tally is the number of votes it covers, since votes
are never removed (the ledger of `CastVote` only grows). `floor` is read by `FreshUnlessRaced` only.

### RateLimit

The log has one entry per request: when, by which limiter, the verdict, and what
`Retry-After` said. A limiter remembers numbers of entries (`visits`) and decides by
their times. `Allow`, `Refuse` and `Cleanup` are atomic, for the code holds the mutex.
`AllowRateLimit` is one action per command of its pipeline, `ZRemRangeByScore`,
`ZCard`, `ZAdd`, `Reply`, since a pipeline is not a transaction. The Redis client sends a
pipeline again when no replies come (`Retry`); a pipeline that fails admits the request
(`Fail`). `Evict` is the loss of the key, `Restart` of a process's memory. Whether a
process uses Redis is decided by `cache.Init` when it starts and stays so here.
`Patience` is how long a pipeline may take, below the window: by default the client
gives up after a few seconds, and the window is a minute. `EXPIRE` never takes effect
before everything in the set has left the window, so it is no action.

## 3. Runs

| Run | Instance | Shows |
|---|---|---|
| `castvote_race` | 1 voter, 2 polls, 3 requests on 2 processes, 2 connections each, 1 tick | the safety of the transaction and `ImplementsLedger` |
| `castvote_rules` | 1 voter, 2 requests on one process, 2 connections, 5 answer lists, windows that open and close, fairness | what is stored is legal, tallies add up, the lock is given back, only audits on every connection keep a request from its end |
| `castvote_one_conn` | 1 request, 1 connection, fairness | violated: see section 6 |
| `queue` | 1 voter, 3 requests, both paths, batches of 2, 1 fault, fairness | the safety of the three paths together and `ImplementsLedger`; every entry is read unless the worker is stuck |
| `queue_skip` | 2 requests, no fault | violated: see section 6 |
| `queue_retry` | 2 requests, 1 fault, fairness | violated: see section 6 |
| `auth` | 2 voters, 3 attempts, threshold 2, 2 codes, 2 ticks | the safety of codes and locks, and `ImplementsOneTime` |
| `lockout_lost` | 1 voter, 2 attempts, threshold 2, 1 code | violated: see section 6 |
| `admin` | 2 accounts, 2 processes, 2 calls at a time, 2 codes, 2 revocations of the super administrator and 1 of the other, fairness | codes (`ImplementsOneTime`), sessions and the super administrator are safe; every start recovers |
| `polls` | 1 poll with up to 2 answers and 2 votes, 2 calls at a time, one second of window as 4 texts (2 time zones, 2 with a blank), 4 half seconds, fairness | what cached lists and tallies may miss, and that they catch up |
| `polls_window` | 1 poll with the dates of the form | violated: see section 6 |
| `ratelimit` | 1 process, 2 pipelines, 4 requests, a budget of 2 in 4 ticks, 2 ticks to a second, 5 ticks | the budget of a process and of processes that share Redis; who is refused, and when waiting helps |

Why the instances are enough. A conflict is between two votes of one voter for
one poll; a third request on another process adds a bystander that holds the
lock, and two polls tell apart a check that forgets the poll. The ballots of
`castvote_rules` are one of each kind the code distinguishes: none, legal, too many
for a radio poll, repeated, foreign; that tallies of several voters add up is a
theorem (section 4). The clock takes two values, with the polls opening or closing
between them; `MaxTime` bounds it. In the queue, three requests make a full batch of
two and an entry left over, and a duplicate through each path; one fault (`MaxFaults`)
is a failure at any step, crashes come on top, and the safety of any number of faults,
voters and ballots is a theorem. `castvote_race` and `castvote_rules` bound nothing
else: requests are made once, and statements may fail without limit.

In `auth`, two attempts reach the threshold and the third is a success, a stale write
or a lifting of the lock between them; two codes let one be replaced while it is
checked; the ticks (`MaxTime`) let a code and a lock run out, each before and after the
other's statements. In `admin`, two processes race for the first INSERT; two calls are a
slow one and the one that overtakes it, and a call that ends begins again; two codes let
a newer one be cleared by the login with the older one, and two revocations let a
session be ended while another is being made. In `polls`, two calls are the one that
fills a cache and the one that writes in between; `MaxVotes` of two separates a tally
that is stale from one that is empty, `MaxAnswers` of two is what the API asks for at
least. All windows are the same second, written in UTC, further east, and with a blank
before the start or after the end; the clock (`MaxTime`) is inside it, at its end, in the
second after, where the list and `IsActive` disagree, and past that. In `ratelimit`, four requests are the budget,
one over it and one that comes back after the wait; two pipelines meet; a second of two
ticks rounds `Retry-After` both ways, and the fifth tick is past the window of the first
requests. `Patience` of one tick makes pipelines late. Of `SharedBudget` the instance shows
the bound while a window lasts, which is three; once it is over the bound is all four
requests, so that half rests on the theorem. The theorems hold for any of these
constants. `OneTimeCodes` has no run of its own: its steps are what `auth` and `admin`
check, and what follows from it is proved.

Attempts in `auth` and pipelines in `ratelimit` are taken up to permutation. That
is sound for invariants, and for `ImplementsOneTime`, which looks at one step at a time
and does not tell attempts apart; runs with liveness properties use no symmetry.

Deadlock is not checked in `castvote_*`, `queue*`, `auth` and `lockout_lost`: a finite number of requests
ends, and then nothing is left to do. The other runs check it where the system never
stops.

Fairness. `CastVote!Fairness` is weak fairness of each request's next step: the Go
scheduler runs every goroutine, a wait for SQLite's lock ends with `busy_timeout`
(the failing disjunct of `Begin`), and no request is assumed to be started. In
`castvote_rules` two requests share two connections, so weak fairness is enough: none is
taken from who waits for it again and again, and if both requests audit none comes free,
which `OnlyAuditsStarve` names. `VoteQueue!FairSpec` is weak fairness of the worker's steps,
with its start after a crash (`restart: unless-stopped` in the compose file); it is not
started again while its process lives, and handlers, the environment and crashes have no
fairness. What `EveryEntryRead` excepts is `Stuck`: a worker that has returned, that reads
without a group, or that waits in `LogAction` with a pool of one. Run `queue` gives the worker
two connections, so that the steps after a stored vote are reached; with one, the setting
of `docker-compose.bf.yaml`, the property says that it is stuck at its first stored vote,
for the reason `castvote_one_conn` shows. `AdminAccess!FairSpec` is weak
fairness of the start of each process: Docker starts one that has ended, and a start
that was begun goes on or fails; no request has any. `PollBoard!FairSpec` is weak
fairness of the expiry of a cache entry, which Redis does by itself; a handler may stay
away for ever, also between a tally and storing it. `CachesCatchUp` speaks of the
behaviours in which writing stops, which the bounds make all of them.

Each property has a mutant: a definition named as faulty, next to the one it
stands for, that a plausible bug would turn the original into, and under which TLC
finds the property violated.

## 4. What is proved

`CastVoteProofs` proves, for any number of voters, polls, answers, requests,
processes and connections, and any windows, from `ConstantsAssumption` alone:
`TypeOK`, `OneVotePerVoter`, `CheckedVoterStaysFree`, `AcceptedIffStored`,
`ConflictIsTrue`, `StoredVotesLegal`, `ResultsAddUp`, `LiveCodeUsable` and
`ImplementsLedger`.

The argument. `OneVotePerVoter` is not inductive: COMMIT adds a row without
looking at the table, so one must know that no row of the same voter and poll
came in since the check. The inductive invariant `IInv` therefore says:

1. the write lock is held exactly by the request between BEGIN and the end of its
   transaction, hence there is at most one such request;
2. a request past the duplicate check has no row of its voter and poll in the
   table (which only the holder of the lock can change);
3. a row with `by = r` is there exactly when `r` is past COMMIT and was not
   refused, and it is the row of `r`'s arguments; what `r` has been told agrees;
4. what a request has validated of its poll, ballot and time stamp still holds,
   for none of them changes;
5. the properties that are inductive with these: `OneVotePerVoter`,
   `ConflictIsTrue` and `StoredVotesLegal`.

`LiveCodeUsable` needs none of it and is an invariant of its own. Each of the steps of `Next` preserves it, by one step of the proof per action. For `ImplementsLedger`,
`Commit` maps to `Record` (2 gives its guard), `Respond` of a 201 to `Acknowledge`
(3 gives its guard), and every other step, a passcode request and a crash among
them, to a stutter. `ResultsAddUp` compares sizes of sets: for an answer, the map from
a counted element to its vote is an injection, because a legal ballot has no answer
twice; for a radio poll it is a bijection.

`VoterAuthProofs` proves, for any number of voters and attempts and any threshold and
times, from `AuthAssumption` alone: `TypeOK`, `LockWithFullCount`, `LockHasCause`,
`SpentCodeGone`, `VerifiedHasProof` and `ImplementsOneTime`. `LockWithFullCount` says that
a full count goes with a lock for a threshold above one only (section 6).

The argument. `LockHasCause` bounds from below the attempts that were answered 401
when a row says that the voter is locked. What `RecordFailure` writes is one more
than a count it read earlier, so the row alone is not enough: the invariant says
that a count in the table, *and one carried in `seen` by an attempt that has yet to
write it*, is at most the number of failed attempts for that voter, a number that no
step lowers and that the attempt itself raises as it writes. For `SpentCodeGone` the
invariant adds that no row and no guess is a code that was not issued yet, and that
an accepted guess is not NULL: a code gone from the table can then only come back by
being issued, and what is issued is new.

`OneTimeCodesProofs` proves of the abstract specification, for any people, that a code lets
in one person and is nobody's live code afterwards: no code is held before it is issued,
whether as the live one, as one found right or as one that let somebody in, only its
issue gives it to anybody, and it is held by one person ever after. There is no assumption.
`VoterAuthProofs` proves `ImplementsOneTime` (`CodesAreOneTime`), from the same invariant:
`RequestPasscode` maps to `Issue`, a `CheckCode` that succeeds to `Check`, a `MarkVerified`
to `Grant` or, when it fails, to `GiveUp`, a crash past the check to `GiveUp` or, when
another attempt has found the same code right, to a stutter, `ConsumeCode` and `Tick` to
`Withdraw`, and every statement of the lockout to a stutter. `CodesOfOneVoter` then carries
the abstract result over: two successes with one code are for one voter, and nobody can
be verified with it afterwards.

`VoteQueueProofs` proves, for any voters, polls, ballots, requests, batch size and
number of faults, from `QueueAssumption` alone: `TypeOK`, `OneVotePerVoter`,
`MarkerMeansVote`, `RefusedNeverCounted`, `NothingDroppedUndecided` and
`ImplementsLedger`. The invariant says that votes and entries come from requests that
are past every refusal, that a request is in the stream once, that the worker holds only
pending entries in the order of the stream, and what is known of the voter's vote at
each step that sets a marker.
For the refinement `ReceiptsHeld` adds that a request answered 201, or about to be, has
its own vote in the table. A commit, of a handler or of the worker, is then a `Record`
(with the receipt when it is the form's, which answers at once), the 201 after a marker
an `Acknowledge`, and a 202 is no receipt at all.

`AdminAccessProofs` proves, for any accounts, processes and calls, from
`AdminAssumption` alone: `TypeOK`, `SuperStays`, `RevokedForGood` and `ImplementsOneTime`.
What a call writes it has read earlier, so the invariant covers the calls in flight: no
version or code on its way to a browser is ahead of its row, and the row of the super
administrator is there before any process serves knowing one. That versions only grow
(`VersionsGrow`) then makes a revocation final. `CodesAreOneTime` is the refinement of
`OneTimeCodes`, where `IssueCode`, `Login` and `SpendCode` are `Issue`, `Check` and `Grant`,
and what starts, saves, changes and revokes is a stutter, for it leaves the codes in the
rows alone (`SameCodes`); `CodesOfOneAccount` is what follows. It speaks of logins: the
tokens that follow a change of password are no step of `OneTimeCodes`. That
spent codes leave the table (`SpentCodeGone`) is part of the invariant.

`PollBoardProofs` proves, for any polls, calls and windows, from `BoardAssumption`
alone: `TypeOK`, `ListIsHonest`, `FreshUnlessRaced` and `StatsNotBehind`. The invariant
says of a tally or a list on its way to the cache what the property says of the cached
one. `TextIsTime` is why texts in UTC, without blanks, compare as the times they stand for
when the clock is read to the second, which is as far as `ListIsHonest` goes.

`RateLimitProofs` proves, for any processes, pipelines, budget, window and patience,
from `LimitAssumption` alone: `TypeOK`, `BudgetKept` and `RefusedOverBudget`. The
invariant says that a process remembers every admitted request that is still inside the
window, so that what it counts bounds every window that ends now, and that what a
pipeline finds in Redis lies in the window of its own request. That a set of numbers has
a least element, which `Oldest` needs, comes from `WFMin`.

`RateLimitClientProofs` adds `WaitSuffices` and `SharedBudget`, from the same assumption.

- `WaitingSuffices`, for a client that waits as long as `Retry-After` says and the fraction
  of a second it leaves out, and in Redis for a budget above one. A refused client is told when the oldest visit that counts leaves the
  window. What the limiter remembered when it refused is gone later, so the invariant
  keeps it in terms of the log (`NoRoom`): of the requests before a refused one, those a
  process still remembers and that will be inside the window once the wait is over are
  fewer than the budget. Later steps only forget more of them. When the process refuses
  again, it remembers a full budget, so one of its visits is newer than the first
  refusal. `HeaderWaits` is why whole seconds, rounded down and at least one, fall short
  by less than a second. Redis always says a whole window, after which nothing from
  before the refusal is left.
- `SharedBudgetKept`. Each window `t` is followed from its first request: either it is
  `Whole`, and Redis has every request of it that counts, so that with the pipelines that
  found room before one another's ZADD there are at most the budget and the other
  pipelines; or a later request has cleared some of it, and it is `Over`: the time of the
  window is past, and only pipelines that were under way then can still join it. The step
  from the one to the other (`WholeStays`) is where the second pipeline per call comes
  from.

Only model-checked: the properties that need fairness (`WriteLockReleased`,
`OnlyAuditsStarve`, `EveryEntryRead`, `StartRecovers`, `CachesCatchUp`), which TLAPS
does not do. Every other property of a passing run is a theorem.

## 5. Reading order

`VoteLedger`, `CastVote`, then `CastVoteProofs` from its definition of `IInv`;
`VoteQueue`; `OneTimeCodes` before `VoterAuth` and `AdminAccess`; `PollBoard` and
`RateLimit` stand on their own. Each is followed by the definitions at the head of its proofs.

## 6. What the model found

- **A vote waits for its own connection** (`castvote_one_conn`). `CastVote` ends with
  `storage.LogAction` (`poll.go:345`), which executes a statement on the pool, while
  the connection of its transaction goes back only with the deferred `Close`. With
  `GOVOTE_DB_MAX_OPEN_CONNS` at 1, the default (`storage.go:50-58`) and the setting
  of the worker, the first vote that commits waits for ever, after COMMIT; the vote
  is stored, the client has no answer, and no other statement of the process gets a
  connection. With N connections it takes N votes at that line together.
- **The queue drops the votes it accepts** (`queue_skip`). `HandleVote` sets the
  marker after XADD (`api/handlers.go:498`) and the worker skips entries whose marker
  is set (`worker/vote_worker.go:81`). Unless the worker gets to the entry first, the
  vote answered with 202 is never stored, and the marker then answers 409 to another
  attempt.
- **Nothing retries a pending entry** (`queue_retry`). The worker leaves an entry
  unacknowledged "so it can be retried" (`vote_worker.go:95`) but reads only new ones.
- **Failed attempts are lost** (`lockout_lost`). `RecordFailure` "increments the failure
  counter for key and locks when threshold is reached" (`storage/lockout.go:66`), but
  reads the count in one statement and writes its successor in another
  (`lockout.go:76-109`): two failures at the same time count as one, whether both
  INSERT or both UPDATE. `LockHasCause` is the other direction, which holds: nobody is
  locked too early.
- **A poll is listed and cannot be opened** (`polls_window`). The form's dates are
  `datetime-local` (`views/polls.templ:121`); `HandleUICreatePoll` accepts them and
  stores them unchanged, although its comment speaks of appending `:00Z`
  (`ui/handlers.go:503`). The lists compare text and show the poll; `IsActive`
  (`poll/poll.go:19`) cannot parse the dates, so its page and every vote say that it is
  closed. `README.md:119` promises the list "only polls within their validation window".

One more disagreement is in the model and has no run: the token that ends a change of
password. `HandleAdminChangePassword` (`admin/handlers.go:236-276`) takes the account from
the session when there is one and from the form when there is none ("primeiro acesso"),
asks for no code, and answers with a session token of that account; the route asks for
neither (`server/router.go:68-69`). `storage/storage.go:296` says that login is "only via
temporary OTP", and `docker-compose.yaml:46-47` that it is by temporary password. In
`AdminAccess` these steps are `ChangePassword`, `RaiseVersion` and `RereadVersion`.
`RevokedForGood` and `SuperStays` cover their tokens; `ImplementsOneTime` speaks of logins
and passes without them.

Smaller things the models show, about which the repository says nothing. A UTC poll is
listed until the second after its end is over, for the lists format the time without its
fraction (`api/handlers.go:205`, `ui/handlers.go:298`), while `IsActive` closes it as its
end passes (`poll.go:20`, `32`). `validate.RFC3339Date` trims a date before it parses it
(`validate.go:144`) and `HandleCreatePoll` stores the date as it came
(`api/handlers.go:400-401`), so that a date with a blank is accepted, may be listed, and
closes its poll for good; `ListIsHonest` speaks of dates in UTC without blanks, and of the
beginning of a second. A worker that does not find Redis at its start returns
(`vote_worker.go:22-25`) and its process waits for a signal, so nothing starts it again;
one whose `ensureGroup` failed reads in vain. With a
threshold of 1 the first failure inserts a full count without a lock
(`lockout.go:82`), and only the second locks; `LockWithFullCount` excepts that
threshold. Two verifications at once may both succeed with one code, as the
SELECT and the UPDATE are apart, and so may two logins; `SpentCodeGone` and `OneTimeCodes` say
when that ends. A login clears whatever code its row has by then, also a newer one. An account
that is enabled again gets its old sessions back, for saving it leaves `token_version`
alone. A poll with an offset in its dates is listed by the digits of its text. `Retry-After` is
whole seconds, rounded down, so a client that waits exactly as long may be refused once
more. The window in Redis counts refused requests, so
a client that keeps asking is refused for ever, and the one in memory does not: `Against`
in `RateLimit` says which requests count for which. For the same reason a pipeline that
the Redis client sends again counts itself, and with a budget of one it is refused for
itself; `WaitSuffices` excepts that budget. Processes that share Redis exceed the budget by
up to twice the other pipelines under way, not once: some count before one another's ZADD,
and some are late and count after a pipeline of the next window has cleared theirs.

## 7. Order of work and what is left

The modules were written in the order of section 2, each model first, then its runs,
then its proofs; `OneTimeCodes` came when both modules with codes were there. What a next
step could add: the migration of `votes` under processes that start together; an abstract
specification of a cache for the two in `PollBoard`.

## 8. Not modelled

Templates, static files, routing, TLS, headers and CSRF tokens have no state that
the protocol depends on. Hashes and tokens are taken for what they promise:
`HashCPF` is deterministic and one to one, a salted hash is not, a signed token
carries what it was made from. The text checks of CPF, phone and passcode come before
any step modelled here, and how the rate limiter takes an address from the headers is
of that kind. Reading one poll, `CanAccessPoll`, the tables of the dashboard
(`HandleAdminStats`) and the pages of administrators are single reads. The schema is
there from the start: the rebuild of `votes` (`migrateVotesJSONCheck`) is one
transaction for databases older than its CHECK, and the checkpoint at shutdown changes
no row. Deployment, CI and load tests are configuration; what they set (pool sizes,
eviction, restart) is quoted where a model depends on it. Loss of the stream itself by
eviction is not modelled: whether Redis picks that key depends on what else it holds.
Dates of polls have whole seconds: RFC 3339 also allows a fraction, which a comparison of
texts orders in its own way.
