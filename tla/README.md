# A verification of ledger-ts

ledger-ts is a double-entry ledger over PostgreSQL (or PGlite): a TypeScript
program whose guarantees come from the order of its SQL statements, from row
locks and unique keys, and from what happens when a statement in the middle
fails.  This directory holds TLA+ modules of that program, the instances TLC
checks them on, and proofs TLAPS checks for every instance.

Paths below are relative to the repository (`engine/` is `src/engine/`).

## 1. The system

| component | state it keeps | operations | talks to |
|---|---|---|---|
| Write path, `engine/post.ts` | `ledger_transaction`, `ledger_entry`, `account_balance`, `outbox`, implicit period rows | `postTransaction`: validation, idempotency gate, period gate, account locks, entries, balances, event, COMMIT; `resolveDuplicate` | the database, the pool; called by the facade, HTTP and reversals |
| Chart of accounts, `engine/accounts.ts` | `ledger_account` | `createAccount`, `setAccountStatus`, `listAccounts` | reads by the write path under `FOR UPDATE` |
| Periods, `engine/periods.ts` | `ledger_period` | `openPeriod`, `setPeriodStatus`, `listPeriods`, `periodKeyFor` | reads by the write path under `FOR UPDATE` |
| Reversal, `engine/reverse.ts` | none of its own | lookups outside a transaction, then `postTransaction` | write path, `getTransaction` |
| Outbox relay, `engine/outbox.ts` | `outbox.published_at`, its timer | `drain`, `start`, `stop`, `pendingCount` | rows of the write path, a publisher |
| Reconciliation, `engine/recon.ts` | none | `reconcile` (four statements), `replayBalances` | everything the write path writes |
| Queries, `engine/query.ts` | none | `getTransaction`, `getBalance`, `listEntries`, `trialBalance` | read only |
| Connections, `db/open.ts` | the pool | `openDb`, `db.transaction()`, `close` | everything |
| Migrations, `db/open.ts` | `schema_migrations`, the schema itself | `migrate` | run by every process that starts |
| PGlite dialect, `db/pglite-dialect.ts` | one session and the FIFO of its waiters | acquire, begin, commit, rollback, release | Kysely |
| Money, canonical JSON, `money.ts`, `canonical.ts` | none | parse, format, hash | write path |
| HTTP and facade, `http/server.ts`, `engine/ledger.ts` | none between requests | one call of the ledger per route; `startServer`: migrate, start the relay, listen | ledger, relay |
| Row mapping, schema, demo | none | renaming, constants, a page | |

What is hard, and hardly tested: calls of `post()` interleave statement by
statement at READ COMMITTED; retries overlap the call they repeat; a reply is
lost after the COMMIT; administrators freeze and close while calls run; tenants
share account ids, which some keys are scoped by and some are not; several
relays read one outbox in which rows appear out of order; a relay dies between
marking and publishing; processes migrate one database at once and die between two
statements of it; a statement is read page by page while the log grows; callers of
the embedded database share one session.  `PROJECT.json` lists each hazard at its line with the
property that would catch it.

What makes each component correct:

* write path: a numbering without gaps, balances that are the sum of the log, all
  or nothing, one transaction per key, true refusals, no overdraft, no deadlock,
  an answer to every call;
* chart and periods: no commit under a status that forbids it;
* reversal: reverses once, cancels its original, dedupes;
* relay: every committed event, once, whatever the order rows appear in;
* reconciliation: no alarm without a cause, and the projection can be rebuilt;
* queries: a statement skips and repeats nothing and ends at the end, the balance
  shown before it is its sum, a trial balance sums to zero and can be read;
* money: what is written is read back, whichever digits it has;
* embedded database: one owner of the session, strict order, jobs whole and apart;
* migrations and start-up: each script once and in order, nobody serves a schema
  that is not complete, a restart succeeds.

## 2. The modules

| module | is |
|---|---|
| `AtomicLedger` | the promise: a posting happens at one instant or not at all, refusals are true when given |
| `WritePath` | `postTransaction` and the administrative statements, one action per statement |
| `WritePath_proofs` | theorems about the log, the gate and the locks of `WritePath` |
| `Posting_proofs` | theorems about what a posting leaves in the tables, and that no calls deadlock |
| `AtomicLedger_proofs` | that `WritePath` implements `AtomicLedger` |
| `NumberTheorems` | facts about sums over finite sets, counting up and division, for the proofs |
| `Reversal` | `reverseTransaction`, composed with the whole of `WritePath` |
| `Reversal_proofs` | theorems about `Reversal` |
| `Reconciliation` | `reconcile` and `replayBalances`, composed with `WritePath` |
| `Money` | amounts and their decimals: parse, format, what NUMERIC(28,8) renders |
| `Statements` | `getBalance`, `listEntries`, `trialBalance`, composed with `Reconciliation` and `Money` |
| `Statements_proofs` | theorems about `reconcile`, `replayBalances`, the derived reads and the decimals |
| `OutboxRelay` | drains, timers and processes over the rows of an outbox |
| `Startup` | `migrate`, `startServer` and the end of a process, composed with `OutboxRelay` |
| `Startup_proofs` | theorems about `Startup` and the relay in it |
| `SerialSession` | the promise of the embedded database: one job after the other |
| `SessionLock` | the PGlite dialect: the lock, its queue, BEGIN, COMMIT and ROLLBACK on one session |
| `SessionLock_proofs` | theorems about `SessionLock`, the refinement of `SerialSession` among them |
| `MC_*` | the requests, charts and bounds of the instances |

### WritePath

A call's place `pc[c]` names the statement it issues next; the actions are, in
the order of `post.ts`:

| action | code |
|---|---|
| `Submit` | `assertRequestValid`, before any connection is taken |
| `Begin` | `db.transaction()`: a connection of the pool |
| `IdempotencyGate` | `INSERT INTO ledger_transaction ... ON CONFLICT DO NOTHING` |
| `ResolveDuplicate` | `resolveDuplicate` and the end of its transaction |
| `CreatePeriod`, `LockPeriod` | the period's insert, then `SELECT ... FOR UPDATE` and its status |
| `LockAccount` | `SELECT ... FOR UPDATE` of one account, in id order, and its checks |
| `ReadSeq`, `InsertEntries` | `COALESCE(MAX(seq), 0)`, then the lines of that account |
| `ReadPosition`, `UpsertBalance` | the same read again, the upsert, the overdraft guard |
| `InsertOutbox` | the event, with an id of a sequence that is never rolled back |
| `Commit` | the deferred triggers, then everything at once |
| `Reply`, `Fail` | the caller hears of it, or the connection, process or reply is lost |
| `CreateAccount`, `SetAccountStatus`, `OpenPeriod`, `SetPeriodStatus` | one statement each, committed at once |

What the database does is modelled by its rules, not as a lock table: a call
*holds* what follows from its place (`HoldsKey`, `HoldsPeriod`, `HoldsAccount`,
its `pending` rows), and an action of another call is guarded by `KeyBusy`,
`PeriodBusy`, `AccountBusy`, `EntryBusy`, `BalanceBusy`.  A statement sees the
committed rows and those of its own transaction (`KeyRow`, `LogSeen`,
`PeriodSeen`).  A transaction that ends without COMMIT drops `pending[c]`.

Account ids are naturals so that `<=` is the order of the code's `sort()`.
`UNIQUE (account_id, seq)` and the primary key of `account_balance` have no
tenant, and neither have `entries` by account or `balances` here, while
`accounts` and keys are per tenant, as in the schema.

Abstractions, and why they lose nothing the properties tell apart:

* The id of a transaction (`randomUUID`) is the call that posts it.  A retry is
  another call with the same request.
* Amounts are integers (bigint), in the unit of the last decimal; the decimal
  strings they arrive and leave as are those of `Money`.
* `MaxAmount` is the largest amount the balance column takes: a delta or a sum that
  does not fit ends the transaction (`Fits`).
* `Payload` is exactly what `semanticPayloadHash` hashes, with the lines as a
  multiset; the hash is taken to be injective.
* The lines of one account are inserted by one action.  Between them the code
  reads nothing and takes no lock a rival could hold in part: a rival of the same
  index entries waits for the first of them already.
* Foreign keys take share locks on rows the call has locked or inserted itself,
  so they add no wait.
* The answer's balances and `correlationId` are left out.
* The parent lookup of `createAccount`, an update of a row that is absent and a
  malformed period key change nothing and are left out.
* A unique violation on `ledger_entry`, possible only between tenants, surfaces as
  a plain error of the driver: the caller is told `Unknown`.
* A crash of the process is `Fail` of each of its calls.
* The branch of `resolveDuplicate` that finds no row ("idempotency race") is not
  an action: at READ COMMITTED the row that caused the conflict is committed, and
  `ConflictIsReal`, proved below from the model's gate, shows the rest.

### Reversal

`Reverse`, `GetTransaction`, `LookUpKey`, `LookUpReversal` are the statements
`reverse.ts` issues before it posts, each over the rows committed when it runs;
the request it builds (`ReversalRequest`: negated lines, derived key, the time it
is, the policy `autoOpenPeriod` of the caller's ledger) then goes through `Submit` and
the whole of `WritePath`.  `OwnRequest` are the
requests callers post themselves; `Request` has those and the reversals.

### Reconciliation

`ReadDrift`, `ReadGaps`, `ReadUnbalanced`, `ReadGlobalSum` are the four
statements, interleaved with all actions of `WritePath`.

### Statements and Money

One reader issues `GetBalance`, then `ListEntries` until `next_after_seq` is null
(each page with any limit of `LimitInput`), or `TrialBalance`, or the steps of
`reconcile`, between the statements of the calls that post.  `PageSize` is the
clamp of `query.ts:42`, `EntriesAfter` the query, one row more than the page is
read.  `TrialBalance` reads rows (the sums the database renders) and parses them:
`ParseAmount` is a function on digits and may answer `MoneyError`.  Signs, integer
and fraction digits are sequences of digits; the widths `IntegerDigits` and
`Decimals` are constants (20 and 8 in the code, `WidthAssumption` ties them to
`MaxAmount`), so that a run reaches the limit with small amounts.  Requests carry
amounts `parseAmount` has read (`validate.ts:71-78`), so none has more digits than
that (`ParsedAssumption`).  `NumberOf` is a recursive function, and a power of ten is
the number of a 1 and zeros: what is checked is what is proved about.

`listEntries` declares a `periodKey` (`query.ts:40`), as the route does
(`http/server.ts:139`), and neither reads it; the model has none.  `listAccounts`,
`getAccount` and `listPeriods` are one statement that filters and are left out.

### OutboxRelay

The write path is seen from the table: an event id is drawn, later its row is
committed or never appears.  `Tick` is the interval timer, which does not wait for
the drain before; `Select` (`FOR UPDATE SKIP LOCKED`), `Mark`, `Commit`,
`Publish` are the steps of a drain.  `DrainFails` ends one drain wherever it is (a
statement fails, the publisher throws), `Crash` all drains of a process and its timer.
A batch is a set: the code orders it by event id, and `Publish` takes the least.
`lost` is a history variable, which no action reads: the events a failure took from a
drain between its COMMIT and the publisher.

### Startup

A process is off, at one of the statements of `migrate` (`boot[p]`), or up.

| action | code |
|---|---|
| `StartServer` | `startServer` calls `Ledger.create`, that calls `migrate` |
| `LookForTable`, `CreateTable` | `CREATE TABLE IF NOT EXISTS schema_migrations`, which is not atomic: of two that find no table the later one fails |
| `ReadApplied` | `SELECT name`, and the files that are not among them |
| `ExecScript` | the next file, one implicit transaction: it fails when its objects exist or those of its predecessor do not |
| `InsertRow` | its row in `schema_migrations`, a transaction of its own |
| `Serve` | the loop is over: `relay.start()` and `listen()` |
| `Close` | `relay.stop()` and `close()`: drains under way go on, and the process has ended when they have |
| `Die` | a kill, or a port in use |
| `Work` | the relay and the postings of processes that are up |

When a statement of `migrate` fails the process exits (`Exit`).

### SessionLock

A client is one `PgliteConnection` with one job: a transaction of `Statements`
statements, or a plain statement.  An action is one query of the session or one
turn of the program between two awaits:

| action | code |
|---|---|
| `Acquire` | `SessionLock.acquire()`: take the lock or queue |
| `Begin` | the rest of `beginTransaction` |
| `Execute`, `StatementFails` | `executeQuery`, in whatever transaction the session has open |
| `CallbackThrows` | the caller's code throws |
| `Commit`, `CommitRefused` | `COMMIT`; a deferred trigger may refuse it |
| `Rollback` | `ROLLBACK`, of whatever transaction is open |
| `Release` | the `finally`: hand the lock to the next waiter or free it, answer |

`Flagged`, part of `TypeOK`, is the comment on `inTransaction` (line 73): the flag by
which `executeQuery` knows whether its client has the lock is set while a callback
runs and until its COMMIT is settled, and never for a plain statement.

What Kysely does around the driver is external: it sends ROLLBACK whenever
something threw after BEGIN, a refused COMMIT included.

## 3. The abstract specifications

`AtomicLedger` has no statement, lock or transaction.  `Post(c)` moves a whole
request into the log of each account at one instant, under statuses that hold
then; `Tell` may refuse only with a `Reason` that is true at that instant;
`Administer` changes one status.  `WritePath` implements it under the refinement
mapping at the end of the module: the abstract log of an account is its entries in
`seq` order, the abstract book its stored balance, `posted` the committed
transactions.  That the log can be read off in `seq` order and that the abstract
`Post` coincides with `Commit` is the content of `ImplementsAtomicLedger`, which runs
check and `AtomicLedger_proofs` proves.  `Post` guards the balances that move: the
first attempt at the proof failed on an account whose lines cancel out, for which
`post.ts:188-190` skips the upsert and the overdraft guard with it, and the promise
was corrected to say so.

`SerialSession` has no lock, queue or transaction either: a job's rows appear at
one instant, all or none, and its caller is then told which.  `SessionLock`
implements it (with the identity on `database` and `answer`) as long as no COMMIT
is refused; section 6 says what happens then.

`Startup` restricts `OutboxRelay`: every behaviour of it is one of the relay
(`BootRefinesRelay`), so the relay's theorems are stated of `BootSpec`.

## 4. The runs

| run | instance | shows |
|---|---|---|
| `posting` | 3 calls, 2 tenants with the same 2 account ids, 2 months, 6 requests, 3 connections; 212 000 states | the safety of the tables and answers, `NoDeadlock`, `ImplementsAtomicLedger` |
| `administration` | 2 calls, 1 tenant, an account created late, all statuses moving, requests refused for each reason; 88 000 states | `CommitRespectsStatuses`, `ImplementsAtomicLedger` |
| `reconcile` | 2 calls in cents, balances of at most 9.99, pages of at most 2, beside a reader that reconciles, walks statements and takes trial balances; 42 000 states | `NoFalseAlarm`, statements, trial balances, decimals |
| `reversal` | an original and two reversals, derived and given keys, two policies, an account created late; 148 000 states | reverses once, cancels, dedupes, and every call is answered |
| `relay` | 2 processes, 3 drains, 3 events, 2 scripts, 1 failure; 396 000 states | migrated in order, once, in any order of ids, nothing lost but what a failure takes after a COMMIT, all else delivered, restarts serve |
| `session` | 3 transactions of 2 statements and a plain statement, 1 refused COMMIT; 51 000 states | one owner, in order, alone, `SerialSession`, everybody answered |
| `replay`, `tenant_gaps`, `reversal_race`, `reversal_retry`, `relay_crash`, `session_rollback` | | findings, section 6 |

Why these bounds.  Two calls are enough for each race of one step against
another; the third one makes circular waits, a retry of a retry and a queue behind
a lock possible.  Two accounts make every order of locks; two lines on one account
make `seq` skip inside a call.  Two tenants with equal ids are the case where keys
are narrower than the rows they protect.  Two months make calls meet on accounts
and not on the period first, which would serialise them.  Amounts reach overdraft,
zero net and exact zero balance.  The requests are listed with their purpose in
`MC_WritePath`.  Administrators move between two statuses (`AccountInput`,
`PeriodInput`): those the code tells apart.  Three events in batches of two make a
full batch and a rest; two drains of one process let the timer fire during a drain.
Two scripts are the least that have an order.  Three transactions queue behind an
owner with one waiter ahead of another.  Widths of one integer digit and two
decimals let three amounts reach a balance that does not fit, and a page of two
makes a walk of several pages over the four entries a log can have.

Symmetry under permutations of `Call` is used where no run is about liveness and
no `CHOOSE` over calls has more than one candidate; the properties and the
refinement are symmetric in `Call`.  Runs about liveness use none.

`CHECK_DEADLOCK FALSE` everywhere: each call is made once, and when all are done
nothing is left to do; a relay and a server may come to rest, too.  That calls
never block one another is `NoDeadlock`, `EveryCallAnswered` and
`EveryClientAnswered`.

`NoFalseAlarm` is about requests whose lines do not cancel out on an account, of
one tenant per account id; the runs `replay` and `tenant_gaps` show what
`reconcile()` reports otherwise.  The run `reconcile` has one tenant, so what statements
and trial balances show on an id that tenants share is outside it; the theorems on
reads say which of them need `OwnIds`, that there is no such id (section 5).

### Fairness

All of it is weak fairness, of the next statement of one caller or process:

* `RevFairSpec`: of `RevStep(c)`, the steps of a call that has been made.  The
  database grants a row that is free to a waiter, and the program awaits every
  statement.  Callers need not call, administrators need not act, and nothing
  forces or forbids failures.
* `FairSpec` of `OutboxRelay`: of a drain's steps (awaited statements, an awaited
  publisher) and the tick of a timer that is set.  `DeliveredUnlessLost` supposes
  that some process keeps its timer set in the end, and excepts the events in `lost`;
  a failure at any other place, a crash included, delays an event and no more.
* `BootFairSpec`: the same, and of the statements of a `migrate` that was begun.
  Nobody need start a server.  `RestartsServe` supposes that the process is started
  again whenever it is off, and is in the end alone, and excepts a script left
  without its row.
* `FairSpec` of `SessionLock`: of the steps of a client that has the lock.  That
  waiters get it is what `EveryClientAnswered` shows.

`EveryCallAnswered` and `DeliveredUnlessLost` are written `[]<>(p => q)` where
`p ~> q` is meant: `q` is never undone there, so the two are the same, and TLC
checks the first one faster.

### Faults

A definition whose comment begins with "Fault:" is a bug that could plausibly be
written in the place of the definition below it.  Put there, it breaks the
property of its row, so each property depends on the line of code it is about.

| property | broken by |
|---|---|
| `TypeOK`, `BootTypeOK` | `HighestSeqFromMinusOne`, `BeginUnflagged`: `inTransaction` not set, `FirstBatchByPosition` |
| `SeqDense` | `HighestSeqFromOne` |
| `SeqTakenOnlyAcrossTenants` | `AccountNeverBusy`: accounts read without `FOR UPDATE` |
| `BalanceIsSumOfLog` | `NewBalanceOverwrites` |
| `AssetsNeverNegative` | `SpendableUnchecked`: no trigger of migration 002 |
| `AllOrNothing` | `InsertOutboxOnPool`: the event outside the transaction |
| `IdempotencyOnce`, `DerivedKeyReversesOnce` | `KeyNeverBusy`: no unique key to wait on |
| `ConflictIsReal` | `IdempotencyGateNoWait` |
| `EventsFollowLog` | `InsertOutboxCached`: a sequence with a cache |
| `NoDeadlock` | `IsNextByDebit`: accounts locked in another order |
| `CommitRespectsStatuses` | `AccountNeverLocked` |
| `ImplementsAtomicLedger` | `AccountErrorNoCurrency`, `NewBalanceOverwrites` |
| `EveryCallAnswered` | `ResolveDuplicateOnPool`: a second connection inside a transaction |
| `NoFalseAlarm` | `DriftDirty` |
| `ReversalCancelsOriginal` | `ReversalRequestUnnegated` |
| `DuplicateIsReversal` | `LookUpKeyOnly` |
| `AtMostOnceAfterCommit` | `PendingUnlocked`: no `SKIP LOCKED` |
| `MarkedIsAccountedFor` | `AfterFirstStop`: the loop ends after one event |
| `DeliveredUnlessLost` | `PendingByCursor`: reading past the largest id seen |
| `MigratedInOrder` | `ExecScriptNotAwaited` |
| `RestartsServe` | `ReadAppliedIgnored`: every script at every start |
| `StatementIsPrefix` | `EntriesFrom`: `>=` for `>` |
| `StatementEndsAtEnd` | `PageSizeUnclamped`: a page of no rows |
| `BalanceMatchesStatement` | `NewBalanceOverwrites` |
| `TrialBalanceConserved` | `TrialBalanceByAccount`: a query for each account |
| `TrialBalanceReadable` | `FitsAlways`: a balance column without a width |
| `AmountsRoundTrip` | `FormatAmountUnpadded`: 1.05 written as 1.5 |
| `OneOwner` | `ReleaseAndFree`: the lock freed although handed on |
| `FirstComeFirstServed` | `ReleaseLast` |
| `RunsAlone` | `AcquireUnchecked` |
| `ImplementsSerialSession` | `RollbackNotSent` |
| `EveryClientAnswered` | `ReleaseUnlessFailed`: no `finally` |

`SeqDense` does not break with `AccountNeverBusy`: the numbering rests on the
unique index, and the account lock only spares the calls the violation.

## 5. What is proved

### The write path

`WritePath_proofs` proves, for any finite set of calls and any tenants, accounts,
periods, requests and pool:

| theorem | states |
|---|---|
| `TypeCorrect` | `Spec => []TypeOK` |
| `LogIsDense` | `Spec => []SeqDense` |
| `OnceForEachKey` | `Spec => []IdempotencyOnce` |
| `ConflictsAreReal` | `Spec => []ConflictIsReal` |
| `CommitsRespectStatuses` | `Spec => CommitRespectsStatuses` |

Assumptions, all named in `WritePath`: calls are finite in number and `None` is not
one; accounts are naturals; `PeriodOf` is a function into the periods; every
request has the shape `RequestType` gives it (integer lines, at least one for each
account it touches); charts and inputs have their types; the pool is not empty;
`MaxAmount` is a natural and `None` no balance.  That the net of a request on an
account is an integer is no assumption: `NetType` proves it.

**The log.** Density is not inductive: it says nothing of a call that has read
`MAX(seq)` and not yet used it.  `LogInv` adds that what each call *sees* of a
log is numbered 1 to m (`LogsNumbered`), that at most one call at a time has
uncommitted rows in one log, and that the number a call has read belongs to a row
that is still there (`BaseInLog`).  The step that matters is the insert
(`AppendContinues`): if the number read is no longer the last, the next row exists
and the insert violates the unique key; if another call has uncommitted rows
there, one of them has just that number and the insert waits.  So the two calls
never both append, whichever tenants they belong to.  The proof does not use the
account lock, which is the point made at the end of section 4.

**The gate.** `GateInv`: of all calls whose row of `ledger_transaction` exists,
committed or not, no two have one key (`OneClaim`); who was sent to resolve a
duplicate finds a committed row (`ResolveFinds`), and there is only one to find.
Then whatever is told under a key is the one transaction, and a conflict is one.

**The locks.** `LockInv`: past its `FOR UPDATE`, a call still sees its period OPEN
and each account it has visited ACTIVE, because an administrator's update of those
rows waits.  `CommitRespectsStatuses` is the instance of it at COMMIT.

### What a posting leaves

`Posting_proofs` goes on from `LogInv`, under the same assumptions:

| theorem | states |
|---|---|
| `SeqFreeInsideTenant` | `Spec => []SeqTakenOnlyAcrossTenants` |
| `PostingIsAtomic` | `Spec => []AllOrNothing` |
| `EventsInLogOrder` | `Spec => []EventsFollowLog` |
| `AssetsStayCovered` | `Spec => []AssetsNeverNegative` |
| `BalanceSumsItsLog` | `Spec => []BalanceIsSumOfLog` |
| `NoCallsDeadlock` | `Spec => []NoDeadlock` |

**Account locks.** Here the account lock counts.  `HoldInv`: one call holds an account
row of a tenant, every row in the log is of its transaction's tenant, and the
`MAX(seq)` a call has read is above all committed rows of its own tenant, because who
could add one would have to hold the lock.  So only tenants that share an id collide.

**All or nothing.** `AllOrNothing` says nothing of a call half way.  `WholeInv` says
that on each account a call has passed, its pending rows are the lines of its
request, numbered side by side, and keeps that at COMMIT, with one event.

**Events.** `EventsFollowLog` compares ids drawn before the COMMIT.  `DrawnAfterLog`
is what makes it inductive: a call that has drawn its id still has the last rows of
its logs, pending, so whatever continues them draws later.

**Balances.** The upsert adds to the row it finds.  `BalanceInv` says what an
uncommitted balance is: the committed one plus the net of the request.  That stays
true because no second call has an uncommitted balance of that account, and it needs
what a call has already settled (`Positioned`): where the lines cancel out there is
no balance and the net is 0.  At COMMIT the log grows by rows whose total is that
net (`NetIsTotal`).

**Deadlock.** `OrderInv` says that a call goes through its accounts by id and writes
its period before it locks anything further.  Then "has got further" is an order on
calls (`Stage`, and the least account to visit within a loop), and a call waits only
for one that has got further (`WaitsForFurther`), tenants with equal ids included.
A finite set of calls has one that none is further than.

### Sums and digits

The induction theorems of the library take an operator, which no prover here can
instantiate.  `NumberTheorems` argues by minimal counterexample instead: a non-empty
set of subsets of a finite set has a minimal member (`MinimalSubset`, from `WFMin`).
So it shows that the recursive function `MapThenSumSet` is defined by exists, that
its sum does not depend on the order of `CHOOSE` (`SumRemove`), that sums of disjoint
sets, of groups, of renamed and of negated terms are what they should be, that an
order on a finite set has a maximal element, and that one can count up (`CountUp`).

### The refinement of AtomicLedger

`AtomicLedger_proofs`: `PostingsAreAtomic` states `Spec => ImplementsAtomicLedger`.
Everything `Post` asks for was read by an earlier statement; the proof is that it is
still true at COMMIT.  `LockInv` keeps the statuses, `GateInv` the key, `WholeInv` and
`BalanceInv` make the rows those of the request, and `AtomicInv` adds what else a
call knows: its request is valid (`AskedValid`), the period row it inserts is absent
and nobody else inserts it (`PeriodsInserted`), what it has locked is in its currency
(`CurrenciesMatch`), what it has upserted is not overdrawn (`UpsertsCovered`).
Refusals are shown true statement by statement, every other step is a stutter.

### Reversals

`Reversal_proofs`, for any inputs of `reverse()` and any requests beside it:

| theorem | states |
|---|---|
| `DuplicatesAreReversals` | `RevSpec => []DuplicateIsReversal` |
| `DerivedKeysReverseOnce` | `RevSpec => []DerivedKeyReversesOnce` |
| `ReversalsCancel` | `RevSpec => []ReversalCancelsOriginal` |

The lookups run outside the transaction, so what they read may be false when the
reversal posts, save what never changes.  `RevInv` says exactly that much: the target
was committed, and is of the tenant (`TargetFound`), and the call asks for a reversal
of what it was given (`InputAsked`).  That no transaction is reversed twice under its
derived key rests on the gate alone (`OneClaim`), and does not follow for keys of the
caller's (`reversal_race`).  The last two theorems suppose `OwnNotReversals`: what
callers post themselves does not claim to reverse anything; the route has no such
field (`server.ts:152-165`), only `reverse.ts:80` fills it in.

### Reads

`Statements_proofs`, about `SSpec`, the readers beside the postings:

| theorem | states | supposing |
|---|---|---|
| `DenseInsideTenant` | `Spec => []DensePerTenant` | `OwnIds` |
| `ReplayIsStored` | `Spec => []ReplayMatchesStored` | `OwnIds`, `NothingCancels` |
| `ReportsAreTrue` | `SSpec => []NoFalseAlarm` | `OwnIds`, `NothingCancels` |
| `WalksReadPrefixes` | `SSpec => []StatementIsPrefix` | `OwnIds` |
| `BalancesMatchStatements` | `SSpec => []BalanceMatchesStatement` | `OwnIds` |
| `WalksEndAtEnd` | `SSpec => StatementEndsAtEnd` | `OwnIds` |
| `AmountsReadBack` | `SSpec => []AmountsRoundTrip` | |
| `TrialBalancesConserved` | `SSpec => []TrialBalanceConserved` | |
| `TrialBalancesReadable` | `SSpec => []TrialBalanceReadable` | `OwnIds` |

`OwnIds` says that no two tenants use one account id, `NothingCancels` that the lines
of a request on an account do not cancel out.  The code enforces neither.  The runs
`tenant_gaps` and `replay` refute `DensePerTenant` and `ReplayMatchesStored` on
requests that break them, and the first two theorems say that these are the only ways
to: the findings are delimited from both sides.

**The books.** `BooksInv` says how the tables fit after every COMMIT.  A stored
balance stands at an entry and is the sum of the log up to it (`BalanceAtSeq`), which
holds however lines cancel; it stands at the end of the log where nothing does
(`BalanceAtEnd`).  Each transaction, hence each tenant, sums to 0.  It needs
`BalancesPlaced`: the position an upsert writes is the end of the log with the rows
of its call, because a rival would need the index entries the call has inserted.

**Walks.** `WalkInv`: what a walk has read is the log from its beginning, `after_seq`
is its length, and the balance shown first is the sum up to an entry below the end of
the log.  Rows appear only at the end (`GrowsAtEnd`), so a page continues the walk
where it stood (`PageContinues`, which has the arithmetic of limits and pages).

**Decimals.** An amount has at most `IntegerDigits` digits before the point exactly
when it is below `TenTo(IntegerDigits + Decimals)`, and then `ParseAmount` gives it
back; otherwise it gives `MoneyError` (`ParseFormatAmount`, `ParseDbNumeric`, for every
integer and any number of digits, along Horner's rule counted up).  Entries are lines
of requests, and balances fit their column: `BalancesFit`, inductive because what the
column refuses is never pending.

**Trial balances.** A trial balance sums by account what the transactions of a tenant
and a period have written; summed by transaction it is 0 (`SumByGroup`, twice).  That
all periods together can be read needs `OwnIds`: the net is then a stored balance.
On a shared id one tenant's part may be larger than the balance it is a part of.

### The embedded database

`SessionLock_proofs` proves, for any clients, plain or not, any number of
statements and of refused COMMITs:

| theorem | states |
|---|---|
| `TypeCorrect` | `Spec => []TypeOK` |
| `OneOwnerCorrect` | `Spec => []OneOwner` |
| `FirstComeFirst` | `Spec => FirstComeFirstServed` |
| `RunsAloneCorrect` | `Spec => RunsAlone` |
| `SessionRefinement` | `Spec => ImplementsSerialSession` |

`OneOwner` is not inductive: it does not say what the owner is doing.  `QueueInv`
says that the queue is exactly those who wait, each once, and needs nothing else,
so it and `FirstComeFirstServed` survive a refused COMMIT.  Until one is refused,
`LockInv` says that at most one client is at a place where it owns the lock and
the lock is held just then, `TransactionInv` that the session's open transaction
is that client's and holds the rows it has executed so far, and `DataInv` that what
is committed of a client is all of its rows or none, as its place says.  Then the
one step that commits (of a transaction or a plain statement) is `Perform` of
`SerialSession`, `Release` is `Accept` or `Reject`, and all others stutter.  The
assumptions are `ClientAssumption` and `BoundAssumption`.

### The relay and the migrations

`Startup_proofs` proves, for any number of processes, drains, events, failures and
scripts and any batch size:

| theorem | states |
|---|---|
| `BootRefinesRelay` | `BootSpec => Spec`, the relay's own specification |
| `AtMostOnceCorrect` | `BootSpec => []AtMostOnceAfterCommit` |
| `MarkedCorrect` | `BootSpec => []MarkedIsAccountedFor` |
| `BootTypeCorrect` | `BootSpec => []BootTypeOK` |
| `MigrationsInOrder` | `BootSpec => []MigratedInOrder` |

`BatchInv` says where an event is: batches are disjoint; before its commit the rows
of a batch are committed by their postings and not published (`SKIP LOCKED` hides
them from other drains), after it they are published and not handed over.  A call
of the publisher therefore delivers something new, and the event leaves its batch.
A failure drops batches: before the commit their rows are pending again, after it they
are published, go to `lost` and are in no batch ever again.  So `MarkedIsAccountedFor`
holds with failures: the marked rows are the delivered, the held and the lost ones, and
nothing lost is delivered.

`MigratedInOrder` is not inductive because a process works from the list it read at
its start, which may be old.  `ListInv` adds that what is not on its list is
recorded, and that a process about to write a row has executed that script.  A
script runs only if all before it ran, and those before it are off the list, hence
recorded: so at most the last script is ever without its row.  Two processes with
the same list are kept apart by nothing but the failure of the second execution.
The assumptions are `RelayAssumption` and `FilesAssumption`.

### Only model-checked

Every safety property, action property and refinement a passing run checks is stated
by a theorem.  Four properties are not: `EveryCallAnswered`, `DeliveredUnlessLost`,
`RestartsServe` and `EveryClientAnswered`.  They are liveness under fairness, which
needs ENABLED, and no prover here handles it.  Of the state predicates the six
violation runs refute, `DensePerTenant` and `ReplayMatchesStored` are proved under the
hypotheses named above.

## 6. Findings

Each is a run that ends in a counterexample to what the repository says.

* `replay`: a posting whose lines cancel out on an account appends to the log and
  skips the balance upsert (`post.ts:187`), so the projection rebuilt from the log
  is not the stored one (`docs/architecture.md:140`), and `reconcile()` reports
  drift on a sound ledger.
* `tenant_gaps`: `seq` is numbered per account id over all tenants
  (`post.ts:167`, `001_init.sql:76`); `domain.ts:47` calls it dense per account,
  `README.md:188` calls every query tenant-scoped.  Two tenants with one id each see
  gaps, and `reconcile()` reports them.
* `reversal_race`: two reversals of one transaction under different keys both pass
  the check of `reverse.ts:54` and both commit
  (`test/periods-reversal.test.ts:86` says the second is rejected).
* `reversal_retry`: of two overlapping reversals of one transaction without key and
  time, the second is refused with `IDEMPOTENCY_CONFLICT`: its key is derived and the
  same, its default time (`reverse.ts:73`) is its own and part of what the key stands
  for.  `docs/architecture.md:109-110` says that it dedupes.  (If the first commits
  between the two lookups of the second, `reverse.ts:40` and `54`, the second is refused
  with `ALREADY_REVERSED` instead, whatever its time; the run is not about that.)
* `relay_crash`: `drain()` commits `published_at` before it publishes
  (`outbox.ts:68`), so a crash or a throw in between loses the events that
  `outbox.ts:6-8` says are never lost.
* `session_rollback`: a COMMIT that a deferred trigger refuses releases the session
  lock in its `finally` (`pglite-dialect.ts:119`); the ROLLBACK that Kysely then sends
  meets the next owner's transaction, whose rows are gone while its caller is told
  that it committed (`pglite-dialect.ts:18-20` says the lock prevents just that).

Two more things the runs rely on and a reader should know.  A process that dies
between a script and its row leaves a database on which no server starts any more
until somebody repairs `schema_migrations` (`open.ts:123-124`): the exception in
`RestartsServe`.  The net of one period may have more digits than `parseAmount`
takes, which makes its trial balance an error: `TrialBalanceReadable` is about
trial balances of all periods.

## 7. Not modelled, and what is left

Not modelled:

* row mapping (`engine/rows.ts`, `db/schema.ts`, `types.ts`): renaming and type
  conversion without a decision; the amounts it converts are those of `Money`;
* HTTP parsing, status codes and serialisation, the demo page and script: they keep
  no state, a route is one call of the ledger;
* `canonicalJson` (`canonical.ts`): `Payload` compares what it is given, so key order
  and hashing are abstracted, and sha256 is taken to be injective;
* the parent lookup of `createAccount`, private schemas of test suites (`db/open.ts`),
  and statements that filter and decide nothing (`listAccounts`, `listPeriods`,
  `pendingCount`).

What is left: liveness stays with TLC; for the findings on reversals and relays
(`reversal_race`, `reversal_retry`, `relay_crash`, `session_rollback`) one could prove,
as is done for `replay` and `tenant_gaps`, under which hypotheses the promise holds.

## 8. Running it

    tlc -config MC_Posting.cfg MC_WritePath
    tlapm WritePath_proofs.tla

    tlc -config MC_Relay.cfg MC_Startup
    tlapm Startup_proofs.tla

    tlc -config MC_Reconcile.cfg MC_Statements
    tlapm Statements_proofs.tla

Each run takes less than a minute or two, all proofs together about ten minutes.
