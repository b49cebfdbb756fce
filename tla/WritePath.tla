----------------------------- MODULE WritePath -----------------------------
(***************************************************************************)
(* The ledger's write path: concurrent calls of postTransaction            *)
(* (src/src/engine/post.ts) and the administrative statements of           *)
(* accounts.ts and periods.ts, over the tables of migrations/001_init.sql  *)
(* and 002_spendable_guard.sql.                                            *)
(*                                                                         *)
(* One action is one SQL statement, or one turn of the program between two *)
(* statements.  The database runs at READ COMMITTED: a statement sees the  *)
(* committed rows and its own transaction's rows, row locks and unfinished *)
(* inserts of a unique key make others wait, and all are released at the   *)
(* end of the transaction.  A lock is not a variable: who holds one        *)
(* follows from how far each call has come.                                *)
(*                                                                         *)
(* The id of a new transaction (randomUUID) is the call that posts it; a   *)
(* caller's retry is another call with the same request.                   *)
(*                                                                         *)
(* A definition whose comment starts with "Fault:" is not part of the      *)
(* model.  It is what the definition below it would be if the code had the *)
(* bug named there; README.md says which property each of them breaks.     *)
(***************************************************************************)
EXTENDS Integers, Sequences, FiniteSets, FiniteSetsExt

CONSTANTS
    Call,           \* the calls of post()
    Tenant,
    Account,        \* account ids: naturals, so that the code's sort() is <
    Period,         \* period keys, 'YYYY-MM'
    Instant,        \* business times
    PeriodOf,       \* periodKeyFor: [Instant -> Period]
    Request,        \* the requests callers may submit
    AccountType,    \* [Tenant \X Account -> type]
    CurrencyOf,     \* [Tenant \X Account -> currency]
    InitialChart,   \* the chart of accounts at start: [Tenant \X Account -> status]
    AccountInput,   \* statuses administrators set on accounts
    PeriodInput,    \* statuses administrators set on periods
    ManagedPeriods, \* the periods administrators open and close: SUBSET (Tenant \X Period)
    PoolSize,       \* connections of the pool (open.ts)
    MaxAmount,      \* the largest amount that fits NUMERIC(28,8), in units of the last digit
    None            \* no row, no request

AccountStatus == {"ACTIVE", "FROZEN", "CLOSED"}
PeriodStatus == {"OPEN", "PRECLOSED", "CLOSED", "LOCKED"}

\* A row of account_balance, and a row of ledger_entry (its transaction is a call).
BalanceRow == [tenant : Tenant, seq : Nat, amount : Int]
Entry == [tx : Call, tenant : Tenant, account : Account, amount : Int, seq : Nat \ {0}]

\* What an open transaction has written and not yet committed.
NoWrites == [period |-> FALSE, entries |-> {}, balances |-> [a \in Account |-> None], event |-> 0]
Writes == [period : BOOLEAN, entries : SUBSET Entry,
           balances : [Account -> BalanceRow \cup {None}], event : Nat]

(***************************************************************************)
(* Requests.  legs[a] is the sequence of the amounts of the lines on       *)
(* account a, in the order of the request; memo stands for description and *)
(* metadata; auto is the posting policy's autoCreatePeriod.                *)
(***************************************************************************)
Lines(r) == UNION {{<<a, i>> : i \in DOMAIN r.legs[a]} : a \in DOMAIN r.legs}
LineAmount(r, l) == r.legs[l[1]][l[2]]
Net(r, a) == MapThenSumSet(LAMBDA i : r.legs[a][i], DOMAIN r.legs[a])
SameKey(r, s) == r.tenant = s.tenant /\ r.key = s.key
PostingPeriod(r) == PeriodOf[r.occurred]

\* How often each amount occurs: the lines are sorted before they are hashed.
Occurrences(amounts) ==
    LET Count(x) == Cardinality({i \in DOMAIN amounts : amounts[i] = x})
    IN  {<<amounts[i], Count(amounts[i])>> : i \in DOMAIN amounts}

\* semanticPayloadHash, compared.
Payload(r) ==
    <<r.kind, r.currency, r.occurred, r.memo, r.reverses,
      [a \in DOMAIN r.legs |-> Occurrences(r.legs[a])]>>

\* assertRequestValid: "" or the code it throws.
ValidationError(r) ==
    IF \/ Cardinality(Lines(r)) < 2
       \/ \E l \in Lines(r) : LineAmount(r, l) = 0
    THEN "VALIDATION_FAILED"
    ELSE IF MapThenSumSet(LAMBDA l : LineAmount(r, l), Lines(r)) # 0
         THEN "UNBALANCED_ENTRY"
         ELSE IF Cardinality(DOMAIN r.legs) < 2 THEN "VALIDATION_FAILED" ELSE ""

RequestType(r) ==
    /\ r.tenant \in Tenant /\ r.occurred \in Instant /\ r.auto \in BOOLEAN
    /\ r.reverses \in Call \cup {None}
    /\ DOMAIN r.legs \subseteq Account /\ IsFiniteSet(DOMAIN r.legs)
    /\ \A a \in DOMAIN r.legs : r.legs[a] \in Seq(Int) \ {<<>>}

ASSUME CallAssumption == IsFiniteSet(Call) /\ None \notin Call
ASSUME AccountAssumption == Account \subseteq Nat
ASSUME PeriodAssumption == PeriodOf \in [Instant -> Period]
ASSUME RequestAssumption == None \notin Request /\ \A r \in Request : RequestType(r)
ASSUME ChartAssumption == InitialChart \in [Tenant \X Account -> AccountStatus \cup {"ABSENT"}]
ASSUME InputAssumption ==
    /\ AccountInput \subseteq AccountStatus /\ PeriodInput \subseteq PeriodStatus
    /\ ManagedPeriods \subseteq Tenant \X Period
ASSUME PoolAssumption == PoolSize \in Nat \ {0}
ASSUME AmountAssumption == MaxAmount \in Nat
ASSUME NoneAssumption == None \notin BalanceRow

VARIABLES
    accounts,       \* ledger_account.status by <<tenant, account>>, or "ABSENT"
    periods,        \* ledger_period.status by <<tenant, period>>, or "ABSENT"
    transactions,   \* ledger_transaction: the ids of the committed rows
    entries,        \* ledger_entry: the committed log
    balances,       \* account_balance by its primary key, account_id
    outbox,         \* outbox: records [event, tx]
    nextEvent,      \* outbox_event_seq: never rolled back
    pc,             \* how far each call has come
    req,            \* what it was asked to post
    todo,           \* accounts its current loop has still to visit
    base,           \* the MAX(seq) it read last
    pending,        \* its uncommitted writes
    answer          \* what its caller was told

tables == <<accounts, periods, transactions, entries, balances, outbox>>
vars == <<accounts, periods, transactions, entries, balances, outbox, nextEvent,
          pc, req, todo, base, pending, answer>>

\* The places of a call inside db.transaction(), in order.
InTransaction == {"gate", "resolve", "createPeriod", "lockPeriod", "lockAccounts", "readSeq",
                  "insertEntries", "readPosition", "upsertBalance", "insertOutbox", "commit"}
PastPeriodLock == {"lockAccounts", "readSeq", "insertEntries", "readPosition", "upsertBalance",
                   "insertOutbox", "commit"}
PastAccountLocks == PastPeriodLock \ {"lockAccounts"}
PastGate == PastPeriodLock \cup {"createPeriod", "lockPeriod"}
Place == InTransaction \cup {"idle", "begin", "reply", "done"}

\* LedgerErrorCode; "" where there is no error.
Code == {"", "VALIDATION_FAILED", "UNBALANCED_ENTRY", "IDEMPOTENCY_CONFLICT", "ACCOUNT_NOT_FOUND",
         "ACCOUNT_NOT_ACTIVE", "CURRENCY_MISMATCH", "PERIOD_NOT_OPEN", "PERIOD_NOT_FOUND",
         "INSUFFICIENT_FUNDS", "TRANSACTION_NOT_FOUND", "ALREADY_REVERSED"}
NoAnswer == [kind |-> "none", tx |-> None, code |-> ""]
Refused(code) == [kind |-> "refused", tx |-> None, code |-> code]
Returned(kind, tx) == [kind |-> kind, tx |-> tx, code |-> ""]
Unknown == [kind |-> "unknown", tx |-> None, code |-> ""]
Answer == [kind : {"none", "posted", "duplicate", "refused", "unknown"},
           tx : Call \cup {None}, code : Code]

Open == {c \in Call : pc[c] \in InTransaction}
FreeConnection == Cardinality(Open) < PoolSize

TouchedBy(c) == DOMAIN req[c].legs

\* Fault: the debited account is locked first.
IsNextByDebit(c, a) ==
    a \in todo[c] /\ \A b \in todo[c] : Net(req[c], a) <= Net(req[c], b)

\* The account a loop over the sorted account ids visits next.
IsNext(c, a) == a \in todo[c] /\ \A b \in todo[c] : a <= b

(***************************************************************************)
(* Locks, read off the places of the calls.                                *)
(***************************************************************************)
HoldsKey(c, r) == pc[c] \in PastGate /\ SameKey(req[c], r)
HoldsNewPeriod(c, t, p) == pending[c].period /\ req[c].tenant = t /\ PostingPeriod(req[c]) = p
HoldsPeriod(c, t, p) == pc[c] \in PastPeriodLock /\ req[c].tenant = t /\ PostingPeriod(req[c]) = p
HoldsAccount(c, t, a) ==
    /\ req[c] # None /\ req[c].tenant = t /\ a \in TouchedBy(c)
    /\ pc[c] \in PastAccountLocks \/ (pc[c] = "lockAccounts" /\ a \notin todo[c])

\* Fault: the key is looked up and inserted without a unique index to wait on.
KeyNeverBusy(c) == FALSE

KeyBusy(c) == \E d \in Call \ {c} : HoldsKey(d, req[c])
NewPeriodBusy(c) == \E d \in Call \ {c} : HoldsNewPeriod(d, req[c].tenant, PostingPeriod(req[c]))
PeriodBusy(c) == \E d \in Call \ {c} : HoldsPeriod(d, req[c].tenant, PostingPeriod(req[c]))

\* Fault: accounts are read without FOR UPDATE.
AccountNeverBusy(c, a) == FALSE

AccountBusy(c, a) == \E d \in Call \ {c} : HoldsAccount(d, req[c].tenant, a)

\* UNIQUE (account_id, seq) and the primary key of account_balance are not
\* scoped by tenant, so these waits can be for a call of another tenant.
Collides(new, rows) == \E e \in new, f \in rows : f.account = e.account /\ f.seq = e.seq
EntryBusy(c, new) == \E d \in Call \ {c} : Collides(new, pending[d].entries)
BalanceBusy(c, a) == \E d \in Call \ {c} : pending[d].balances[a] # None

(***************************************************************************)
(* What a statement of call c sees.                                        *)
(***************************************************************************)
KeyRow(c) == {d \in transactions : SameKey(req[d], req[c])}
LogSeen(c, a) == {e \in entries \cup pending[c].entries : e.account = a}

\* Fault: COALESCE(MAX(seq), 1), or a default of -1.
HighestSeqFromOne(S) == IF S = {} THEN 1 ELSE Max({e.seq : e \in S})
HighestSeqFromMinusOne(S) == IF S = {} THEN -1 ELSE Max({e.seq : e \in S})

\* COALESCE(MAX(seq), 0)
HighestSeq(S) == IF S = {} THEN 0 ELSE Max({e.seq : e \in S})
PeriodSeen(c) ==
    IF pending[c].period THEN "OPEN" ELSE periods[<<req[c].tenant, PostingPeriod(req[c])>>]

\* The rows of the lines of call c on account a, numbered from m + 1.
EntriesAt(c, a, m) ==
    {[tx |-> c, tenant |-> req[c].tenant, account |-> a,
      amount |-> req[c].legs[a][i], seq |-> m + i] : i \in DOMAIN req[c].legs[a]}
NewEntries(c, a) == EntriesAt(c, a, base[c])

\* Fault: SET amount = EXCLUDED.amount.
NewBalanceOverwrites(c, a) ==
    [tenant |-> IF balances[a] = None THEN req[c].tenant ELSE balances[a].tenant,
     seq |-> base[c], amount |-> Net(req[c], a)]

NewBalance(c, a) ==
    IF balances[a] = None
    THEN [tenant |-> req[c].tenant, seq |-> base[c], amount |-> Net(req[c], a)]
    ELSE [tenant |-> balances[a].tenant, seq |-> base[c], amount |-> balances[a].amount + Net(req[c], a)]

-----------------------------------------------------------------------------
Init ==
    /\ accounts = InitialChart
    /\ periods = [x \in Tenant \X Period |-> "ABSENT"]
    /\ transactions = {} /\ entries = {} /\ outbox = {} /\ nextEvent = 1
    /\ balances = [a \in Account |-> None]
    /\ pc = [c \in Call |-> "idle"]
    /\ req = [c \in Call |-> None]
    /\ todo = [c \in Call |-> {}]
    /\ base = [c \in Call |-> 0]
    /\ pending = [c \in Call |-> NoWrites]
    /\ answer = [c \in Call |-> NoAnswer]

\* The call goes on to place p, with nothing else told to its caller.
Goto(c, p) == pc' = [pc EXCEPT ![c] = p] /\ UNCHANGED answer

\* The call ends with answer ans and its uncommitted writes are gone.
EndWith(c, ans) ==
    /\ pc' = [pc EXCEPT ![c] = "done"]
    /\ answer' = [answer EXCEPT ![c] = ans]
    /\ pending' = [pending EXCEPT ![c] = NoWrites]

\* A throw inside db.transaction(): ROLLBACK, and the error goes to the caller.
Refuse(c, code) == EndWith(c, Refused(code))

\* post(request) is called: gate 1, before any database is touched.
Submit(c, r) ==
    /\ pc[c] = "idle"
    /\ req' = [req EXCEPT ![c] = r]
    /\ IF ValidationError(r) = ""
       THEN Goto(c, "begin")
       ELSE /\ pc' = [pc EXCEPT ![c] = "done"]
            /\ answer' = [answer EXCEPT ![c] = Refused(ValidationError(r))]
    /\ UNCHANGED <<tables, nextEvent, todo, base, pending>>

\* db.transaction(): a connection of the pool, and BEGIN.
Begin(c) ==
    /\ pc[c] = "begin" /\ FreeConnection
    /\ Goto(c, "gate")
    /\ UNCHANGED <<tables, nextEvent, req, todo, base, pending>>

\* Fault: a key that is being inserted counts as taken at once.
IdempotencyGateNoWait(c) ==
    /\ pc[c] = "gate"
    /\ Goto(c, IF KeyRow(c) = {} /\ ~KeyBusy(c) THEN "createPeriod" ELSE "resolve")
    /\ UNCHANGED <<tables, nextEvent, req, todo, base, pending>>

\* Gate 2: INSERT INTO ledger_transaction ... ON CONFLICT DO NOTHING.
IdempotencyGate(c) ==
    /\ pc[c] = "gate" /\ ~KeyBusy(c)
    /\ Goto(c, IF KeyRow(c) = {} THEN "createPeriod" ELSE "resolve")
    /\ UNCHANGED <<tables, nextEvent, req, todo, base, pending>>

\* Fault: the duplicate is resolved on a second connection of the pool.
ResolveDuplicateOnPool(c) ==
    /\ pc[c] = "resolve" /\ FreeConnection
    /\ EndWith(c, IF \E d \in KeyRow(c) : Payload(req[d]) = Payload(req[c])
                  THEN Returned("duplicate", CHOOSE d \in KeyRow(c) : TRUE)
                  ELSE Refused("IDEMPOTENCY_CONFLICT"))
    /\ UNCHANGED <<tables, nextEvent, req, todo, base>>

\* resolveDuplicate, and the commit of its read-only transaction.
ResolveDuplicate(c) ==
    /\ pc[c] = "resolve"
    /\ EndWith(c, IF \E d \in KeyRow(c) : Payload(req[d]) = Payload(req[c])
                  THEN Returned("duplicate", CHOOSE d \in KeyRow(c) : TRUE)
                  ELSE Refused("IDEMPOTENCY_CONFLICT"))
    /\ UNCHANGED <<tables, nextEvent, req, todo, base>>

\* Gate 3, first half: INSERT INTO ledger_period ... ON CONFLICT DO NOTHING.
CreatePeriod(c) ==
    /\ pc[c] = "createPeriod"
    /\ req[c].auto => ~NewPeriodBusy(c)
    /\ pending' = [pending EXCEPT ![c].period =
                      req[c].auto /\ periods[<<req[c].tenant, PostingPeriod(req[c])>>] = "ABSENT"]
    /\ Goto(c, "lockPeriod")
    /\ UNCHANGED <<tables, nextEvent, req, todo, base>>

\* Gate 3, second half: SELECT status FROM ledger_period ... FOR UPDATE.
LockPeriod(c) ==
    /\ pc[c] = "lockPeriod"
    /\ PeriodSeen(c) # "ABSENT" => ~PeriodBusy(c)
    /\ IF PeriodSeen(c) = "OPEN"
       THEN /\ Goto(c, "lockAccounts")
            /\ todo' = [todo EXCEPT ![c] = TouchedBy(c)]
            /\ UNCHANGED pending
       ELSE /\ Refuse(c, IF PeriodSeen(c) = "ABSENT" THEN "PERIOD_NOT_FOUND" ELSE "PERIOD_NOT_OPEN")
            /\ UNCHANGED todo
    /\ UNCHANGED <<tables, nextEvent, req, base>>

\* Fault: the currency is not compared.
AccountErrorNoCurrency(c, a) ==
    IF accounts[<<req[c].tenant, a>>] = "ABSENT" THEN "ACCOUNT_NOT_FOUND"
    ELSE IF accounts[<<req[c].tenant, a>>] # "ACTIVE" THEN "ACCOUNT_NOT_ACTIVE" ELSE ""

\* Gate 4: why the account cannot take this leg, or "".
AccountError(c, a) ==
    IF accounts[<<req[c].tenant, a>>] = "ABSENT" THEN "ACCOUNT_NOT_FOUND"
    ELSE IF accounts[<<req[c].tenant, a>>] # "ACTIVE" THEN "ACCOUNT_NOT_ACTIVE"
    ELSE IF CurrencyOf[<<req[c].tenant, a>>] # req[c].currency THEN "CURRENCY_MISMATCH" ELSE ""

\* Leaves account a; when the loop is over, goes to place p with all accounts ahead again.
NextTurn(c, a, stay, p) ==
    IF todo[c] = {a}
    THEN Goto(c, p) /\ todo' = [todo EXCEPT ![c] = TouchedBy(c)]
    ELSE Goto(c, stay) /\ todo' = [todo EXCEPT ![c] = @ \ {a}]

\* Gate 4: SELECT ... FROM ledger_account ... FOR UPDATE, for the next account by id.
LockAccount(c) ==
    /\ pc[c] = "lockAccounts"
    /\ \E a \in Account :
       /\ IsNext(c, a) /\ ~AccountBusy(c, a)
       /\ IF AccountError(c, a) = ""
          THEN NextTurn(c, a, "lockAccounts", "readSeq") /\ UNCHANGED pending
          ELSE Refuse(c, AccountError(c, a)) /\ UNCHANGED todo
    /\ UNCHANGED <<tables, nextEvent, req, base>>

\* SELECT COALESCE(MAX(seq), 0) before the entries of the next account.
ReadSeq(c) ==
    /\ pc[c] = "readSeq"
    /\ \E a \in Account : IsNext(c, a) /\ base' = [base EXCEPT ![c] = HighestSeq(LogSeen(c, a))]
    /\ Goto(c, "insertEntries")
    /\ UNCHANGED <<tables, nextEvent, req, todo, pending>>

\* INSERT INTO ledger_entry, one row for each line on the account.
InsertEntries(c) ==
    /\ pc[c] = "insertEntries"
    /\ \E a \in Account :
       /\ IsNext(c, a) /\ ~EntryBusy(c, NewEntries(c, a))
       /\ IF Collides(NewEntries(c, a), entries)
          THEN EndWith(c, Unknown) /\ UNCHANGED todo
          ELSE /\ pending' = [pending EXCEPT ![c].entries = @ \cup NewEntries(c, a)]
               /\ NextTurn(c, a, "readSeq", "readPosition")
    /\ UNCHANGED <<tables, nextEvent, req, base>>

\* SELECT COALESCE(MAX(seq), 0) before the upsert; an account whose legs
\* cancel out is skipped.
ReadPosition(c) ==
    /\ pc[c] = "readPosition"
    /\ \E a \in Account :
       /\ IsNext(c, a)
       /\ IF Net(req[c], a) = 0
          THEN NextTurn(c, a, "readPosition", "insertOutbox") /\ UNCHANGED base
          ELSE /\ base' = [base EXCEPT ![c] = HighestSeq(LogSeen(c, a))]
               /\ Goto(c, "upsertBalance") /\ UNCHANGED todo
    /\ UNCHANGED <<tables, nextEvent, req, pending>>

Overdrawn(type, amount) == type = "asset" /\ amount < 0

\* Fault: account_balance.amount is a NUMERIC without precision.
FitsAlways(amount) == TRUE

\* account_balance.amount is NUMERIC(28,8).
Fits(amount) == amount \in -MaxAmount .. MaxAmount

\* INSERT INTO account_balance ... ON CONFLICT (account_id) DO UPDATE, which fails if
\* the delta or the sum does not fit the column, and the guard on what it returned.
UpsertBalance(c) ==
    /\ pc[c] = "upsertBalance"
    /\ \E a \in Account :
       /\ IsNext(c, a) /\ ~BalanceBusy(c, a)
       /\ IF ~(Fits(Net(req[c], a)) /\ Fits(NewBalance(c, a).amount))
          THEN EndWith(c, Unknown) /\ UNCHANGED todo
          ELSE IF Overdrawn(AccountType[<<req[c].tenant, a>>], NewBalance(c, a).amount)
          THEN Refuse(c, "INSUFFICIENT_FUNDS") /\ UNCHANGED todo
          ELSE /\ pending' = [pending EXCEPT ![c].balances[a] = NewBalance(c, a)]
               /\ NextTurn(c, a, "readPosition", "insertOutbox")
    /\ UNCHANGED <<tables, nextEvent, req, base>>

\* Fault: the event is written outside the transaction.
InsertOutboxOnPool(c) ==
    /\ pc[c] = "insertOutbox"
    /\ outbox' = outbox \cup {[event |-> nextEvent, tx |-> c]}
    /\ pending' = [pending EXCEPT ![c].event = nextEvent]
    /\ nextEvent' = nextEvent + 1
    /\ Goto(c, "commit")
    /\ UNCHANGED <<accounts, periods, transactions, entries, balances, req, todo, base>>

\* Fault: the sequence has a CACHE, so connections draw ids from blocks of their own.
InsertOutboxCached(c) ==
    /\ pc[c] = "insertOutbox"
    /\ \E n \in 1 .. nextEvent + 1 :
          /\ \A o \in outbox : o.event # n
          /\ pending' = [pending EXCEPT ![c].event = n]
    /\ nextEvent' = nextEvent + 1
    /\ Goto(c, "commit")
    /\ UNCHANGED <<tables, req, todo, base>>

\* INSERT INTO outbox with the next event id.
InsertOutbox(c) ==
    /\ pc[c] = "insertOutbox"
    /\ pending' = [pending EXCEPT ![c].event = nextEvent]
    /\ nextEvent' = nextEvent + 1
    /\ Goto(c, "commit")
    /\ UNCHANGED <<tables, req, todo, base>>

\* The deferred triggers assert_balanced and assert_spendable_non_negative.
\* The second looks the account type up by the tenant stored in the row.
Balanced(c) == MapThenSumSet(LAMBDA e : e.amount, pending[c].entries) = 0

\* Fault: the guard of the upsert is trusted and there is no trigger.
SpendableUnchecked(c) == TRUE

Spendable(c) ==
    \A a \in Account : pending[c].balances[a] # None =>
        ~Overdrawn(AccountType[<<pending[c].balances[a].tenant, a>>], pending[c].balances[a].amount)

\* COMMIT: the deferred triggers, then everything at once.
Commit(c) ==
    /\ pc[c] = "commit"
    /\ IF Balanced(c) /\ Spendable(c)
       THEN /\ transactions' = transactions \cup {c}
            /\ entries' = entries \cup pending[c].entries
            /\ balances' = [a \in Account |-> IF pending[c].balances[a] = None
                                              THEN balances[a] ELSE pending[c].balances[a]]
            /\ outbox' = outbox \cup {[event |-> pending[c].event, tx |-> c]}
            /\ periods' = IF pending[c].period
                          THEN [periods EXCEPT ![<<req[c].tenant, PostingPeriod(req[c])>>] = "OPEN"]
                          ELSE periods
            /\ pending' = [pending EXCEPT ![c] = NoWrites]
            /\ Goto(c, "reply")
       ELSE /\ Refuse(c, IF Balanced(c) THEN "INSUFFICIENT_FUNDS" ELSE "UNBALANCED_ENTRY")
            /\ UNCHANGED <<transactions, entries, balances, outbox, periods>>
    /\ UNCHANGED <<accounts, nextEvent, req, todo, base>>

\* The result reaches the caller.
Reply(c) ==
    /\ pc[c] = "reply"
    /\ EndWith(c, Returned("posted", c))
    /\ UNCHANGED <<tables, nextEvent, req, todo, base>>

\* The connection, the process or the reply is lost: the database rolls an open
\* transaction back, and the caller does not know what happened.
Fail(c) ==
    /\ pc[c] \in InTransaction \cup {"begin", "reply"}
    /\ EndWith(c, Unknown)
    /\ UNCHANGED <<tables, nextEvent, req, todo, base>>

-----------------------------------------------------------------------------
(***************************************************************************)
(* The administrative statements: one statement each, committed at once.   *)
(***************************************************************************)
\* Fault: the account is read without FOR UPDATE.
AccountNeverLocked(t, a) == FALSE

AccountLocked(t, a) == \E c \in Call : HoldsAccount(c, t, a)
PeriodLocked(t, p) == \E c \in Call : HoldsPeriod(c, t, p)
PeriodInserting(t, p) == \E c \in Call : HoldsNewPeriod(c, t, p)

AdminUnchanged == UNCHANGED <<transactions, entries, balances, outbox, nextEvent,
                              pc, req, todo, base, pending, answer>>

\* createAccount: INSERT ... ON CONFLICT DO NOTHING, the existing row is returned.
CreateAccount(t, a) ==
    /\ FreeConnection /\ accounts[<<t, a>>] = "ABSENT"
    /\ accounts' = [accounts EXCEPT ![<<t, a>>] = "ACTIVE"]
    /\ UNCHANGED periods /\ AdminUnchanged

\* setAccountStatus: UPDATE, which waits for a call that has the row locked.
SetAccountStatus(t, a, status) ==
    /\ FreeConnection /\ accounts[<<t, a>>] # "ABSENT" /\ ~AccountLocked(t, a)
    /\ accounts' = [accounts EXCEPT ![<<t, a>>] = status]
    /\ UNCHANGED periods /\ AdminUnchanged

\* setPeriodStatus: UPDATE; a row that is only being inserted is not seen.
SetPeriodStatus(t, p, status) ==
    /\ FreeConnection /\ periods[<<t, p>>] # "ABSENT" /\ ~PeriodLocked(t, p)
    /\ periods' = [periods EXCEPT ![<<t, p>>] = status]
    /\ UNCHANGED accounts /\ AdminUnchanged

\* openPeriod: INSERT ... ON CONFLICT DO UPDATE SET status = 'OPEN'.
OpenPeriod(t, p) ==
    /\ FreeConnection /\ ~PeriodLocked(t, p) /\ ~PeriodInserting(t, p)
    /\ periods' = [periods EXCEPT ![<<t, p>>] = "OPEN"]
    /\ UNCHANGED accounts /\ AdminUnchanged

Post(c) ==
    \/ Begin(c) \/ IdempotencyGate(c) \/ ResolveDuplicate(c)
    \/ CreatePeriod(c) \/ LockPeriod(c) \/ LockAccount(c)
    \/ ReadSeq(c) \/ InsertEntries(c) \/ ReadPosition(c) \/ UpsertBalance(c)
    \/ InsertOutbox(c) \/ Commit(c) \/ Reply(c)

Admin ==
    \/ \E t \in Tenant, a \in Account :
          CreateAccount(t, a) \/ \E s \in AccountInput : SetAccountStatus(t, a, s)
    \/ \E t \in Tenant, p \in Period :
          /\ <<t, p>> \in ManagedPeriods
          /\ OpenPeriod(t, p) \/ \E s \in PeriodInput : SetPeriodStatus(t, p, s)

Next ==
    \/ \E c \in Call : (\E r \in Request : Submit(c, r)) \/ Post(c) \/ Fail(c)
    \/ Admin

Spec == Init /\ [][Next]_vars

-----------------------------------------------------------------------------
TypeOK ==
    /\ accounts \in [Tenant \X Account -> AccountStatus \cup {"ABSENT"}]
    /\ periods \in [Tenant \X Period -> PeriodStatus \cup {"ABSENT"}]
    /\ transactions \subseteq Call
    /\ entries \subseteq Entry
    /\ balances \in [Account -> BalanceRow \cup {None}]
    /\ outbox \subseteq [event : Nat, tx : Call]
    /\ nextEvent \in Nat
    /\ pc \in [Call -> Place]
    /\ req \in [Call -> Request \cup {None}]
    /\ todo \in [Call -> SUBSET Account]
    /\ base \in [Call -> Nat]
    /\ pending \in [Call -> Writes]
    /\ answer \in [Call -> Answer]

LogOf(a) == {e \in entries : e.account = a}
Total(S) == MapThenSumSet(LAMBDA e : e.amount, S)
Settled(c) == answer[c].kind \in {"posted", "duplicate"}

\* The log of an account id is numbered 1, 2, ... without a gap or a repetition
\* (MAX(seq) + 1 under the account lock, post.ts:165-179), whatever the
\* interleaving of calls, of rollbacks and of tenants that share the id.
SeqDense ==
    \A a \in Account :
        /\ \A e \in LogOf(a) : \A n \in 1 .. e.seq : \E f \in LogOf(a) : f.seq = n
        /\ \A e, f \in LogOf(a) : e.seq = f.seq => e = f

\* Inside a tenant, no two postings ever reach for the same seq: an entry can only
\* collide, as a wait or as a violation of UNIQUE (account_id, seq), with one of a
\* tenant that uses the same account id (MAX(seq) is read and used under the account
\* lock, post.ts:134-179).
SeqTakenOnlyAcrossTenants ==
    \A c \in Call, a \in Account : pc[c] = "insertEntries" /\ IsNext(c, a) =>
        ~Collides(NewEntries(c, a),
                  {f \in entries \cup UNION {pending[d].entries : d \in Call \ {c}} :
                      f.tenant = req[c].tenant})

\* A stored balance is the sum of the log of its account id, at every commit
\* (the upsert of post.ts:192-200, which never reads before it adds).
BalanceIsSumOfLog ==
    \A a \in Account : Total(LogOf(a)) = IF balances[a] = None THEN 0 ELSE balances[a].amount

\* A spendable account is never overdrawn: no committed balance row of an asset
\* account is negative (post.ts:204-212 and the trigger of migration 002).
AssetsNeverNegative ==
    \A a \in Account :
        balances[a] # None /\ AccountType[<<balances[a].tenant, a>>] = "asset" => balances[a].amount >= 0

\* A transaction is all or nothing: its rows are exactly the lines of its request,
\* side by side in the log of each account, and one outbox event; a call that was
\* not committed left no row (one db.transaction() around every write, post.ts:78-246).
AllOrNothing ==
    \A c \in Call :
        LET rows == {e \in entries : e.tx = c}
            events == {o \in outbox : o.tx = c}
        IN  IF c \in transactions
            THEN /\ \E o \in outbox : events = {o}
                 /\ \A a \in TouchedBy(c) :
                       \E e \in rows : {f \in rows : f.account = a} = EntriesAt(c, a, e.seq - 1)
                 /\ \A e \in rows : e.account \in TouchedBy(c)
            ELSE rows = {} /\ events = {}

\* One business event, one transaction: of all the calls with one key at most one
\* is ever committed, and every call that is told a transaction under that key is
\* told that one and asked for the same body (the gate of post.ts:79-103 and
\* resolveDuplicate), however retries overlap, fail or lose their reply.
IdempotencyOnce ==
    /\ \A c, d \in transactions : SameKey(req[c], req[d]) => c = d
    /\ \A c \in Call : Settled(c) =>
          /\ answer[c].tx \in transactions
          /\ SameKey(req[answer[c].tx], req[c])
          /\ Payload(req[answer[c].tx]) = Payload(req[c])

\* A conflict is only reported against a committed transaction with another body:
\* the "idempotency race" of resolveDuplicate (post.ts:267-271) never surfaces.
ConflictIsReal ==
    \A c \in Call : answer[c] = Refused("IDEMPOTENCY_CONFLICT") =>
        \E d \in transactions : SameKey(req[c], req[d]) /\ Payload(req[c]) # Payload(req[d])

\* Event ids follow the log: of two transactions on one account, the one later in
\* its log has the later event (nextval under the account locks, post.ts:218-233),
\* so a relay reading by event_id sees every account's history in order.
EventsFollowLog ==
    \A e, f \in entries : e.account = f.account /\ e.seq < f.seq /\ e.tx # f.tx =>
        \A o, p \in outbox : o.tx = e.tx /\ p.tx = f.tx => o.event < p.event

\* c cannot take its next step before d ends its transaction.
WaitsFor(c, d) ==
    /\ c # d
    /\ \/ pc[c] = "gate" /\ HoldsKey(d, req[c])
       \/ pc[c] = "createPeriod" /\ req[c].auto /\ HoldsNewPeriod(d, req[c].tenant, PostingPeriod(req[c]))
       \/ pc[c] = "lockPeriod" /\ HoldsPeriod(d, req[c].tenant, PostingPeriod(req[c]))
       \/ \E a \in todo[c] : IsNext(c, a) /\
             \/ pc[c] = "lockAccounts" /\ HoldsAccount(d, req[c].tenant, a)
             \/ pc[c] = "insertEntries" /\ Collides(NewEntries(c, a), pending[d].entries)
             \/ pc[c] = "upsertBalance" /\ pending[d].balances[a] # None

\* No set of calls wait for each other: keys, then the period, then the accounts
\* by id ("deterministic order, no deadlock", post.ts:129).
NoDeadlock ==
    \A S \in SUBSET Open : S # {} => \E c \in S : \A d \in S : ~WaitsFor(c, d)

\* A transaction is committed only while its period is OPEN and every account it
\* touches is ACTIVE: the status an administrator set while the call ran was
\* either seen or has waited (FOR UPDATE, post.ts:113-155).
CommitRespectsStatuses ==
    [][\A c \in transactions' \ transactions :
          /\ periods'[<<req[c].tenant, PostingPeriod(req[c])>>] = "OPEN"
          /\ \A a \in TouchedBy(c) : accounts[<<req[c].tenant, a>>] = "ACTIVE"]_vars

(***************************************************************************)
(* The promise of AtomicLedger, read off the tables: the log of an account *)
(* is its entries in seq order, its balance the stored row.                *)
(***************************************************************************)
EntryAt(a, n) == CHOOSE e \in LogOf(a) : e.seq = n
LogOrder(a) == [n \in 1 .. Cardinality(LogOf(a)) |-> <<EntryAt(a, n).tx, EntryAt(a, n).amount>>]

Atomic == INSTANCE AtomicLedger WITH
    SamePayload <- LAMBDA r, s : Payload(r) = Payload(s),
    Valid <- LAMBDA r : ValidationError(r) = "",
    posted <- transactions,
    log <- [a \in Account |-> LogOrder(a)],
    book <- [a \in Account |-> IF balances[a] = None THEN 0 ELSE balances[a].amount],
    asked <- req,
    told <- answer

\* Every posting takes effect at one instant, at its COMMIT, and every refusal
\* gives a reason that is true when it is given, whatever the interleaving of
\* statements (post.ts:78-246): the write path implements AtomicLedger.
ImplementsAtomicLedger == Atomic!Spec
=============================================================================
