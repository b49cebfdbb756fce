---------------------------- MODULE SessionLock ----------------------------
(***************************************************************************)
(* The embedded database (src/src/db/pglite-dialect.ts): PGlite is one     *)
(* session, and a FIFO lock makes concurrent callers take turns.  A client *)
(* is one PgliteConnection with one job: a transaction                     *)
(* (db.transaction().execute(callback)) or a plain statement.              *)
(*                                                                         *)
(* Every await is a point where the others run: an action is one query of  *)
(* the session, or one turn of the program between two awaits.  How Kysely *)
(* calls the driver - BEGIN, callback, COMMIT, and ROLLBACK whenever       *)
(* something threw after BEGIN, a refused COMMIT included - is external.   *)
(***************************************************************************)
EXTENDS Naturals, Sequences, FiniteSets

CONSTANTS
    Client,         \* connections: each has one job
    Plain,          \* those whose job is one statement outside a transaction
    Statements,     \* how many statements a transaction executes
    MaxRefused,     \* bound on the COMMITs that the deferred triggers refuse
    None            \* no transaction is open

ASSUME ClientAssumption == Plain \subseteq Client /\ None \notin Client
ASSUME BoundAssumption == Statements \in Nat \ {0} /\ MaxRefused \in Nat

VARIABLES
    held, queue,    \* the SessionLock, and those it will be handed to, in order
    at,             \* how far each client has come
    inTransaction,  \* PgliteConnection.inTransaction
    transaction,    \* whose BEGIN opened the session's transaction, or None
    aborted,        \* that transaction is aborted: only ROLLBACK helps
    uncommitted,    \* the rows it has written
    database,       \* the committed rows
    executed,       \* statements of each client that succeeded
    answer,         \* what its caller was told
    refused         \* COMMITs refused so far

lock == <<held, queue>>
session == <<transaction, aborted, uncommitted, database>>
vars == <<held, queue, at, inTransaction, transaction, aborted, uncommitted, database,
          executed, answer, refused>>

RowsOf(c) == {<<c, n>> : n \in 1 .. (IF c \in Plain THEN 1 ELSE Statements)}

\* Places whose next turn is the `finally` that releases the lock.
Releasing == {"executed", "failed", "committed", "commitFailed", "rolledBack"}
Place == Releasing \cup {"idle", "waiting", "granted", "callback", "rollback", "done"}

\* "true between BEGIN and COMMIT/ROLLBACK for this connection" (pglite-dialect.ts:73):
\* inTransaction is set while a callback runs and until its COMMIT is settled, and
\* never for a plain statement.
Flagged ==
    \A c \in Client :
        /\ at[c] \in {"callback", "committed", "commitFailed"} => inTransaction[c]
        /\ c \in Plain => ~inTransaction[c]

\* The types, and the flag by which a connection knows whether to take the lock.
TypeOK ==
    /\ held \in BOOLEAN /\ queue \in Seq(Client)
    /\ at \in [Client -> Place] /\ inTransaction \in [Client -> BOOLEAN]
    /\ transaction \in Client \cup {None} /\ aborted \in BOOLEAN
    /\ uncommitted \subseteq UNION {RowsOf(c) : c \in Client}
    /\ database \subseteq UNION {RowsOf(c) : c \in Client}
    /\ executed \in [Client -> 0 .. Statements]
    /\ answer \in [Client -> {"none", "ok", "error"}] /\ refused \in 0 .. MaxRefused
    /\ Flagged

Init ==
    /\ held = FALSE /\ queue = <<>>
    /\ at = [c \in Client |-> "idle"] /\ inTransaction = [c \in Client |-> FALSE]
    /\ transaction = None /\ aborted = FALSE /\ uncommitted = {} /\ database = {}
    /\ executed = [c \in Client |-> 0] /\ answer = [c \in Client |-> "none"]
    /\ refused = 0

Goto(c, p) == at' = [at EXCEPT ![c] = p]

-----------------------------------------------------------------------------
\* Fault: a new caller does not look at who has the lock.
AcquireUnchecked(c) ==
    /\ at[c] = "idle"
    /\ held' = TRUE /\ Goto(c, "granted") /\ UNCHANGED queue
    /\ UNCHANGED <<inTransaction, session, executed, answer, refused>>

\* acquire(): the lock is free, or the client queues.
Acquire(c) ==
    /\ at[c] = "idle"
    /\ IF held
       THEN Goto(c, "waiting") /\ queue' = Append(queue, c) /\ UNCHANGED held
       ELSE Goto(c, "granted") /\ held' = TRUE /\ UNCHANGED queue
    /\ UNCHANGED <<inTransaction, session, executed, answer, refused>>

\* Fault: inTransaction is not set, and a statement of the callback would wait for
\* the lock that its own client has.
BeginUnflagged(c) ==
    /\ at[c] = "granted" /\ c \notin Plain
    /\ transaction' = IF transaction = None THEN c ELSE transaction
    /\ IF aborted
       THEN Goto(c, "done") /\ answer' = [answer EXCEPT ![c] = "error"]
       ELSE Goto(c, "callback") /\ UNCHANGED answer
    /\ UNCHANGED <<lock, inTransaction, aborted, uncommitted, database, executed, refused>>

\* beginTransaction after acquire(): inTransaction = true and BEGIN.  On an open
\* transaction BEGIN is a warning, on an aborted one an error: transactionBegun
\* stays false in Kysely, which then calls no rollback, and nobody releases.
Begin(c) ==
    /\ at[c] = "granted" /\ c \notin Plain
    /\ inTransaction' = [inTransaction EXCEPT ![c] = TRUE]
    /\ transaction' = IF transaction = None THEN c ELSE transaction
    /\ IF aborted
       THEN Goto(c, "done") /\ answer' = [answer EXCEPT ![c] = "error"]
       ELSE Goto(c, "callback") /\ UNCHANGED answer
    /\ UNCHANGED <<lock, aborted, uncommitted, database, executed, refused>>

\* A client can send a statement: a plain one owns the lock for it, one inside a
\* transaction sends it without asking.
MayExecute(c) ==
    \/ at[c] = "granted" /\ c \in Plain
    \/ at[c] = "callback" /\ inTransaction[c] /\ executed[c] < Statements

\* The statement succeeds, in whatever transaction the session has open.
Execute(c) ==
    /\ MayExecute(c) /\ ~aborted
    /\ executed' = [executed EXCEPT ![c] = @ + 1]
    /\ LET row == <<c, executed[c] + 1>>
       IN  IF transaction = None
           THEN database' = database \cup {row} /\ UNCHANGED uncommitted
           ELSE uncommitted' = uncommitted \cup {row} /\ UNCHANGED database
    /\ Goto(c, IF c \in Plain THEN "executed" ELSE "callback")
    /\ UNCHANGED <<lock, inTransaction, transaction, aborted, answer, refused>>

\* It violates a constraint, or the session's transaction is aborted.
StatementFails(c) ==
    /\ MayExecute(c)
    /\ aborted' = (transaction # None)
    /\ Goto(c, IF c \in Plain THEN "failed" ELSE "rollback")
    /\ UNCHANGED <<lock, inTransaction, transaction, uncommitted, database, executed, answer, refused>>

\* The callback throws, a LedgerError for instance.
CallbackThrows(c) ==
    /\ at[c] = "callback"
    /\ Goto(c, "rollback")
    /\ UNCHANGED <<lock, inTransaction, session, executed, answer, refused>>

\* The session has no transaction any more.
EndTransaction == transaction' = None /\ aborted' = FALSE /\ uncommitted' = {}

\* COMMIT: of an aborted transaction it is a ROLLBACK that reports no error, and
\* without a transaction a warning.
Commit(c) ==
    /\ at[c] = "callback" /\ executed[c] = Statements
    /\ database' = IF aborted THEN database ELSE database \cup uncommitted
    /\ EndTransaction /\ Goto(c, "committed")
    /\ UNCHANGED <<lock, inTransaction, executed, answer, refused>>

\* A deferred trigger refuses the COMMIT, and the database rolls back.
CommitRefused(c) ==
    /\ at[c] = "callback" /\ executed[c] = Statements
    /\ transaction # None /\ ~aborted /\ refused < MaxRefused
    /\ refused' = refused + 1
    /\ EndTransaction /\ Goto(c, "commitFailed")
    /\ UNCHANGED <<lock, inTransaction, database, executed, answer>>

\* Fault: the lock is released and ROLLBACK is not sent.
RollbackNotSent(c) ==
    /\ at[c] = "rollback"
    /\ Goto(c, "rolledBack")
    /\ UNCHANGED <<lock, inTransaction, session, executed, answer, refused>>

\* ROLLBACK, of whatever transaction the session has open.
Rollback(c) ==
    /\ at[c] = "rollback"
    /\ EndTransaction /\ Goto(c, "rolledBack")
    /\ UNCHANGED <<lock, inTransaction, database, executed, answer, refused>>

\* Where the client goes when its `finally` is done: after a refused COMMIT Kysely
\* calls rollbackTransaction.
AfterRelease(c) == IF at[c] = "commitFailed" THEN "rollback" ELSE "done"
AnswerAfterRelease(c) ==
    IF at[c] = "commitFailed" THEN answer[c]
    ELSE IF at[c] \in {"executed", "committed"} THEN "ok" ELSE "error"

\* Fault: the last waiter is resumed first.
ReleaseLast(c) ==
    /\ at[c] \in Releasing
    /\ inTransaction' = [inTransaction EXCEPT ![c] = FALSE]
    /\ answer' = [answer EXCEPT ![c] = AnswerAfterRelease(c)]
    /\ IF queue = <<>>
       THEN held' = FALSE /\ Goto(c, AfterRelease(c)) /\ UNCHANGED queue
       ELSE /\ queue' = SubSeq(queue, 1, Len(queue) - 1)
            /\ at' = [at EXCEPT ![c] = AfterRelease(c), ![queue[Len(queue)]] = "granted"]
            /\ UNCHANGED held
    /\ UNCHANGED <<session, executed, refused>>

\* Fault: a statement that fails does not release.
ReleaseUnlessFailed(c) ==
    /\ at[c] \in Releasing
    /\ inTransaction' = [inTransaction EXCEPT ![c] = FALSE]
    /\ answer' = [answer EXCEPT ![c] = AnswerAfterRelease(c)]
    /\ IF queue = <<>> \/ at[c] = "failed"
       THEN held' = (at[c] = "failed") /\ Goto(c, AfterRelease(c)) /\ UNCHANGED queue
       ELSE /\ queue' = Tail(queue)
            /\ at' = [at EXCEPT ![c] = AfterRelease(c), ![Head(queue)] = "granted"]
            /\ UNCHANGED held
    /\ UNCHANGED <<session, executed, refused>>

\* Fault: the lock is freed although it was handed on.
ReleaseAndFree(c) ==
    /\ at[c] \in Releasing
    /\ inTransaction' = [inTransaction EXCEPT ![c] = FALSE]
    /\ answer' = [answer EXCEPT ![c] = AnswerAfterRelease(c)]
    /\ held' = FALSE
    /\ IF queue = <<>>
       THEN Goto(c, AfterRelease(c)) /\ UNCHANGED queue
       ELSE /\ queue' = Tail(queue)
            /\ at' = [at EXCEPT ![c] = AfterRelease(c), ![Head(queue)] = "granted"]
    /\ UNCHANGED <<session, executed, refused>>

\* The `finally` of withLock, commitTransaction and rollbackTransaction: release()
\* hands the lock to the next waiter, or frees it.
Release(c) ==
    /\ at[c] \in Releasing
    /\ inTransaction' = [inTransaction EXCEPT ![c] = FALSE]
    /\ answer' = [answer EXCEPT ![c] = AnswerAfterRelease(c)]
    /\ IF queue = <<>>
       THEN held' = FALSE /\ Goto(c, AfterRelease(c)) /\ UNCHANGED queue
       ELSE /\ queue' = Tail(queue)
            /\ at' = [at EXCEPT ![c] = AfterRelease(c), ![Head(queue)] = "granted"]
            /\ UNCHANGED held
    /\ UNCHANGED <<session, executed, refused>>

Step(c) ==
    \/ Begin(c) \/ Execute(c) \/ StatementFails(c) \/ CallbackThrows(c)
    \/ Commit(c) \/ CommitRefused(c) \/ Rollback(c) \/ Release(c)

Next == \E c \in Client : Acquire(c) \/ Step(c)

Spec == Init /\ [][Next]_vars

\* PGlite answers every query, and the program goes on after it.
FairSpec == Spec /\ \A c \in Client : WF_vars(Step(c))

-----------------------------------------------------------------------------
\* c took the lock, or was handed it, and has not released it.
Owns(c) == inTransaction[c] \/ at[c] \in {"granted", "executed", "failed"}

\* At most one client owns the lock, it is held exactly while one does - it is
\* neither lost nor free while somebody works - and the queue is everybody who
\* waits, once, until a COMMIT is refused (SessionLock, pglite-dialect.ts:43-67).
OneOwner ==
    refused = 0 =>
        /\ \A c, d \in Client : Owns(c) /\ Owns(d) => c = d
        /\ held = \E c \in Client : Owns(c)
        /\ \A c \in Client : at[c] = "waiting" <=> \E i \in DOMAIN queue : queue[i] = c
        /\ \A i, j \in DOMAIN queue : queue[i] = queue[j] => i = j
        /\ queue # <<>> => held

\* The lock is given in the order in which it was asked for: nobody who comes later
\* is served before a client that waits ("Strict FIFO", pglite-dialect.ts:41).
FirstComeFirstServed ==
    [][\A c, d \in Client :
          /\ at[c] = "waiting" /\ at'[c] = "waiting"
          /\ at[d] # "granted" /\ at'[d] = "granted"
          => \E i, j \in DOMAIN queue : i < j /\ queue[i] = d /\ queue[j] = c]_vars

\* A plain statement never lands inside somebody's transaction, a statement of a
\* transaction never inside another's or outside its own, and while a transaction
\* is open nobody changes what is committed, until a COMMIT is refused: the header
\* of pglite-dialect.ts:14-24, over Begin, Execute, Rollback and Release.
RunsAlone ==
    [][refused' = 0 =>
          /\ \A c \in Client : executed'[c] # executed[c] =>
                transaction = IF c \in Plain THEN None ELSE c
          /\ transaction # None /\ transaction' = transaction => database' = database]_vars

Serial == INSTANCE SerialSession

\* Jobs take effect whole, one after the other, and callers are told the truth,
\* until a COMMIT is refused: the dialect implements SerialSession.
ImplementsSerialSession ==
    Serial!Init /\ [][refused' = 0 => Serial!Next \/ UNCHANGED Serial!vars]_vars

\* Every caller is answered if no COMMIT is refused, whatever else fails: the
\* lock goes round (pglite-dialect.ts:56-67, 113-131).
EveryClientAnswered ==
    [](refused = 0) => \A c \in Client : at[c] # "idle" ~> at[c] = "done"

\* "a second BEGIN collides with the first and a stray ROLLBACK destroys the other
\* transaction's work. So the lock is held per *transaction*"
\* (pglite-dialect.ts:18-20): what a caller was told is committed is there.
AcknowledgedIsCommitted ==
    \A c \in Client : answer[c] = "ok" => RowsOf(c) \subseteq database
=============================================================================
