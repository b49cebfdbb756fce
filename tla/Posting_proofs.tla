---------------------------- MODULE Posting_proofs ----------------------------
(***************************************************************************)
(* Theorems about what a posting leaves in the tables, for every set of    *)
(* calls, tenants, accounts and requests: its rows, its event and the      *)
(* balances, and that no calls wait for each other while they write them.  *)
(*                                                                         *)
(* The invariants stand on LogInv (WritePath_proofs).  HoldInv says what   *)
(* an account lock excludes, WholeInv that the rows of a transaction are   *)
(* complete account by account, EventInv that an event id is drawn after   *)
(* those of everything before it in the logs.  The upsert adds to the row  *)
(* it finds without reading it first, so an uncommitted balance is right   *)
(* only as long as the committed row under it does not move: BalanceInv    *)
(* says that it does not.  OrderInv says in which order a call takes what  *)
(* others may wait for.                                                    *)
(***************************************************************************)
EXTENDS WritePath_proofs

(***************************************************************************)
(* What the accounts a call has locked give it.                            *)
(***************************************************************************)
\* An account row is locked by one call at a time.
AccountHeldOnce ==
    \A c, d \in Call, t \in Tenant, a \in Account :
        HoldsAccount(c, t, a) /\ HoldsAccount(d, t, a) => c = d

\* An entry, committed or not, is of its transaction's tenant and one of its accounts.
RowOf(c, e) == e.tx = c /\ e.tenant = req[c].tenant /\ e.account \in TouchedBy(c)
OwnRows ==
    /\ \A c \in Call : \A e \in pending[c].entries : RowOf(c, e)
    /\ \A e \in entries : RowOf(e.tx, e)

\* The MAX(seq) a call has read is above every committed row of its tenant.
BaseAboveTenant ==
    \A c \in Call, a \in Account : pc[c] = "insertEntries" /\ IsNext(c, a) =>
        \A f \in LogOf(a) : f.tenant = req[c].tenant => f.seq <= base[c]

HoldInv == AccountHeldOnce /\ OwnRows /\ BaseAboveTenant

(***************************************************************************)
(* What a transaction leaves in the tables.                                *)
(***************************************************************************)
\* The places of a call that has inserted all its entries.
PastEntries == {"readPosition", "upsertBalance", "insertOutbox", "commit"}

Inserted(c, a) ==
    /\ pc[c] \in PastEntries \/ (pc[c] \in {"readSeq", "insertEntries"} /\ a \notin todo[c])
    /\ a \in TouchedBy(c)

RowsOn(S, c, a) == {e \in S : e.tx = c /\ e.account = a}
Whole(S, c, a) == \E e \in RowsOn(S, c, a) : RowsOn(S, c, a) = EntriesAt(c, a, e.seq - 1)

WholeSoFar == \A c \in Call, a \in Account : Inserted(c, a) => Whole(pending[c].entries, c, a)
WholeOnceCommitted == \A c \in transactions : \A a \in TouchedBy(c) : Whole(entries, c, a)

OneEvent ==
    /\ \A o \in outbox : o.tx \in transactions
    /\ \A c \in transactions : \E o \in outbox : \A p \in outbox : p.tx = c <=> p = o

WholeInv == WholeSoFar /\ WholeOnceCommitted /\ OneEvent

(***************************************************************************)
(* The event ids.                                                          *)
(***************************************************************************)
EventsDrawn ==
    /\ \A o \in outbox : o.event < nextEvent
    /\ \A c \in Call : pending[c].event < nextEvent

\* A call that has drawn its event has drawn it after every event of the log it continues.
DrawnAfterLog ==
    \A c \in Call : pc[c] = "commit" =>
        \A e \in pending[c].entries, f \in entries, o \in outbox :
            e.account = f.account /\ o.tx = f.tx => o.event < pending[c].event

EventInv == EventsDrawn /\ DrawnAfterLog /\ EventsFollowLog

-----------------------------------------------------------------------------
(***************************************************************************)
(* Lemmas about the steps of a call.                                       *)
(***************************************************************************)
\* What a step does to the accounts a call has still to visit.
LEMMA TurnEffect ==
    ASSUME TypeOK, NEW c \in Call, NEW a, NEW stay, NEW p, NextTurn(c, a, stay, p)
    PROVE  /\ answer' = answer
           /\ \/ pc'[c] = p /\ todo[c] = {a} /\ todo'[c] = TouchedBy(c)
              \/ pc'[c] = stay /\ todo[c] # {a} /\ todo'[c] = todo[c] \ {a}
BY DEF TypeOK, NextTurn, Goto

\* How a call comes to hold its accounts, and how it goes on from there.
LEMMA PostingSteps ==
    ASSUME TypeOK, NEW c \in Call, CallStep(c), pc'[c] \in PastPeriodLock
    PROVE  /\ req' = req
           /\ \/ pc[c] = "lockPeriod" /\ pc'[c] = "lockAccounts" /\ todo'[c] = TouchedBy(c)
                 /\ pending'[c].entries = pending[c].entries
              \/ /\ pc[c] = "lockAccounts" /\ pending' = pending
                 /\ \E a \in Account : IsNext(c, a) /\ ~AccountBusy(c, a)
                                       /\ NextTurn(c, a, "lockAccounts", "readSeq")
              \/ ReadSeq(c) /\ pc[c] = "readSeq" /\ pc'[c] = "insertEntries"
                 /\ pending' = pending /\ todo' = todo
              \/ \E a \in Account : Appends(c, a)
              \/ pc[c] \in PastEntries /\ pc'[c] \in PastEntries
                 /\ pending'[c].entries = pending[c].entries
<1> USE DEF TypeOK, tables, Goto, EndWith, Refuse, PastPeriodLock, PastEntries
<1>1. CASE \E r \in Request : Submit(c, r)  BY <1>1, SubmitEffect
<1>2. CASE Begin(c)  BY <1>2 DEF Begin
<1>3. CASE IdempotencyGate(c)  BY <1>3 DEF IdempotencyGate
<1>4. CASE ResolveDuplicate(c)  BY <1>4 DEF ResolveDuplicate
<1>5. CASE CreatePeriod(c)  BY <1>5 DEF CreatePeriod
<1>6. CASE LockPeriod(c)  BY <1>6 DEF LockPeriod
<1>7. CASE LockAccount(c)  BY <1>7 DEF LockAccount
<1>8. CASE ReadSeq(c)  BY <1>8 DEF ReadSeq
<1>9. CASE InsertEntries(c)
  <2>1. ~EndWith(c, Unknown)
    OBVIOUS
  <2>2. req' = req
    BY <1>9 DEF InsertEntries
  <2> QED  BY <1>9, <2>1, <2>2, InsertSteps
<1>10. CASE ReadPosition(c)  BY <1>10 DEF ReadPosition, NextTurn
<1>11. CASE UpsertBalance(c)
  <2>1. PICK a \in Account :
           \/ EndWith(c, Unknown) \/ EndWith(c, Refused("INSUFFICIENT_FUNDS"))
           \/ /\ pending' = [pending EXCEPT ![c].balances[a] = NewBalance(c, a)]
              /\ NextTurn(c, a, "readPosition", "insertOutbox")
    BY <1>11 DEF UpsertBalance
  <2>2. /\ pending' = [pending EXCEPT ![c].balances[a] = NewBalance(c, a)]
        /\ NextTurn(c, a, "readPosition", "insertOutbox")
    BY <2>1
  <2>3. pending'[c].entries = pending[c].entries
    BY <2>2 DEF Writes
  <2>4. pc[c] = "upsertBalance" /\ req' = req
    BY <1>11 DEF UpsertBalance
  <2>5. pc'[c] \in {"readPosition", "insertOutbox"}
    BY <2>2 DEF NextTurn
  <2> QED  BY <2>3, <2>4, <2>5
<1>12. CASE InsertOutbox(c)  BY <1>12 DEF InsertOutbox, Writes
<1>13. CASE Commit(c)  BY <1>13 DEF Commit
<1>14. CASE Reply(c)  BY <1>14 DEF Reply
<1>15. CASE Fail(c)  BY <1>15 DEF Fail
<1> QED
  BY <1>1, <1>2, <1>3, <1>4, <1>5, <1>6, <1>7, <1>8, <1>9, <1>10, <1>11, <1>12, <1>13,
     <1>14, <1>15 DEF CallStep, Post

\* COMMIT succeeds: everything the call has written appears at once.
Commits(c) ==
    /\ pc[c] = "commit" /\ Commit(c) /\ Balanced(c) /\ Spendable(c)
    /\ transactions' = transactions \cup {c}
    /\ entries' = entries \cup pending[c].entries
    /\ balances' = [a \in Account |-> IF pending[c].balances[a] = None
                                      THEN balances[a] ELSE pending[c].balances[a]]
    /\ outbox' = outbox \cup {[event |-> pending[c].event, tx |-> c]}
    /\ pc'[c] = "reply" /\ pending'[c] = NoWrites
    /\ nextEvent' = nextEvent /\ req' = req

\* What a call does to the tables it does not lock, and to the sequence of event ids.
LEMMA TableSteps ==
    ASSUME TypeOK, NEW c \in Call, CallStep(c)
    PROVE  /\ Commits(c) \/ UNCHANGED <<transactions, entries, balances, outbox>>
           /\ \/ nextEvent' = nextEvent /\ pending'[c].event \in {pending[c].event, 0}
                 /\ pc'[c] # "commit"
              \/ /\ pc[c] = "insertOutbox" /\ pc'[c] = "commit"
                 /\ nextEvent' = nextEvent + 1 /\ pending'[c].event = nextEvent
                 /\ pending'[c].entries = pending[c].entries
<1> USE DEF TypeOK, tables, Goto, EndWith, Refuse
<1>0. NoWrites.event = 0
  BY DEF NoWrites
<1>1. CASE \E r \in Request : Submit(c, r)  BY <1>1, SubmitEffect
<1>2. CASE Begin(c)  BY <1>2 DEF Begin
<1>3. CASE IdempotencyGate(c)  BY <1>3 DEF IdempotencyGate
<1>4. CASE ResolveDuplicate(c)  BY <1>0, <1>4 DEF ResolveDuplicate
<1>5. CASE CreatePeriod(c)  BY <1>5 DEF CreatePeriod, Writes
<1>6. CASE LockPeriod(c)  BY <1>0, <1>6 DEF LockPeriod
<1>7. CASE LockAccount(c)  BY <1>0, <1>7 DEF LockAccount, NextTurn
<1>8. CASE ReadSeq(c)  BY <1>8 DEF ReadSeq
<1>9. CASE InsertEntries(c)
  <2>1. /\ pc[c] = "insertEntries" /\ UNCHANGED <<tables, nextEvent>>
        /\ \E a \in Account :
              \/ EndWith(c, Unknown)
              \/ /\ pending' = [pending EXCEPT ![c].entries = @ \cup NewEntries(c, a)]
                 /\ NextTurn(c, a, "readSeq", "readPosition")
    BY <1>9 DEF InsertEntries
  <2>2. CASE EndWith(c, Unknown)  BY <1>0, <2>1, <2>2
  <2>3. ASSUME NEW a \in Account,
               pending' = [pending EXCEPT ![c].entries = @ \cup NewEntries(c, a)],
               NextTurn(c, a, "readSeq", "readPosition")
        PROVE  pending'[c].event = pending[c].event /\ pc'[c] # "commit"
    BY <2>3 DEF NextTurn, Writes
  <2> QED  BY <2>1, <2>2, <2>3
<1>10. CASE ReadPosition(c)  BY <1>10 DEF ReadPosition, NextTurn
<1>11. CASE UpsertBalance(c)
  <2>1. /\ pc[c] = "upsertBalance" /\ UNCHANGED <<tables, nextEvent>>
        /\ \E a \in Account :
              \/ EndWith(c, Unknown) \/ EndWith(c, Refused("INSUFFICIENT_FUNDS"))
              \/ /\ pending' = [pending EXCEPT ![c].balances[a] = NewBalance(c, a)]
                 /\ NextTurn(c, a, "readPosition", "insertOutbox")
    BY <1>11 DEF UpsertBalance
  <2>2. CASE EndWith(c, Unknown) \/ EndWith(c, Refused("INSUFFICIENT_FUNDS"))
    BY <1>0, <2>1, <2>2
  <2>3. ASSUME NEW a \in Account,
               pending' = [pending EXCEPT ![c].balances[a] = NewBalance(c, a)],
               NextTurn(c, a, "readPosition", "insertOutbox")
        PROVE  pending'[c].event = pending[c].event /\ pc'[c] # "commit"
    BY <2>3 DEF NextTurn, Writes
  <2> QED  BY <2>1, <2>2, <2>3
<1>12. CASE InsertOutbox(c)  BY <1>12 DEF InsertOutbox, Writes
<1>13. CASE Commit(c)
  <2>1. CASE Balanced(c) /\ Spendable(c)  BY <1>0, <1>13, <2>1 DEF Commit, Commits
  <2>2. CASE ~(Balanced(c) /\ Spendable(c))  BY <1>0, <1>13, <2>2 DEF Commit
  <2> QED  BY <2>1, <2>2
<1>14. CASE Reply(c)  BY <1>0, <1>14 DEF Reply
<1>15. CASE Fail(c)  BY <1>0, <1>15 DEF Fail
<1> QED
  BY <1>1, <1>2, <1>3, <1>4, <1>5, <1>6, <1>7, <1>8, <1>9, <1>10, <1>11, <1>12, <1>13,
     <1>14, <1>15 DEF CallStep, Post

-----------------------------------------------------------------------------
(***************************************************************************)
(* The account locks.                                                      *)
(***************************************************************************)
\* A call that holds an account held it before, or has just found it free.
LEMMA HoldsGrows ==
    ASSUME TypeOK, NEW c \in Call, CallStep(c), NEW d \in Call, NEW t, NEW a \in Account,
           HoldsAccount(d, t, a)'
    PROVE  HoldsAccount(d, t, a) \/ (d = c /\ t = req[c].tenant /\ ~AccountBusy(c, a))
<1>1. CASE d # c
  BY <1>1, OthersKeep DEF HoldsAccount, TouchedBy
<1>2. CASE d = c
  <2> USE DEF HoldsAccount, TouchedBy, PastAccountLocks, PastPeriodLock, PastEntries
  <2>1. pc'[c] \in PastPeriodLock
    BY <1>2
  <2>2. CASE pc[c] = "lockPeriod" /\ pc'[c] = "lockAccounts" /\ todo'[c] = TouchedBy(c) /\ req' = req
    BY <1>2, <2>2
  <2>3. ASSUME pc[c] = "lockAccounts", req' = req, NEW b \in Account, ~AccountBusy(c, b),
               NextTurn(c, b, "lockAccounts", "readSeq")
        PROVE  HoldsAccount(c, t, a) \/ (t = req[c].tenant /\ ~AccountBusy(c, a))
    <3>1. CASE a = b  BY <1>2, <2>3, <3>1
    <3>2. CASE a # b
      <4>1. a \notin todo[c]
        BY <1>2, <2>3, <3>2, TurnEffect
      <4> QED  BY <1>2, <2>3, <4>1
    <3> QED  BY <3>1, <3>2
  <2>4. CASE pc[c] \in {"readSeq", "insertEntries"} \cup PastEntries /\ req' = req
    BY <1>2, <2>4
  <2> QED  BY <1>2, <2>1, <2>2, <2>3, <2>4, PostingSteps DEF Appends
<1> QED  BY <1>1, <1>2

\* Every step keeps AccountHeldOnce.
LEMMA HeldOnceNext == LogInv /\ AccountHeldOnce /\ [Next]_vars => AccountHeldOnce'
<1> SUFFICES ASSUME LogInv, AccountHeldOnce, [Next]_vars PROVE AccountHeldOnce'
  OBVIOUS
<1>1. ASSUME NEW c \in Call, CallStep(c) PROVE AccountHeldOnce'
  <2> SUFFICES ASSUME NEW d \in Call, NEW e \in Call, NEW t \in Tenant, NEW a \in Account,
                      HoldsAccount(d, t, a)', HoldsAccount(e, t, a)', d # e
               PROVE  FALSE
    BY DEF AccountHeldOnce
  <2>1. /\ HoldsAccount(d, t, a) \/ (d = c /\ t = req[c].tenant /\ ~AccountBusy(c, a))
        /\ HoldsAccount(e, t, a) \/ (e = c /\ t = req[c].tenant /\ ~AccountBusy(c, a))
    BY <1>1, HoldsGrows DEF LogInv
  <2> QED  BY <2>1 DEF AccountHeldOnce, AccountBusy
<1>2. CASE Admin
  BY <1>2, AdminKeeps DEF AccountHeldOnce, HoldsAccount, TouchedBy
<1>3. CASE UNCHANGED vars
  BY <1>3 DEF AccountHeldOnce, HoldsAccount, TouchedBy, vars
<1> QED  BY <1>1, <1>2, <1>3, StepKinds

\* A call that has uncommitted rows holds their accounts, under its tenant.
LEMMA RowsAreLocked ==
    ASSUME LogInv, OwnRows, NEW c \in Call, NEW e \in pending[c].entries
    PROVE  /\ HoldsAccount(c, req[c].tenant, e.account) /\ e.tenant = req[c].tenant
           /\ e.account \in Account /\ req[c].tenant \in Tenant
<1>1. pc[c] \in PastAccountLocks
  BY DEF LogInv, Written, WrittenOf
<1>2. req[c] \in Request /\ req[c].tenant \in Tenant /\ TouchedBy(c) \subseteq Account
  BY <1>1, AskedRequest DEF LogInv, PastAccountLocks, PastPeriodLock, Place, InTransaction
<1> QED  BY <1>1, <1>2, RequestAssumption DEF OwnRows, RowOf, HoldsAccount

\* Every step keeps OwnRows.
LEMMA OwnRowsNext == LogInv /\ OwnRows /\ [Next]_vars => OwnRows'
<1> SUFFICES ASSUME LogInv, OwnRows, [Next]_vars PROVE OwnRows'
  OBVIOUS
<1>1. ASSUME NEW c \in Call, CallStep(c) PROVE OwnRows'
  <2>0. \A d \in Call : \A e : pc[d] # "idle" /\ RowOf(d, e) => RowOf(d, e)'
    BY <1>1, RequestsStay DEF RowOf, TouchedBy
  <2>1. \A d \in Call : \A e \in pending[d].entries : RowOf(d, e)'
    BY <2>0 DEF OwnRows, LogInv, Written, WrittenOf, PastAccountLocks, PastPeriodLock
  <2>2. \A e \in entries : RowOf(e.tx, e)'
    <3> TAKE e \in entries
    <3>1. e.tx \in Call /\ pc[e.tx] # "idle"
      BY DEF LogInv, CommittedRows, Asked, AskedOf, TypeOK
    <3> QED  BY <2>0, <3>1 DEF OwnRows
  <2>3. \A d \in Call \ {c} : pending'[d].entries = pending[d].entries
    BY <1>1, OthersKeep DEF LogInv
  <2>4. CASE KeepsLog(c)
    BY <2>1, <2>2, <2>3, <2>4 DEF KeepsLog, OwnRows
  <2>5. ASSUME NEW a \in Account, Appends(c, a) PROVE OwnRows'
    <3>1. a \in TouchedBy(c) /\ pc[c] # "idle"
      BY <2>5 DEF Appends, IsNext, LogInv, Asked, AskedOf, PastPeriodLock
    <3>2. \A e \in NewEntries(c, a) : RowOf(c, e)
      BY <3>1 DEF NewEntries, EntriesAt, RowOf
    <3>3. \A e \in NewEntries(c, a) : RowOf(c, e)'
      BY <2>0, <3>1, <3>2
    <3> QED  BY <2>1, <2>2, <2>3, <2>5, <3>3 DEF Appends, OwnRows
  <2>6. CASE CommitsLog(c)
    <3>1. \A e \in pending[c].entries : e.tx = c
      BY DEF LogInv, Written, WrittenOf
    <3> QED  BY <2>1, <2>2, <2>3, <2>6, <3>1 DEF CommitsLog, OwnRows
  <2> QED  BY <1>1, <2>4, <2>5, <2>6, LogSteps DEF LogInv
<1>2. CASE Admin  BY <1>2, AdminKeeps DEF OwnRows, RowOf, TouchedBy
<1>3. CASE UNCHANGED vars  BY <1>3 DEF OwnRows, RowOf, TouchedBy, vars
<1> QED  BY <1>1, <1>2, <1>3, StepKinds

\* Every step keeps BaseAboveTenant: who could add a row needs the lock.
LEMMA BaseAboveNext == LogInv /\ HoldInv /\ [Next]_vars => BaseAboveTenant'
<1> SUFFICES ASSUME LogInv, HoldInv, [Next]_vars PROVE BaseAboveTenant'
  OBVIOUS
<1>1. ASSUME NEW c \in Call, CallStep(c), NEW d \in Call, NEW a \in Account,
             pc'[d] = "insertEntries", IsNext(d, a)',
             NEW f \in LogOf(a)', f.tenant = req'[d].tenant
      PROVE  f.seq <= base'[d]
  <2>1. CASE d = c
    <3>1. ReadSeq(c) /\ req' = req /\ todo' = todo /\ entries' = entries /\ pc[c] = "readSeq"
      BY <1>1, <2>1, ComesFromRead DEF LogInv, ReadSeq, tables
    <3>2. IsNext(c, a)
      BY <1>1, <2>1, <3>1 DEF IsNext
    <3>3. base' = [base EXCEPT ![c] = HighestSeq(LogSeen(c, a))]
      BY <3>1, <3>2, OneNext DEF ReadSeq, LogInv, TypeOK
    <3>4. LogSeen(c, a) = LogOf(a) /\ LogOf(a)' = LogOf(a)
      BY <3>1, <3>2 DEF LogInv, Written, WrittenOf, LogSeen, LogOf, IsNext
    <3>5. PICK m \in Nat : NumberedTo(LogOf(a), m)
      BY DEF LogInv, LogsNumbered, Numbered
    <3>6. base'[c] = m
      BY <3>3, <3>4, <3>5, HighestOfNumbered DEF LogInv, TypeOK
    <3> QED  BY <1>1, <2>1, <3>4, <3>5, <3>6 DEF NumberedTo
  <2>2. CASE d # c
    <3>1. /\ pc[d] = "insertEntries" /\ IsNext(d, a) /\ req'[d] = req[d] /\ base'[d] = base[d]
      BY <1>1, <2>2, OthersKeep DEF LogInv, IsNext
    <3>2. CASE f \in entries
      BY <1>1, <3>1, <3>2 DEF HoldInv, BaseAboveTenant, LogOf
    <3>3. CASE f \notin entries
      <4>1. f \in pending[c].entries /\ f.account = a
        BY <1>1, <3>3, LogSteps DEF LogInv, KeepsLog, Appends, CommitsLog, LogOf
      <4>2. HoldsAccount(c, req[c].tenant, a) /\ f.tenant = req[c].tenant /\ req[c].tenant \in Tenant
        BY <4>1, RowsAreLocked DEF HoldInv
      <4>3. HoldsAccount(d, req[d].tenant, a)
        <5>1. req[d] \in Request
          BY <3>1, AskedRequest DEF LogInv, Place, InTransaction
        <5>2. a \in TouchedBy(d)
          BY <3>1 DEF LogInv, Asked, AskedOf, PastPeriodLock, IsNext
        <5> QED  BY <3>1, <5>1, <5>2, RequestAssumption DEF HoldsAccount, PastAccountLocks, PastPeriodLock
      <4> QED  BY <1>1, <2>2, <3>1, <4>2, <4>3 DEF HoldInv, AccountHeldOnce
    <3> QED  BY <3>2, <3>3
  <2> QED  BY <2>1, <2>2
<1>2. ASSUME NEW c \in Call, CallStep(c) PROVE BaseAboveTenant'
  BY <1>1, <1>2 DEF BaseAboveTenant
<1>3. CASE Admin
  BY <1>3, AdminKeeps DEF HoldInv, BaseAboveTenant, IsNext, LogOf
<1>4. CASE UNCHANGED vars
  BY <1>4 DEF HoldInv, BaseAboveTenant, IsNext, LogOf, vars
<1> QED  BY <1>2, <1>3, <1>4, StepKinds

\* HoldInv holds in every reachable state.
THEOREM HoldAlways == Spec => []HoldInv
<1>1. Init => HoldInv
  BY DEF Init, HoldInv, AccountHeldOnce, HoldsAccount, OwnRows, BaseAboveTenant, NoWrites
<1>2. LogInv /\ HoldInv /\ [Next]_vars => HoldInv'
  BY HeldOnceNext, OwnRowsNext, BaseAboveNext DEF HoldInv
<1> QED  BY <1>1, <1>2, LogAlways, PTL DEF Spec

\* Two calls of one tenant never reach for the same seq of an account, whatever
\* the others do: only tenants that share an account id can collide (MAX(seq) is
\* read and used under the account lock, post.ts:134-179).
THEOREM SeqFreeInsideTenant == Spec => []SeqTakenOnlyAcrossTenants
<1>1. LogInv /\ HoldInv => SeqTakenOnlyAcrossTenants
  <2> SUFFICES ASSUME LogInv, HoldInv, NEW c \in Call, NEW a \in Account,
                      pc[c] = "insertEntries", IsNext(c, a),
                      NEW e \in NewEntries(c, a),
                      NEW f \in entries \cup UNION {pending[d].entries : d \in Call \ {c}},
                      f.tenant = req[c].tenant, f.account = e.account, f.seq = e.seq
               PROVE  FALSE
    BY DEF SeqTakenOnlyAcrossTenants, Collides
  <2>1. e.account = a /\ \E i \in DOMAIN req[c].legs[a] : e.seq = base[c] + i
    BY DEF NewEntries, EntriesAt
  <2>2. /\ req[c] \in Request /\ RequestType(req[c]) /\ a \in TouchedBy(c) /\ base[c] \in Nat
        /\ req[c].tenant \in Tenant
    BY AskedRequest DEF LogInv, Place, InTransaction, Asked, AskedOf, PastPeriodLock, IsNext, TypeOK
  <2>3. DOMAIN req[c].legs[a] \subseteq Nat \ {0}
    BY <2>2 DEF RequestType, TouchedBy
  <2>4. CASE f \in entries
    <3>1. f.seq \in Nat /\ f.seq <= base[c]
      BY <2>1, <2>4 DEF HoldInv, BaseAboveTenant, LogOf, LogInv, TypeOK, Entry
    <3> QED  BY <2>1, <2>2, <2>3, <3>1
  <2>5. ASSUME NEW d \in Call \ {c}, f \in pending[d].entries PROVE FALSE
    <3>1. HoldsAccount(d, req[d].tenant, a) /\ f.tenant = req[d].tenant
      BY <2>1, <2>5, RowsAreLocked DEF HoldInv
    <3>2. HoldsAccount(c, req[c].tenant, a)
      BY <2>2, RequestAssumption DEF HoldsAccount, PastAccountLocks, PastPeriodLock
    <3> QED  BY <2>2, <3>1, <3>2 DEF HoldInv, AccountHeldOnce
  <2> QED  BY <2>4, <2>5
<1> QED  BY <1>1, LogAlways, HoldAlways, PTL

-----------------------------------------------------------------------------
(***************************************************************************)
(* All or nothing.                                                         *)
(***************************************************************************)
\* The rows a call inserts for an account are its lines, side by side.
LEMMA EntriesAreWhole ==
    ASSUME LogInv, NEW c \in Call, pc[c] \in Place \ {"idle", "done"}, NEW a \in TouchedBy(c),
           NEW m \in Nat, NEW S, RowsOn(S, c, a) = EntriesAt(c, a, m)
    PROVE  Whole(S, c, a)
<1> DEFINE e == [tx |-> c, tenant |-> req[c].tenant, account |-> a,
                 amount |-> req[c].legs[a][1], seq |-> m + 1]
<1>1. req[c].legs[a] \in Seq(Int) \ {<<>>}
  BY AskedRequest DEF LogInv, RequestType, TouchedBy
<1>2. 1 \in DOMAIN req[c].legs[a]
  BY <1>1
<1>3. e \in EntriesAt(c, a, m)
  BY <1>2 DEF EntriesAt
<1>4. e.seq - 1 = m
  OBVIOUS
<1> HIDE DEF e
<1> QED  BY <1>3, <1>4 DEF Whole

\* The rows of c on a in T are what Whole says after the step.
WholeThen(T, c, a) ==
    \E e \in RowsOn(T, c, a) : RowsOn(T, c, a) = EntriesAt(c, a, e.seq - 1)'

\* A step that keeps a call's request keeps what its rows would be.
LEMMA WholeStays ==
    ASSUME NEW c \in Call, NEW a, NEW S, NEW T, Whole(S, c, a), req'[c] = req[c],
           RowsOn(T, c, a) = RowsOn(S, c, a)
    PROVE  WholeThen(T, c, a)
<1>1. \A m : EntriesAt(c, a, m)' = EntriesAt(c, a, m)
  BY DEF EntriesAt
<1> QED  BY <1>1 DEF Whole, WholeThen

\* Every step keeps WholeSoFar.
LEMMA WholeSoFarNext == LogInv /\ WholeSoFar /\ [Next]_vars => WholeSoFar'
<1> SUFFICES ASSUME LogInv, WholeSoFar, [Next]_vars PROVE WholeSoFar'
  OBVIOUS
<1>1. ASSUME NEW c \in Call, CallStep(c), NEW d \in Call, NEW a \in Account, Inserted(d, a)'
      PROVE  Whole(pending[d].entries, d, a)'
  <2>1. CASE d # c
    <3>1. req'[d] = req[d] /\ pending'[d] = pending[d] /\ Inserted(d, a)
      BY <1>1, <2>1, OthersKeep DEF LogInv, Inserted, TouchedBy
    <3>2. Whole(pending[d].entries, d, a)
      BY <3>1 DEF WholeSoFar
    <3>3. WholeThen(pending'[d].entries, d, a)
      BY <3>1, <3>2, WholeStays
    <3> QED  BY <3>3 DEF Whole, WholeThen, RowsOn
  <2>2. CASE d = c
    <3> USE DEF Inserted, TouchedBy, PastPeriodLock, PastEntries
    <3>0. pc'[c] \in PastPeriodLock
      BY <1>1, <2>2
    <3>1. req' = req
      BY <1>1, <3>0, PostingSteps DEF LogInv
    <3>2. ASSUME Inserted(c, a), pending'[c].entries = pending[c].entries
          PROVE  Whole(pending[c].entries, c, a)'
      <4>1. Whole(pending[c].entries, c, a)
        BY <3>2 DEF WholeSoFar
      <4>2. WholeThen(pending'[c].entries, c, a)
        BY <3>1, <3>2, <4>1, WholeStays
      <4> QED  BY <4>2 DEF Whole, WholeThen, RowsOn
    <3>3. ASSUME pc'[c] = "lockAccounts" PROVE FALSE
      BY <1>1, <2>2, <3>3
    <3>4. ASSUME NEW b \in Account, NextTurn(c, b, "lockAccounts", "readSeq")
          PROVE  FALSE
      <4>1. pc'[c] = "lockAccounts" \/ todo'[c] = TouchedBy(c)
        BY <3>4, TurnEffect DEF LogInv
      <4>2. pc'[c] \in {"lockAccounts", "readSeq"}
        BY <3>4, TurnEffect DEF LogInv
      <4> QED  BY <1>1, <2>2, <3>1, <4>1, <4>2
    <3>5. ASSUME pc[c] = "readSeq" /\ pc'[c] = "insertEntries" /\ pending' = pending /\ todo' = todo
          PROVE  Whole(pending[c].entries, c, a)'
      BY <1>1, <2>2, <3>1, <3>2, <3>5
    <3>6. ASSUME NEW b \in Account, Appends(c, b)
          PROVE  Whole(pending[c].entries, c, a)'
      <4>1. pc[c] = "insertEntries" /\ b \in TouchedBy(c) /\ base[c] \in Nat
        BY <3>6 DEF LogInv, Appends, IsNext, Asked, AskedOf, TypeOK
      <4>2. pending'[c].entries = pending[c].entries \cup EntriesAt(c, b, base[c])
        BY <3>6 DEF Appends, NewEntries
      <4>3. \A e \in EntriesAt(c, b, base[c]) : e.tx = c /\ e.account = b
        BY DEF EntriesAt
      <4>4. CASE a = b
        <5>1. RowsOn(pending'[c].entries, c, b) = EntriesAt(c, b, base[c])
          BY <3>6, <4>2, <4>3, AppendContinues DEF RowsOn
        <5>2. Whole(pending'[c].entries, c, b)
          BY <4>1, <5>1, EntriesAreWhole DEF Place, InTransaction
        <5>3. WholeThen(pending'[c].entries, c, b)
          BY <3>1, <5>2, WholeStays
        <5> QED  BY <4>4, <5>3 DEF Whole, WholeThen, RowsOn
      <4>5. CASE a # b
        <5>1. a \notin todo[c] /\ a \in TouchedBy(c)
          BY <1>1, <2>2, <3>1, <3>6, <4>5, TurnEffect DEF Appends, LogInv
        <5>2. Whole(pending[c].entries, c, a)
          BY <4>1, <5>1 DEF WholeSoFar
        <5>3. RowsOn(pending'[c].entries, c, a) = RowsOn(pending[c].entries, c, a)
          BY <4>2, <4>3, <4>5 DEF RowsOn
        <5>4. WholeThen(pending'[c].entries, c, a)
          BY <3>1, <5>2, <5>3, WholeStays
        <5> QED  BY <5>4 DEF Whole, WholeThen, RowsOn
      <4> QED  BY <4>4, <4>5
    <3>7. ASSUME pc[c] \in PastEntries /\ pc'[c] \in PastEntries /\ pending'[c].entries = pending[c].entries
          PROVE  Whole(pending[c].entries, c, a)'
      BY <1>1, <2>2, <3>1, <3>2, <3>7
    <3>8. Whole(pending[c].entries, c, a)'
      <4>1. \/ pc'[c] = "lockAccounts"
            \/ \E b \in Account : NextTurn(c, b, "lockAccounts", "readSeq")
            \/ pc[c] = "readSeq" /\ pc'[c] = "insertEntries" /\ pending' = pending /\ todo' = todo
            \/ \E b \in Account : Appends(c, b)
            \/ /\ pc[c] \in PastEntries /\ pc'[c] \in PastEntries
               /\ pending'[c].entries = pending[c].entries
        BY <1>1, <3>0, PostingSteps DEF LogInv
      <4> QED  BY ONLY <3>3, <3>4, <3>5, <3>6, <3>7, <4>1
    <3> QED  BY <2>2, <3>8
  <2> QED  BY <2>1, <2>2
<1>2. ASSUME NEW c \in Call, CallStep(c) PROVE WholeSoFar'
  BY <1>1, <1>2 DEF WholeSoFar
<1>3. CASE Admin
  BY <1>3, AdminKeeps DEF WholeSoFar, Inserted, Whole, RowsOn, EntriesAt, TouchedBy
<1>4. CASE UNCHANGED vars
  BY <1>4 DEF WholeSoFar, Inserted, Whole, RowsOn, EntriesAt, TouchedBy, vars
<1> QED  BY <1>2, <1>3, <1>4, StepKinds

\* Every step keeps WholeOnceCommitted: COMMIT comes after the last line.
LEMMA WholeCommittedNext ==
    LogInv /\ WholeSoFar /\ WholeOnceCommitted /\ [Next]_vars => WholeOnceCommitted'
<1> SUFFICES ASSUME LogInv, WholeSoFar, WholeOnceCommitted, [Next]_vars PROVE WholeOnceCommitted'
  OBVIOUS
<1>1. ASSUME NEW c \in Call, CallStep(c), NEW d \in transactions', NEW a \in TouchedBy(d)'
      PROVE  Whole(entries, d, a)'
  <2>1. CASE d \in transactions
    <3>1. d \in Call /\ req'[d] = req[d]
      BY <1>1, <2>1, RequestsStay
    <3>2. Whole(entries, d, a)
      BY <1>1, <2>1, <3>1 DEF WholeOnceCommitted, TouchedBy
    <3>3. pending[c].entries # {} => d # c
      BY <2>1 DEF LogInv, Asked, AskedOf, Written, WrittenOf, PastAccountLocks, PastPeriodLock
    <3>4. RowsOn(entries', d, a) = RowsOn(entries, d, a)
      <4>1. \A e \in pending[c].entries : e.tx = c
        BY DEF LogInv, Written, WrittenOf
      <4>2. entries' \in {entries, entries \cup pending[c].entries}
        BY <1>1, LogSteps DEF LogInv, KeepsLog, Appends, CommitsLog
      <4> QED  BY <3>3, <4>1, <4>2 DEF RowsOn
    <3>5. WholeThen(entries', d, a)
      BY <3>1, <3>2, <3>4, WholeStays
    <3> QED  BY <3>5 DEF Whole, WholeThen, RowsOn
  <2>2. CASE d \notin transactions
    <3>1. d = c /\ CommitsLog(c) /\ pc[c] = "commit"
      BY <1>1, <2>2, LogSteps DEF LogInv, KeepsLog, Appends, CommitsLog
    <3>2. req'[c] = req[c] /\ a \in TouchedBy(c) /\ a \in Account
      <4>1. req'[c] = req[c]
        BY <1>1, <3>1, RequestsStay
      <4> QED
        BY <1>1, <3>1, <4>1, AskedRequest DEF LogInv, Place, InTransaction, TouchedBy
    <3>3. Whole(pending[c].entries, c, a)
      BY <3>1, <3>2 DEF WholeSoFar, Inserted, PastEntries
    <3>4. RowsOn(entries', c, a) = RowsOn(pending[c].entries, c, a)
      <4>1. \A e \in entries : e.tx # c
        BY <2>2, <3>1 DEF LogInv, CommittedRows
      <4> QED  BY <3>1, <4>1 DEF CommitsLog, RowsOn
    <3>5. WholeThen(entries', c, a)
      BY <3>2, <3>3, <3>4, WholeStays
    <3> QED  BY <3>1, <3>5 DEF Whole, WholeThen, RowsOn
  <2> QED  BY <2>1, <2>2
<1>2. ASSUME NEW c \in Call, CallStep(c) PROVE WholeOnceCommitted'
  BY <1>1, <1>2 DEF WholeOnceCommitted
<1>3. CASE Admin
  BY <1>3, AdminKeeps DEF WholeOnceCommitted, Whole, RowsOn, EntriesAt, TouchedBy
<1>4. CASE UNCHANGED vars
  BY <1>4 DEF WholeOnceCommitted, Whole, RowsOn, EntriesAt, TouchedBy, vars
<1> QED  BY <1>2, <1>3, <1>4, StepKinds

\* Every step keeps OneEvent.
LEMMA OneEventNext == LogInv /\ OneEvent /\ [Next]_vars => OneEvent'
<1> SUFFICES ASSUME LogInv, OneEvent, [Next]_vars PROVE OneEvent'
  OBVIOUS
<1>1. ASSUME NEW c \in Call, CallStep(c) PROVE OneEvent'
  <2>1. CASE UNCHANGED <<transactions, entries, balances, outbox>>
    BY <2>1 DEF OneEvent
  <2>2. CASE Commits(c)
    <3>1. c \notin transactions
      BY <2>2 DEF Commits, LogInv, Asked, AskedOf
    <3> DEFINE o == [event |-> pending[c].event, tx |-> c]
    <3>2. o.tx = c /\ outbox' = outbox \cup {o} /\ transactions' = transactions \cup {c}
      BY <2>2 DEF Commits
    <3> HIDE DEF o
    <3> QED  BY <3>1, <3>2 DEF OneEvent
  <2> QED  BY <1>1, <2>1, <2>2, TableSteps DEF LogInv
<1>2. CASE Admin  BY <1>2, AdminKeeps DEF OneEvent
<1>3. CASE UNCHANGED vars  BY <1>3 DEF OneEvent, vars
<1> QED  BY <1>1, <1>2, <1>3, StepKinds

\* WholeInv holds in every reachable state.
THEOREM WholeAlways == Spec => []WholeInv
<1>1. Init => WholeInv
  BY DEF Init, WholeInv, WholeSoFar, Inserted, PastEntries, WholeOnceCommitted, OneEvent
<1>2. LogInv /\ WholeInv /\ [Next]_vars => WholeInv'
  BY WholeSoFarNext, WholeCommittedNext, OneEventNext DEF WholeInv
<1> QED  BY <1>1, <1>2, LogAlways, PTL DEF Spec

\* Wherever calls fail and however they interleave, a committed transaction has
\* exactly the lines of its request, side by side in each log, and one event, and any
\* other call has left nothing (one db.transaction(), post.ts:78-246).
THEOREM PostingIsAtomic == Spec => []AllOrNothing
<1>1. LogInv /\ HoldInv /\ WholeInv => AllOrNothing
  <2> SUFFICES ASSUME LogInv, HoldInv, WholeInv, NEW c \in Call
               PROVE  LET rows == {e \in entries : e.tx = c}
                          events == {o \in outbox : o.tx = c}
                      IN  IF c \in transactions
                          THEN /\ \E o \in outbox : events = {o}
                               /\ \A a \in TouchedBy(c) :
                                     \E e \in rows : {f \in rows : f.account = a} = EntriesAt(c, a, e.seq - 1)
                               /\ \A e \in rows : e.account \in TouchedBy(c)
                          ELSE rows = {} /\ events = {}
    BY DEF AllOrNothing
  <2> DEFINE rows == {e \in entries : e.tx = c}
             events == {o \in outbox : o.tx = c}
  <2>1. CASE c \in transactions
    <3>1. \E o \in outbox : events = {o}
      <4>1. PICK o \in outbox : \A p \in outbox : p.tx = c <=> p = o
        BY <2>1 DEF WholeInv, OneEvent
      <4> QED  BY <4>1
    <3>2. ASSUME NEW a \in TouchedBy(c)
          PROVE  \E e \in rows : {f \in rows : f.account = a} = EntriesAt(c, a, e.seq - 1)
      <4>1. RowsOn(entries, c, a) = {f \in rows : f.account = a}
        BY DEF RowsOn
      <4>2. Whole(entries, c, a)
        BY <2>1 DEF WholeInv, WholeOnceCommitted
      <4> QED  BY <4>1, <4>2 DEF Whole
    <3>3. \A e \in rows : e.account \in TouchedBy(c)
      BY DEF HoldInv, OwnRows, RowOf
    <3> QED  BY <2>1, <3>1, <3>2, <3>3
  <2>2. CASE c \notin transactions
    BY <2>2 DEF LogInv, CommittedRows, WholeInv, OneEvent
  <2> QED  BY <2>1, <2>2
<1> QED  BY <1>1, LogAlways, HoldAlways, WholeAlways, PTL

-----------------------------------------------------------------------------
(***************************************************************************)
(* The event ids.                                                          *)
(***************************************************************************)
\* Uncommitted rows come after the committed rows of their account.
LEMMA PendingAfterLog ==
    ASSUME LogInv, NEW c \in Call, NEW e \in pending[c].entries, NEW f \in entries,
           e.account = f.account, e.account \in Account
    PROVE  f.seq < e.seq
<1> DEFINE a == e.account
<1>1. PICK m \in Nat : NumberedTo(LogOf(a), m)
  BY DEF LogInv, LogsNumbered, Numbered
<1>2. PICK n \in Nat : NumberedTo(LogSeen(c, a), n)
  BY DEF LogInv, LogsNumbered, Numbered
<1>3. f \in LogOf(a) /\ e \in LogSeen(c, a) /\ LogOf(a) \subseteq LogSeen(c, a) /\ e \notin LogOf(a)
  BY RowsApart DEF LogOf, LogSeen
<1>4. f.seq \in 1 .. m /\ e.seq \in 1 .. n
  BY <1>1, <1>2, <1>3 DEF NumberedTo
<1>5. e.seq \notin 1 .. m
  BY <1>1, <1>2, <1>3 DEF NumberedTo
<1> QED  BY <1>4, <1>5

\* Every step keeps EventsDrawn.
LEMMA EventsDrawnNext == LogInv /\ EventsDrawn /\ [Next]_vars => EventsDrawn'
<1> SUFFICES ASSUME LogInv, EventsDrawn, [Next]_vars PROVE EventsDrawn'
  OBVIOUS
<1>0. /\ nextEvent \in Nat /\ \A o \in outbox : o.event \in Nat
      /\ \A d \in Call : pending[d].event \in Nat /\ pending[d].event < nextEvent
  BY DEF LogInv, TypeOK, Writes, EventsDrawn
<1>1. ASSUME NEW c \in Call, CallStep(c) PROVE EventsDrawn'
  <2>0. \A d \in Call \ {c} : pending'[d] = pending[d]
    BY <1>1, OthersKeep DEF LogInv
  <2>1. nextEvent' \in {nextEvent, nextEvent + 1} /\ pending'[c].event < nextEvent'
    BY <1>0, <1>1, TableSteps DEF LogInv
  <2>2. \A o \in outbox' : o.event < nextEvent'
    <3>1. CASE UNCHANGED <<transactions, entries, balances, outbox>>
      BY <1>0, <2>1, <3>1 DEF EventsDrawn
    <3>2. CASE Commits(c)
      BY <1>0, <2>1, <3>2 DEF EventsDrawn, Commits
    <3> QED  BY <1>1, <3>1, <3>2, TableSteps DEF LogInv
  <2>3. \A d \in Call : pending'[d].event < nextEvent'
    BY <1>0, <2>0, <2>1
  <2> QED  BY <2>2, <2>3 DEF EventsDrawn
<1>2. CASE Admin  BY <1>2, AdminKeeps DEF EventsDrawn
<1>3. CASE UNCHANGED vars  BY <1>3 DEF EventsDrawn, vars
<1> QED  BY <1>1, <1>2, <1>3, StepKinds

\* Every step keeps DrawnAfterLog: who could commit a row after the event is drawn
\* would have uncommitted entries on the same account.
LEMMA DrawnAfterNext == LogInv /\ EventInv /\ OneEvent /\ [Next]_vars => DrawnAfterLog'
<1> SUFFICES ASSUME LogInv, EventInv, OneEvent, [Next]_vars PROVE DrawnAfterLog'
  OBVIOUS
<1> USE DEF EventInv
<1>1. ASSUME NEW c \in Call, CallStep(c), NEW d \in Call, pc'[d] = "commit",
             NEW e \in pending'[d].entries, NEW f \in entries', NEW o \in outbox',
             e.account = f.account, o.tx = f.tx
      PROVE  o.event < pending'[d].event
  <2>1. CASE d = c
    <3>1. /\ pending'[c].event = nextEvent
          /\ UNCHANGED <<transactions, entries, balances, outbox>>
      BY <1>1, <2>1, TableSteps DEF LogInv, Commits
    <3> QED  BY <1>1, <2>1, <3>1 DEF EventsDrawn
  <2>2. CASE d # c
    <3>1. pending'[d] = pending[d] /\ pc[d] = "commit"
      BY <1>1, <2>2, OthersKeep DEF LogInv
    <3>2. CASE UNCHANGED <<transactions, entries, balances, outbox>>
      BY <1>1, <3>1, <3>2 DEF DrawnAfterLog
    <3>3. CASE Commits(c)
      <4>1. f \in entries
        BY <1>1, <2>2, <3>1, <3>3 DEF Commits, LogInv, LogsNumbered
      <4>2. o \in outbox
        <5>1. f.tx # c
          BY <3>3, <4>1 DEF Commits, LogInv, CommittedRows, Asked, AskedOf
        <5> QED  BY <1>1, <3>3, <5>1 DEF Commits
      <4> QED  BY <1>1, <3>1, <4>1, <4>2 DEF DrawnAfterLog
    <3> QED  BY <1>1, <3>2, <3>3, TableSteps DEF LogInv
  <2> QED  BY <2>1, <2>2
<1>2. ASSUME NEW c \in Call, CallStep(c) PROVE DrawnAfterLog'
  BY <1>1, <1>2 DEF DrawnAfterLog
<1>3. CASE Admin  BY <1>3, AdminKeeps DEF DrawnAfterLog
<1>4. CASE UNCHANGED vars  BY <1>4 DEF DrawnAfterLog, vars
<1> QED  BY <1>2, <1>3, <1>4, StepKinds

\* Every step keeps EventsFollowLog.
LEMMA EventsFollowNext == LogInv /\ EventInv /\ OneEvent /\ [Next]_vars => EventsFollowLog'
<1> SUFFICES ASSUME LogInv, EventInv, OneEvent, [Next]_vars PROVE EventsFollowLog'
  OBVIOUS
<1> USE DEF EventInv
<1>1. ASSUME NEW c \in Call, Commits(c), NEW e \in entries', NEW f \in entries',
             e.account = f.account, e.seq < f.seq, e.tx # f.tx,
             NEW o \in outbox', NEW p \in outbox', o.tx = e.tx, p.tx = f.tx
      PROVE  o.event < p.event
  <2>1. /\ \A x \in pending[c].entries : x.tx = c /\ x.account \in Account
        /\ \A x \in entries : x.tx # c
        /\ \A x \in outbox : x.tx # c
    <3>1. c \notin transactions
      BY <1>1 DEF Commits, LogInv, Asked, AskedOf
    <3>2. \A x \in pending[c].entries : x.tx = c /\ x.account \in Account
      BY DEF LogInv, Written, WrittenOf, TypeOK, Writes, Entry
    <3> QED  BY <3>1, <3>2 DEF LogInv, CommittedRows, OneEvent
  <2>2. /\ entries' = entries \cup pending[c].entries /\ pc[c] = "commit"
        /\ outbox' = outbox \cup {[event |-> pending[c].event, tx |-> c]}
    BY <1>1 DEF Commits
  <2>3. CASE e \in entries /\ f \in entries
    <3>1. o \in outbox /\ p \in outbox
      BY <1>1, <2>1, <2>2, <2>3
    <3> QED  BY <1>1, <2>3, <3>1 DEF EventsFollowLog
  <2>4. CASE e \in entries /\ f \in pending[c].entries
    <3>1. o \in outbox /\ p.event = pending[c].event
      BY <1>1, <2>1, <2>2, <2>4
    <3> QED  BY <1>1, <2>2, <2>4, <3>1 DEF DrawnAfterLog
  <2>5. CASE e \in pending[c].entries /\ f \in entries
    <3>1. f.seq < e.seq
      BY <1>1, <2>1, <2>5, PendingAfterLog
    <3>2. e.seq \in Nat /\ f.seq \in Nat
      BY <2>5 DEF LogInv, TypeOK, Writes, Entry
    <3> QED  BY <1>1, <3>1, <3>2
  <2>6. CASE e \in pending[c].entries /\ f \in pending[c].entries
    BY <1>1, <2>1, <2>6
  <2> QED  BY <2>2, <2>3, <2>4, <2>5, <2>6
<1>2. ASSUME NEW c \in Call, CallStep(c) PROVE EventsFollowLog'
  <2>1. CASE UNCHANGED <<transactions, entries, balances, outbox>>
    BY <2>1 DEF EventsFollowLog
  <2>2. CASE Commits(c)  BY <1>1, <2>2 DEF EventsFollowLog
  <2> QED  BY <1>2, <2>1, <2>2, TableSteps DEF LogInv
<1>3. CASE Admin  BY <1>3, AdminKeeps DEF EventsFollowLog
<1>4. CASE UNCHANGED vars  BY <1>4 DEF EventsFollowLog, vars
<1> QED  BY <1>2, <1>3, <1>4, StepKinds

\* EventInv holds in every reachable state.
THEOREM EventsAlways == Spec => []EventInv
<1>1. Init => EventInv
  BY DEF Init, EventInv, EventsDrawn, DrawnAfterLog, EventsFollowLog, NoWrites
<1>2. LogInv /\ WholeInv /\ EventInv /\ [Next]_vars => EventInv'
  BY EventsDrawnNext, DrawnAfterNext, EventsFollowNext DEF EventInv, WholeInv
<1> QED  BY <1>1, <1>2, LogAlways, WholeAlways, PTL DEF Spec

\* A relay that reads by event_id sees the history of every account in order: ids
\* are drawn by nextval while the calls that continue a log exclude each other
\* (post.ts:218-233).
THEOREM EventsInLogOrder == Spec => []EventsFollowLog
<1>1. EventInv => EventsFollowLog
  BY DEF EventInv
<1> QED  BY <1>1, EventsAlways, PTL

-----------------------------------------------------------------------------
(***************************************************************************)
(* Spendable balances.                                                     *)
(***************************************************************************)
\* No commit, whatever was read before it, leaves a spendable account overdrawn:
\* the deferred trigger looks at the row the transaction leaves (migration 002).
THEOREM AssetsStayCovered == Spec => []AssetsNeverNegative
<1>1. Init => AssetsNeverNegative
  BY DEF Init, AssetsNeverNegative
<1>2. LogInv /\ AssetsNeverNegative /\ [Next]_vars => AssetsNeverNegative'
  <2> SUFFICES ASSUME LogInv, AssetsNeverNegative, [Next]_vars PROVE AssetsNeverNegative'
    OBVIOUS
  <2>1. ASSUME NEW c \in Call, CallStep(c) PROVE AssetsNeverNegative'
    <3>1. CASE UNCHANGED <<transactions, entries, balances, outbox>>
      BY <3>1 DEF AssetsNeverNegative
    <3>2. CASE Commits(c)
      <4> SUFFICES ASSUME NEW a \in Account, balances'[a] # None,
                          AccountType[<<balances'[a].tenant, a>>] = "asset"
                   PROVE  balances'[a].amount >= 0
        BY DEF AssetsNeverNegative
      <4>1. CASE pending[c].balances[a] = None
        <5>1. balances'[a] = balances[a]
          BY <3>2, <4>1 DEF Commits
        <5> QED  BY <5>1 DEF AssetsNeverNegative
      <4>2. CASE pending[c].balances[a] # None
        <5>1. balances'[a] = pending[c].balances[a] /\ ~Overdrawn("asset", balances'[a].amount)
          BY <3>2, <4>2 DEF Commits, Spendable
        <5>2. pending[c].balances[a] \in BalanceRow
          BY <4>2 DEF LogInv, TypeOK, Writes
        <5> QED  BY <5>1, <5>2 DEF Overdrawn, BalanceRow
      <4> QED  BY <4>1, <4>2
    <3> QED  BY <2>1, <3>1, <3>2, TableSteps DEF LogInv
  <2>2. CASE Admin  BY <2>2, AdminKeeps DEF AssetsNeverNegative
  <2>3. CASE UNCHANGED vars  BY <2>3 DEF AssetsNeverNegative, vars
  <2> QED  BY <2>1, <2>2, <2>3, StepKinds
<1> QED  BY <1>1, <1>2, LogAlways, PTL DEF Spec
-----------------------------------------------------------------------------
(***************************************************************************)
(* The stored balances: what their invariant says.                         *)
(***************************************************************************)
\* The stored amount of an account id, 0 where there is no row.
Booked(a) == IF balances[a] = None THEN 0 ELSE balances[a].amount

\* The balance of a is settled by c: upserted, or skipped because its lines cancel out.
Positioned(c, a) ==
    /\ a \in TouchedBy(c)
    /\ \/ pc[c] \in {"insertOutbox", "commit"}
       \/ pc[c] \in {"readPosition", "upsertBalance"} /\ a \notin todo[c]

PositionsAdded ==
    \A c \in Call, a \in Account :
        /\ pending[c].balances[a] # None =>
              Positioned(c, a) /\ pending[c].balances[a].amount = Booked(a) + Net(req[c], a)
        /\ Positioned(c, a) /\ pending[c].balances[a] = None => Net(req[c], a) = 0

BalanceHeldOnce ==
    \A c, d \in Call, a \in Account :
        pending[c].balances[a] # None /\ pending[d].balances[a] # None => c = d

RowsFinite == IsFiniteSet(entries) /\ \A c \in Call : IsFiniteSet(pending[c].entries)

BalanceInv == PositionsAdded /\ BalanceHeldOnce /\ RowsFinite /\ BalanceIsSumOfLog

-----------------------------------------------------------------------------
(***************************************************************************)
(* Totals.                                                                 *)
(***************************************************************************)
Amounts(S) == [e \in S |-> e.amount]
HasAmounts(S) == \A e \in S : e.amount \in Int

\* Total is the sum of the amounts.
LEMMA TotalIsSum ==
    ASSUME NEW S, IsFiniteSet(S)
    PROVE  Total(S) = SumOver(Amounts(S), S)
<1> DEFINE g == Amounts(S)
           F(i) == [s \in SUBSET S |->
                      IF s = {} THEN 0
                      ELSE (CHOOSE x \in s : TRUE).amount + i[s \ {CHOOSE x \in s : TRUE}]]
           j == CHOOSE i : i = F(i)
<1>1. ASSUME NEW s \in SUBSET S, s # {}
      PROVE  Pick(s).amount = g[Pick(s)] /\ Pick(s) = CHOOSE x \in s : TRUE
  BY <1>1, PickOne DEF Amounts, Pick
<1>2. ASSUME NEW h PROVE SumsUp(h, g, S) <=> h = F(h)
  <2> DEFINE G == [s \in SUBSET S |-> IF s = {} THEN 0 ELSE g[Pick(s)] + h[s \ {Pick(s)}]]
  <2>1. \A s \in SUBSET S : F(h)[s] = G[s]
    <3> TAKE s \in SUBSET S
    <3>1. CASE s = {}  BY <3>1
    <3>2. CASE s # {}
      <4> DEFINE x == CHOOSE y \in s : TRUE
      <4>1. F(h)[s] = x.amount + h[s \ {x}]
        BY <3>2
      <4>2. G[s] = g[Pick(s)] + h[s \ {Pick(s)}]
        BY <3>2
      <4>3. Pick(s).amount = g[Pick(s)] /\ Pick(s) = x
        BY <1>1, <3>2
      <4> HIDE DEF F, G, x, g
      <4> QED  BY <4>1, <4>2, <4>3
    <3> QED  BY <3>1, <3>2
  <2>2. F(h) = G
    BY <2>1
  <2> QED  BY <2>2 DEF SumsUp
<1>3. \E i : i = F(i)
  <2>1. PICK h : SumsUp(h, g, S)
    BY SumsExist
  <2>2. h = F(h)
    BY <1>2, <2>1
  <2> QED  BY <2>2
<1>4. j = F(j)
  BY <1>3
<1>5. Total(S) = j[S]
  BY DEF Total, MapThenSumSet, MapThenFoldSet
<1>6. SumsUp(j, g, S)
  BY <1>2, <1>4
<1> HIDE DEF j, g
<1> QED  BY <1>5, <1>6, SumIsSum DEF g

\* A total is an integer, that of nothing is 0, and that of two disjoint sets is the sum.
LEMMA TotalFacts ==
    /\ Total({}) = 0
    /\ \A S : IsFiniteSet(S) /\ HasAmounts(S) => Total(S) \in Int
    /\ \A S, T : /\ IsFiniteSet(S) /\ IsFiniteSet(T) /\ S \cap T = {}
                 /\ HasAmounts(S) /\ HasAmounts(T)
                 => Total(S \cup T) = Total(S) + Total(T)
<1>1. Total({}) = 0
  BY TotalIsSum, SumEmpty, FS_EmptySet
<1>2. ASSUME NEW S, IsFiniteSet(S), HasAmounts(S) PROVE Total(S) \in Int
  <2>1. Integral(Amounts(S), S)
    BY <1>2 DEF Integral, Amounts, HasAmounts
  <2> QED  BY <1>2, <2>1, TotalIsSum, SumType
<1>3. ASSUME NEW S, NEW T, IsFiniteSet(S), IsFiniteSet(T), S \cap T = {},
             HasAmounts(S), HasAmounts(T)
      PROVE  Total(S \cup T) = Total(S) + Total(T)
  <2> DEFINE g == Amounts(S \cup T)
  <2>1. IsFiniteSet(S \cup T)
    BY <1>3, FS_Union
  <2>2. /\ Integral(g, S) /\ Integral(g, T)
        /\ Integral(Amounts(S), S) /\ Integral(Amounts(T), T)
        /\ \A x \in S : g[x] = Amounts(S)[x]
        /\ \A x \in T : g[x] = Amounts(T)[x]
    BY <1>3 DEF Integral, Amounts, HasAmounts
  <2> HIDE DEF g
  <2>3. SumOver(g, S \cup T) = SumOver(g, S) + SumOver(g, T)
    BY <1>3, <2>2, SumUnion
  <2>4. SumOver(g, S) = SumOver(Amounts(S), S) /\ SumOver(g, T) = SumOver(Amounts(T), T)
    BY <1>3, <2>2, SumSame
  <2>5. Total(S \cup T) = SumOver(g, S \cup T)
    BY <2>1, TotalIsSum DEF g
  <2> QED  BY <1>3, <2>3, <2>4, <2>5, TotalIsSum
<1> QED  BY <1>1, <1>2, <1>3

\* The rows a call inserts for an account add up to the net of its lines on it.
LEMMA NetIsTotal ==
    ASSUME NEW c \in Call, req[c] \in Request, NEW a \in TouchedBy(c), NEW m \in Nat
    PROVE  /\ IsFiniteSet(EntriesAt(c, a, m)) /\ HasAmounts(EntriesAt(c, a, m))
           /\ Total(EntriesAt(c, a, m)) = Net(req[c], a)
<1> DEFINE lines == req[c].legs[a]
           f == [i \in DOMAIN lines |-> [tx |-> c, tenant |-> req[c].tenant, account |-> a,
                                         amount |-> lines[i], seq |-> m + i]]
           R == EntriesAt(c, a, m)
<1>1. lines \in Seq(Int)
  BY RequestAssumption DEF RequestType, TouchedBy
<1>2. IsFiniteSet(DOMAIN lines) /\ Integral(lines, DOMAIN lines) /\ DOMAIN lines \subseteq Nat
  <2>1. Len(lines) \in Nat /\ DOMAIN lines = 1 .. Len(lines) /\ \A i \in DOMAIN lines : lines[i] \in Int
    BY <1>1
  <2>2. IsFiniteSet(1 .. Len(lines))
    BY <2>1, FS_Interval
  <2> QED  BY <2>1, <2>2 DEF Integral
<1>3. R = {f[i] : i \in DOMAIN lines}
  BY DEF EntriesAt
<1>4. \A i, k \in DOMAIN lines : f[i] = f[k] => i = k
  BY <1>2
<1>5. HasAmounts(R) /\ \A i \in DOMAIN lines : Amounts(R)[f[i]] = lines[i]
  <2>1. \A i \in DOMAIN lines : f[i].amount = lines[i] /\ f[i] \in R
    BY <1>3
  <2> HIDE DEF f, R, lines
  <2>2. \A e \in R : \E i \in DOMAIN lines : e = f[i]
    BY <1>3
  <2> QED  BY <1>2, <2>1, <2>2 DEF Amounts, HasAmounts, Integral
<1>6. IsFiniteSet(R) /\ SumOver(Amounts(R), R) = SumOver(lines, DOMAIN lines)
  <2> DEFINE h == Amounts(R)
             L == DOMAIN lines
  <2> HIDE DEF f, R, lines, h, L
  <2>1. IsFiniteSet({f[i] : i \in L}) /\ SumOver(h, {f[i] : i \in L}) = SumOver(lines, L)
    BY <1>2, <1>4, <1>5, SumRenamed DEF h, L
  <2> QED  BY <1>3, <2>1 DEF h, L
<1>7. Net(req[c], a) = SumOver(lines, DOMAIN lines)
  BY <1>2, LibrarySum DEF Net
<1> QED  BY <1>5, <1>6, <1>7, TotalIsSum

\* As many rows between two numbers as numbers.
LEMMA RowsBetween ==
    ASSUME NEW S, NEW k \in Nat, NumberedTo(S, k), NEW n \in Nat, NEW m \in n .. k
    PROVE  LET R == {e \in S : n < e.seq /\ e.seq <= m}
           IN  IsFiniteSet(R) /\ Cardinality(R) = m - n
<1> DEFINE R == {e \in S : n < e.seq /\ e.seq <= m}
           f == [i \in 1 .. m - n |-> CHOOSE e \in S : e.seq = n + i]
<1>1. \A i \in 1 .. m - n : f[i] \in S /\ f[i].seq = n + i
  <2>1. \A i \in 1 .. m - n : n + i \in 1 .. k
    OBVIOUS
  <2> QED  BY <2>1 DEF NumberedTo
<1>2. \A e \in R : e.seq - n \in 1 .. m - n /\ f[e.seq - n] = e
  <2>1. \A e \in R : e \in S /\ e.seq \in 1 .. k /\ n < e.seq /\ e.seq <= m
    BY DEF NumberedTo
  <2>2. \A e \in R : e.seq - n \in 1 .. m - n /\ n + (e.seq - n) = e.seq
    BY <2>1
  <2> HIDE DEF f, R
  <2> QED  BY <1>1, <2>1, <2>2 DEF NumberedTo
<1>3. f \in Bijection(1 .. m - n, R)
  <2>1. f \in [1 .. m - n -> R]
    <3>1. \A i \in 1 .. m - n : f[i] \in R
      BY <1>1
    <3> HIDE DEF R
    <3> QED  BY <3>1
  <2>2. \A i, j \in 1 .. m - n : f[i] = f[j] => i = j
    <3> HIDE DEF f
    <3> QED  BY <1>1
  <2>3. \A e \in R : \E i \in 1 .. m - n : f[i] = e
    BY <1>2
  <2> HIDE DEF f, R
  <2> QED  BY <2>1, <2>2, <2>3 DEF Bijection, Injection, Surjection, IsInjective
<1> HIDE DEF f, R
<1>4. ExistsBijection(1 .. m - n, R)
  BY <1>3 DEF ExistsBijection
<1>5. IsFiniteSet(1 .. m - n) /\ m - n \in Nat
  BY FS_Interval
<1>6. IsFiniteSet(R) /\ Cardinality(R) = m - n
  BY <1>4, <1>5, FS_Bijection, FS_CountingElements
<1> QED  BY <1>6 DEF R

\* As many rows as the last one's number.
LEMMA NumberedCardinality ==
    ASSUME NEW S, NEW m \in Nat, NumberedTo(S, m)
    PROVE  IsFiniteSet(S) /\ Cardinality(S) = m
<1>1. S = {e \in S : 0 < e.seq /\ e.seq <= m}
  BY DEF NumberedTo
<1>2. m - 0 = m /\ m \in 0 .. m
  OBVIOUS
<1> QED  BY <1>1, <1>2, RowsBetween

-----------------------------------------------------------------------------
(***************************************************************************)
(* The steps of a call.                                                    *)
(***************************************************************************)
\* A call skips an account whose lines cancel out, or upserts its balance.
Skips(c, a) ==
    /\ pc[c] = "readPosition" /\ IsNext(c, a) /\ Net(req[c], a) = 0
    /\ pending'[c] = pending[c] /\ NextTurn(c, a, "readPosition", "insertOutbox")
Upserts(c, a) ==
    /\ pc[c] = "upsertBalance" /\ IsNext(c, a) /\ ~BalanceBusy(c, a)
    /\ ~Overdrawn(AccountType[<<req[c].tenant, a>>], NewBalance(c, a).amount)
    /\ Fits(NewBalance(c, a).amount)
    /\ pending'[c].balances = [pending[c].balances EXCEPT ![a] = NewBalance(c, a)]
    /\ NextTurn(c, a, "readPosition", "insertOutbox")

\* What a step does to the balances a call has written, and to what it has settled.
LEMMA PositionSteps ==
    ASSUME TypeOK, NEW c \in Call, CallStep(c)
    PROVE  \/ /\ pc'[c] \notin PastEntries
              /\ \/ pc[c] \notin PastEntries /\ pending'[c].balances = pending[c].balances
                 \/ pending'[c] = NoWrites
           \/ /\ req' = req
              /\ \/ pc'[c] = "readPosition" /\ todo'[c] = TouchedBy(c) /\ pc[c] = "insertEntries"
                    /\ pending'[c].balances = pending[c].balances
                 \/ \E a \in Account : Skips(c, a)
                 \/ pc[c] = "readPosition" /\ pc'[c] = "upsertBalance" /\ todo' = todo
                    /\ pending'[c] = pending[c]
                 \/ \E a \in Account : Upserts(c, a)
                 \/ pc[c] = "insertOutbox" /\ pc'[c] = "commit" /\ todo' = todo
                    /\ pending'[c].balances = pending[c].balances
<1> USE DEF TypeOK, tables, Goto, EndWith, Refuse, PastEntries
<1>1. CASE \E r \in Request : Submit(c, r)  BY <1>1, SubmitEffect
<1>2. CASE Begin(c)  BY <1>2 DEF Begin
<1>3. CASE IdempotencyGate(c)  BY <1>3 DEF IdempotencyGate
<1>4. CASE ResolveDuplicate(c)  BY <1>4 DEF ResolveDuplicate
<1>5. CASE CreatePeriod(c)  BY <1>5 DEF CreatePeriod, Writes
<1>6. CASE LockPeriod(c)  BY <1>6 DEF LockPeriod
<1>7. CASE LockAccount(c)  BY <1>7 DEF LockAccount, NextTurn
<1>8. CASE ReadSeq(c)  BY <1>8 DEF ReadSeq
<1>9. CASE InsertEntries(c)
  <2>1. /\ pc[c] = "insertEntries" /\ req' = req
        /\ \E a \in Account :
              \/ EndWith(c, Unknown)
              \/ /\ pending' = [pending EXCEPT ![c].entries = @ \cup NewEntries(c, a)]
                 /\ NextTurn(c, a, "readSeq", "readPosition")
    BY <1>9 DEF InsertEntries
  <2>2. CASE EndWith(c, Unknown)  BY <2>1, <2>2
  <2>3. ASSUME NEW a \in Account,
               pending' = [pending EXCEPT ![c].entries = @ \cup NewEntries(c, a)],
               NextTurn(c, a, "readSeq", "readPosition")
        PROVE  /\ pending'[c].balances = pending[c].balances
               /\ pc'[c] = "readSeq" \/ (pc'[c] = "readPosition" /\ todo'[c] = TouchedBy(c))
    BY <2>3, TurnEffect DEF Writes
  <2> QED  BY <2>1, <2>2, <2>3
<1>10. CASE ReadPosition(c)
  <2>1. PICK a \in Account :
           /\ IsNext(c, a)
           /\ IF Net(req[c], a) = 0
              THEN NextTurn(c, a, "readPosition", "insertOutbox")
              ELSE Goto(c, "upsertBalance") /\ UNCHANGED todo
    BY <1>10 DEF ReadPosition
  <2>2. pc[c] = "readPosition" /\ req' = req /\ pending' = pending
    BY <1>10 DEF ReadPosition
  <2>3. CASE Net(req[c], a) = 0  BY <2>1, <2>2, <2>3 DEF Skips
  <2>4. CASE Net(req[c], a) # 0  BY <2>1, <2>2, <2>4
  <2> QED  BY <2>3, <2>4
<1>11. CASE UpsertBalance(c)
  <2>1. PICK a \in Account :
           /\ IsNext(c, a) /\ ~BalanceBusy(c, a)
           /\ \/ EndWith(c, Unknown) \/ EndWith(c, Refused("INSUFFICIENT_FUNDS"))
              \/ /\ ~Overdrawn(AccountType[<<req[c].tenant, a>>], NewBalance(c, a).amount)
                 /\ Fits(NewBalance(c, a).amount)
                 /\ pending' = [pending EXCEPT ![c].balances[a] = NewBalance(c, a)]
                 /\ NextTurn(c, a, "readPosition", "insertOutbox")
    BY <1>11 DEF UpsertBalance
  <2>2. pc[c] = "upsertBalance" /\ req' = req
    BY <1>11 DEF UpsertBalance
  <2>3. CASE EndWith(c, Unknown) \/ EndWith(c, Refused("INSUFFICIENT_FUNDS"))
    BY <2>2, <2>3
  <2>4. ASSUME ~Overdrawn(AccountType[<<req[c].tenant, a>>], NewBalance(c, a).amount),
               Fits(NewBalance(c, a).amount),
               pending' = [pending EXCEPT ![c].balances[a] = NewBalance(c, a)],
               NextTurn(c, a, "readPosition", "insertOutbox")
        PROVE  Upserts(c, a)
    <3>1. pending'[c].balances = [pending[c].balances EXCEPT ![a] = NewBalance(c, a)]
      BY <2>4 DEF Writes
    <3> QED  BY <2>1, <2>2, <2>4, <3>1 DEF Upserts
  <2> QED  BY <2>1, <2>2, <2>3, <2>4
<1>12. CASE InsertOutbox(c)  BY <1>12 DEF InsertOutbox, Writes
<1>13. CASE Commit(c)  BY <1>13 DEF Commit
<1>14. CASE Reply(c)  BY <1>14 DEF Reply
<1>15. CASE Fail(c)  BY <1>15 DEF Fail
<1> QED
  BY <1>1, <1>2, <1>3, <1>4, <1>5, <1>6, <1>7, <1>8, <1>9, <1>10, <1>11, <1>12, <1>13,
     <1>14, <1>15 DEF CallStep, Post

\* Leaving an account settles it, and settles nothing else.
LEMMA Settles ==
    ASSUME TypeOK, NEW c \in Call, NEW a \in Account, IsNext(c, a), todo[c] \subseteq TouchedBy(c),
           req'[c] = req[c], NextTurn(c, a, "readPosition", "insertOutbox"),
           pc[c] \in {"readPosition", "upsertBalance"}, NEW b \in Account
    PROVE  Positioned(c, b)' <=> Positioned(c, b) \/ b = a
<1>1. \/ pc'[c] = "insertOutbox" /\ todo[c] = {a}
      \/ pc'[c] = "readPosition" /\ todo'[c] = todo[c] \ {a}
  BY TurnEffect
<1> QED  BY <1>1 DEF Positioned, TouchedBy, IsNext

\* The upsert adds to the committed row.
LEMMA UpsertAdds ==
    ASSUME TypeOK, Asked, NEW c \in Call, pc[c] = "upsertBalance", NEW a \in Account
    PROVE  NewBalance(c, a).amount = Booked(a) + Net(req[c], a) \/ a \notin TouchedBy(c)
<1>1. ASSUME a \in TouchedBy(c) PROVE Net(req[c], a) \in Int
  BY <1>1, AskedRequest, NetType DEF TouchedBy, Place, InTransaction
<1> QED  BY <1>1 DEF NewBalance, Booked, TypeOK, BalanceRow

\* A committed balance moves only under a call that has written it.
LEMMA StoredMoves ==
    ASSUME TypeOK, NEW c \in Call, CallStep(c), NEW a \in Account
    PROVE  Booked(a)' = Booked(a) \/ (Commits(c) /\ pending[c].balances[a] # None)
BY TableSteps DEF Booked, Commits

\* Every step keeps PositionsAdded.
LEMMA PositionsNext ==
    LogInv /\ PositionsAdded /\ BalanceHeldOnce /\ [Next]_vars => PositionsAdded'
<1> SUFFICES ASSUME LogInv, PositionsAdded, BalanceHeldOnce, [Next]_vars PROVE PositionsAdded'
  OBVIOUS
<1> DEFINE Right(d, a) ==
      /\ pending[d].balances[a] # None =>
            Positioned(d, a) /\ pending[d].balances[a].amount = Booked(a) + Net(req[d], a)
      /\ Positioned(d, a) /\ pending[d].balances[a] = None => Net(req[d], a) = 0
<1>0. \A d \in Call, a \in Account : Right(d, a)
  BY DEF PositionsAdded
<1>1. ASSUME NEW c \in Call, CallStep(c), NEW d \in Call, NEW a \in Account PROVE Right(d, a)'
  <2>1. CASE d # c
    <3>1. /\ pc'[d] = pc[d] /\ req'[d] = req[d] /\ todo'[d] = todo[d] /\ pending'[d] = pending[d]
      BY <1>1, <2>1, OthersKeep DEF LogInv
    <3>2. pending[d].balances[a] # None => Booked(a)' = Booked(a)
      BY <1>1, <2>1, StoredMoves DEF LogInv, BalanceHeldOnce
    <3>3. Positioned(d, a)' <=> Positioned(d, a)
      BY <3>1 DEF Positioned, TouchedBy
    <3> QED  BY <1>0, <3>1, <3>2, <3>3
  <2>2. CASE d = c
    <3>1. CASE pc'[c] \notin PastEntries
      <4>1. pending'[c] = NoWrites \/ (pending'[c].balances = pending[c].balances /\ ~Positioned(c, a))
        <5>1. \A b \in Account : ~Skips(c, b) /\ ~Upserts(c, b)
          BY <3>1, TurnEffect DEF Skips, Upserts, LogInv, PastEntries
        <5> QED  BY <1>1, <3>1, <5>1, PositionSteps DEF LogInv, Positioned, PastEntries
      <4>2. pending'[c].balances[a] = None
        BY <1>0, <4>1 DEF NoWrites
      <4> QED  BY <2>2, <3>1, <4>2 DEF Positioned, PastEntries
    <3>2. CASE pc'[c] \in PastEntries
      <4>1. Booked(a)' = Booked(a)
        BY <1>1, <3>2, StoredMoves DEF LogInv, Commits, PastEntries
      <4>2. CASE /\ pc'[c] = "readPosition" /\ todo'[c] = TouchedBy(c) /\ pc[c] = "insertEntries"
                 /\ pending'[c].balances = pending[c].balances /\ req' = req
        BY <1>0, <2>2, <4>2 DEF Positioned, TouchedBy
      <4>3. ASSUME NEW b \in Account, Skips(c, b), req' = req PROVE Right(c, a)'
        <5>1. Positioned(c, a)' <=> Positioned(c, a) \/ a = b
          BY <4>3, Settles DEF Skips, LogInv, Asked, AskedOf, PastPeriodLock
        <5> QED  BY <1>0, <4>1, <4>3, <5>1 DEF Skips
      <4>4. CASE pc[c] = "readPosition" /\ pc'[c] = "upsertBalance" /\ todo' = todo
                 /\ pending'[c] = pending[c] /\ req' = req
        BY <1>0, <2>2, <4>1, <4>4 DEF Positioned, TouchedBy
      <4>5. ASSUME NEW b \in Account, Upserts(c, b), req' = req PROVE Right(c, a)'
        <5>1. (Positioned(c, a)' <=> Positioned(c, a) \/ a = b) /\ b \in TouchedBy(c)
          BY <4>5, Settles DEF Upserts, LogInv, Asked, AskedOf, PastPeriodLock, IsNext
        <5>2. NewBalance(c, b).amount = Booked(b) + Net(req[c], b) /\ NewBalance(c, b) # None
          BY <4>5, <5>1, UpsertAdds, BalanceType, NoneAssumption DEF Upserts, LogInv, Place, InTransaction
        <5>3. pending'[c].balances = [pending[c].balances EXCEPT ![b] = NewBalance(c, b)]
          BY <4>5 DEF Upserts
        <5>4. DOMAIN pending[c].balances = Account
          BY DEF LogInv, TypeOK, Writes
        <5>5. CASE a = b
          <6>1. pending'[c].balances[a] = NewBalance(c, b)
            BY <5>3, <5>4, <5>5
          <6> QED  BY <4>1, <4>5, <5>1, <5>2, <5>5, <6>1
        <5>6. CASE a # b
          <6>1. pending'[c].balances[a] = pending[c].balances[a]
            BY <5>3, <5>6
          <6> QED  BY <1>0, <4>1, <4>5, <5>1, <5>6, <6>1
        <5> QED  BY <5>5, <5>6
      <4>6. CASE /\ pc[c] = "insertOutbox" /\ pc'[c] = "commit"
                 /\ pending'[c].balances = pending[c].balances /\ req' = req
        BY <1>0, <2>2, <4>1, <4>6 DEF Positioned, TouchedBy
      <4> QED  BY <1>1, <2>2, <3>2, <4>2, <4>3, <4>4, <4>5, <4>6, PositionSteps DEF LogInv
    <3> QED  BY <3>1, <3>2
  <2> QED  BY <2>1, <2>2
<1>2. CASE Admin
  BY <1>2, AdminKeeps DEF PositionsAdded, Positioned, TouchedBy, Booked
<1>3. CASE UNCHANGED vars
  BY <1>3 DEF PositionsAdded, Positioned, TouchedBy, Booked, vars
<1>4. ASSUME NEW c \in Call, CallStep(c) PROVE PositionsAdded'
  BY <1>1, <1>4 DEF PositionsAdded
<1> QED  BY <1>2, <1>3, <1>4, StepKinds

\* Every step keeps BalanceHeldOnce: an upsert waits for whoever has written the row.
LEMMA BalanceHeldNext ==
    LogInv /\ PositionsAdded /\ BalanceHeldOnce /\ [Next]_vars => BalanceHeldOnce'
<1> SUFFICES ASSUME LogInv, PositionsAdded, BalanceHeldOnce, [Next]_vars PROVE BalanceHeldOnce'
  OBVIOUS
<1>1. ASSUME NEW c \in Call, CallStep(c) PROVE BalanceHeldOnce'
  <2>1. \A d \in Call \ {c} : pending'[d] = pending[d]
    BY <1>1, OthersKeep DEF LogInv
  <2>2. ASSUME NEW a \in Account, pending'[c].balances[a] # None
        PROVE  pending[c].balances[a] # None \/ ~BalanceBusy(c, a)
    <3>1. CASE pending'[c].balances = pending[c].balances  BY <2>2, <3>1
    <3>2. CASE pending'[c] = NoWrites  BY <2>2, <3>2 DEF NoWrites
    <3>3. ASSUME NEW b \in Account, Upserts(c, b)
          PROVE  pending[c].balances[a] # None \/ ~BalanceBusy(c, a)
      BY <2>2, <3>3 DEF Upserts
    <3> QED  BY <1>1, <3>1, <3>2, <3>3, PositionSteps DEF LogInv, Skips
  <2> QED  BY <2>1, <2>2 DEF BalanceHeldOnce, BalanceBusy
<1>2. CASE Admin  BY <1>2, AdminKeeps DEF BalanceHeldOnce
<1>3. CASE UNCHANGED vars  BY <1>3 DEF BalanceHeldOnce, vars
<1> QED  BY <1>1, <1>2, <1>3, StepKinds

\* Every step keeps RowsFinite: a request has finitely many lines.
LEMMA RowsFiniteNext == LogInv /\ RowsFinite /\ [Next]_vars => RowsFinite'
<1> SUFFICES ASSUME LogInv, RowsFinite, [Next]_vars PROVE RowsFinite'
  OBVIOUS
<1>1. ASSUME NEW c \in Call, CallStep(c) PROVE RowsFinite'
  <2>1. \A d \in Call \ {c} : pending'[d].entries = pending[d].entries
    BY <1>1, OthersKeep DEF LogInv
  <2>2. CASE KeepsLog(c)
    BY <2>1, <2>2, FS_EmptySet DEF KeepsLog, RowsFinite
  <2>3. ASSUME NEW a \in Account, Appends(c, a) PROVE RowsFinite'
    <3>1. a \in TouchedBy(c) /\ pc[c] \in Place \ {"idle", "done"} /\ base[c] \in Nat
      BY <2>3 DEF Appends, IsNext, LogInv, Asked, AskedOf, PastPeriodLock, Place, InTransaction, TypeOK
    <3>2. req[c] \in Request
      BY <3>1, AskedRequest DEF LogInv
    <3>3. IsFiniteSet(NewEntries(c, a))
      BY <3>1, <3>2, NetIsTotal DEF NewEntries
    <3>4. IsFiniteSet(pending[c].entries \cup NewEntries(c, a))
      BY <3>3, FS_Union DEF RowsFinite
    <3> QED  BY <2>1, <2>3, <3>4 DEF Appends, RowsFinite
  <2>4. CASE CommitsLog(c)
    <3>1. IsFiniteSet(entries \cup pending[c].entries)
      BY FS_Union DEF RowsFinite
    <3> QED  BY <2>1, <2>4, <3>1, FS_EmptySet DEF CommitsLog, RowsFinite
  <2> QED  BY <1>1, <2>2, <2>3, <2>4, LogSteps DEF LogInv
<1>2. CASE Admin  BY <1>2, AdminKeeps DEF RowsFinite
<1>3. CASE UNCHANGED vars  BY <1>3 DEF RowsFinite, vars
<1> QED  BY <1>1, <1>2, <1>3, StepKinds

\* A committed posting adds the net of its lines to the log of each account.
LEMMA CommitAdds ==
    ASSUME LogInv, HoldInv, WholeInv, RowsFinite, NEW c \in Call, Commits(c), NEW a \in Account
    PROVE  Total(LogOf(a)') = Total(LogOf(a)) + (IF a \in TouchedBy(c) THEN Net(req[c], a) ELSE 0)
<1> DEFINE R == {e \in pending[c].entries : e.account = a}
<1>1. LogOf(a)' = LogOf(a) \cup R
  BY DEF Commits, LogOf
<1>2. LogOf(a) \cap R = {}
  BY RowsApart DEF LogOf
<1>3. IsFiniteSet(LogOf(a)) /\ IsFiniteSet(R)
  BY FS_Subset DEF RowsFinite, LogOf
<1>4. HasAmounts(LogOf(a)) /\ HasAmounts(R)
  BY DEF HasAmounts, LogInv, TypeOK, Writes, Entry, LogOf
<1>5. Total(LogOf(a)) \in Int
  BY <1>3, <1>4, TotalFacts
<1>6. Total(LogOf(a)') = Total(LogOf(a)) + Total(R)
  <2> HIDE DEF R
  <2> QED  BY <1>1, <1>2, <1>3, <1>4, TotalFacts
<1>7. CASE a \in TouchedBy(c)
  <2>1. Inserted(c, a)
    BY <1>7 DEF Inserted, PastEntries, Commits
  <2>2. R = RowsOn(pending[c].entries, c, a)
    BY DEF RowsOn, LogInv, Written, WrittenOf
  <2>3. PICK e \in R : R = EntriesAt(c, a, e.seq - 1)
    BY <2>1, <2>2 DEF WholeInv, WholeSoFar, Whole
  <2>4. e.seq \in Nat \ {0}
    BY DEF LogInv, TypeOK, Writes, Entry
  <2>5. req[c] \in Request /\ e.seq - 1 \in Nat
    BY <2>4, AskedRequest DEF LogInv, Commits, Place, InTransaction
  <2>6. Total(R) = Net(req[c], a)
    BY <1>7, <2>3, <2>5, NetIsTotal
  <2> QED  BY <1>6, <1>7, <2>6
<1>8. CASE a \notin TouchedBy(c)
  <2>1. R = {}
    BY <1>8 DEF HoldInv, OwnRows, RowOf
  <2>2. Total(R) = 0
    BY <2>1, TotalFacts
  <2> QED  BY <1>5, <1>6, <1>8, <2>2
<1> QED  BY <1>7, <1>8

\* Every step keeps BalanceIsSumOfLog.
LEMMA SumOfLogNext ==
    LogInv /\ HoldInv /\ WholeInv /\ BalanceInv /\ [Next]_vars => BalanceIsSumOfLog'
<1> SUFFICES ASSUME LogInv, HoldInv, WholeInv, BalanceInv, [Next]_vars PROVE BalanceIsSumOfLog'
  OBVIOUS
<1>0. \A a \in Account : Total(LogOf(a)) = Booked(a)
  BY DEF BalanceInv, BalanceIsSumOfLog, Booked
<1>1. ASSUME NEW c \in Call, CallStep(c), NEW a \in Account
      PROVE  Total(LogOf(a)') = Booked(a)'
  <2>1. CASE UNCHANGED <<transactions, entries, balances, outbox>>
    <3>1. LogOf(a)' = LogOf(a) /\ Booked(a)' = Booked(a)
      BY <2>1 DEF LogOf, Booked
    <3> QED  BY <1>0, <3>1
  <2>2. CASE Commits(c)
    <3>1. Total(LogOf(a)') = Booked(a) + (IF a \in TouchedBy(c) THEN Net(req[c], a) ELSE 0)
      BY <1>0, <2>2, CommitAdds DEF BalanceInv
    <3>2. Booked(a) \in Int
      BY DEF Booked, LogInv, TypeOK, BalanceRow
    <3>3. CASE pending[c].balances[a] = None
      <4>1. Booked(a)' = Booked(a)
        BY <2>2, <3>3 DEF Booked, Commits
      <4>2. a \in TouchedBy(c) => Net(req[c], a) = 0
        BY <2>2, <3>3 DEF BalanceInv, PositionsAdded, Positioned, Commits
      <4> QED  BY <3>1, <3>2, <4>1, <4>2
    <3>4. CASE pending[c].balances[a] # None
      <4>1. Booked(a)' = pending[c].balances[a].amount
        BY <2>2, <3>4 DEF Booked, Commits
      <4>2. a \in TouchedBy(c) /\ pending[c].balances[a].amount = Booked(a) + Net(req[c], a)
        BY <3>4 DEF BalanceInv, PositionsAdded, Positioned
      <4> QED  BY <3>1, <4>1, <4>2
    <3> QED  BY <3>3, <3>4
  <2> QED  BY <1>1, <2>1, <2>2, TableSteps DEF LogInv
<1>2. ASSUME NEW c \in Call, CallStep(c) PROVE BalanceIsSumOfLog'
  BY <1>1, <1>2 DEF BalanceIsSumOfLog, Booked
<1>3. CASE Admin  BY <1>3, AdminKeeps DEF BalanceInv, BalanceIsSumOfLog, LogOf
<1>4. CASE UNCHANGED vars  BY <1>4 DEF BalanceInv, BalanceIsSumOfLog, LogOf, vars
<1> QED  BY <1>2, <1>3, <1>4, StepKinds

\* BalanceInv holds in every reachable state.
THEOREM BalanceAlways == Spec => []BalanceInv
<1>1. Init => BalanceInv
  <2> SUFFICES ASSUME Init PROVE BalanceInv
    OBVIOUS
  <2>1. PositionsAdded /\ BalanceHeldOnce
    BY DEF Init, NoWrites, PositionsAdded, BalanceHeldOnce, Positioned
  <2>2. RowsFinite
    BY FS_EmptySet DEF Init, NoWrites, RowsFinite
  <2>3. BalanceIsSumOfLog
    <3>1. \A a \in Account : LogOf(a) = {} /\ balances[a] = None
      BY DEF Init, LogOf
    <3> QED  BY <3>1, TotalFacts DEF BalanceIsSumOfLog
  <2> QED  BY <2>1, <2>2, <2>3 DEF BalanceInv
<1>2. LogInv /\ HoldInv /\ WholeInv /\ BalanceInv /\ [Next]_vars => BalanceInv'
  BY PositionsNext, BalanceHeldNext, RowsFiniteNext, SumOfLogNext DEF BalanceInv
<1> QED  BY <1>1, <1>2, LogAlways, HoldAlways, WholeAlways, PTL DEF Spec

\* However the upserts of concurrent postings interleave and wherever they fail, the
\* stored balance of an account id is the sum of its log (amount = amount +
\* EXCLUDED.amount, post.ts:192-200).
THEOREM BalanceSumsItsLog == Spec => []BalanceIsSumOfLog
<1>1. BalanceInv => BalanceIsSumOfLog
  BY DEF BalanceInv
<1> QED  BY <1>1, BalanceAlways, PTL

-----------------------------------------------------------------------------
(***************************************************************************)
(* Who waits for whom.                                                     *)
(***************************************************************************)
\* A call visits the accounts of a loop by id, and has written its period, if it has,
\* before it locks anything further.
LoopsInOrder ==
    \A c \in Call : pc[c] \in PastPeriodLock =>
        \A a \in TouchedBy(c) \ todo[c], b \in todo[c] : a < b
PeriodWritten == \A c \in Call : pending[c].period => pc[c] \in PastPeriodLock \cup {"lockPeriod"}

OrderInv == LoopsInOrder /\ PeriodWritten

\* The stages of a call: what it waits for in one is held from a later one on, or
\* from the same one by a call that has got further in the loop over its accounts.
Stage(p) ==
    IF p = "createPeriod" THEN 1
    ELSE IF p = "lockPeriod" THEN 2
    ELSE IF p = "lockAccounts" THEN 3
    ELSE IF p \in {"readSeq", "insertEntries"} THEN 4
    ELSE IF p \in {"readPosition", "upsertBalance"} THEN 5
    ELSE IF p \in {"insertOutbox", "commit"} THEN 6 ELSE 0

Further(c, d) ==
    \/ Stage(pc[c]) < Stage(pc[d])
    \/ /\ Stage(pc[c]) = Stage(pc[d])
       /\ \E a \in todo[c] : IsNext(c, a) /\ \A b \in todo[d] : a < b

\* Leaving the least account of a loop keeps the loop in order.
LEMMA TurnKeepsOrder ==
    ASSUME TypeOK, NEW c \in Call, NEW a \in Account, IsNext(c, a), NEW stay, NEW p,
           NextTurn(c, a, stay, p), req' = req,
           \A b \in TouchedBy(c) \ todo[c], k \in todo[c] : b < k
    PROVE  \A b \in TouchedBy(c)' \ todo'[c], k \in todo'[c] : b < k
<1>1. TouchedBy(c)' = TouchedBy(c)
  BY DEF TouchedBy
<1>2. todo[c] \subseteq Nat
  BY AccountAssumption DEF TypeOK
<1>3. CASE todo'[c] = TouchedBy(c)
  BY <1>1, <1>3
<1>4. CASE todo'[c] = todo[c] \ {a}
  <2>1. \A k \in todo[c] \ {a} : a < k
    BY <1>2 DEF IsNext
  <2> QED  BY <1>1, <1>4, <2>1
<1> QED  BY <1>3, <1>4, TurnEffect

\* Every step keeps LoopsInOrder.
LEMMA LoopsNext == LogInv /\ LoopsInOrder /\ [Next]_vars => LoopsInOrder'
<1> SUFFICES ASSUME LogInv, LoopsInOrder, [Next]_vars PROVE LoopsInOrder'
  OBVIOUS
<1>1. ASSUME NEW c \in Call, CallStep(c), NEW d \in Call, pc'[d] \in PastPeriodLock
      PROVE  \A a \in TouchedBy(d)' \ todo'[d], b \in todo'[d] : a < b
  <2>1. CASE d # c
    BY <1>1, <2>1, OthersKeep DEF LogInv, LoopsInOrder, TouchedBy
  <2>2. CASE d = c
    <3>0. pc[c] \in PastPeriodLock => \A a \in TouchedBy(c) \ todo[c], b \in todo[c] : a < b
      BY DEF LoopsInOrder
    <3>1. CASE todo'[c] = TouchedBy(c) /\ req' = req
      BY <2>2, <3>1 DEF TouchedBy
    <3>2. CASE todo'[c] = todo[c] /\ req' = req /\ pc[c] \in PastPeriodLock
      BY <2>2, <3>0, <3>2 DEF TouchedBy
    <3>3. ASSUME NEW a \in Account, IsNext(c, a), NEW stay, NEW p, NextTurn(c, a, stay, p),
                 req' = req, pc[c] \in PastPeriodLock
          PROVE  \A b \in TouchedBy(c)' \ todo'[c], k \in todo'[c] : b < k
      BY <3>0, <3>3, TurnKeepsOrder DEF LogInv
    <3>4. CASE pc'[c] \in PastEntries
      <4> QED
        BY <1>1, <2>2, <3>1, <3>2, <3>3, <3>4, PositionSteps
           DEF LogInv, Skips, Upserts, PastPeriodLock
    <3>5. CASE pc'[c] \notin PastEntries
      <4>1. ASSUME pc[c] = "lockAccounts", NEW a \in Account, IsNext(c, a), req' = req,
                   NextTurn(c, a, "lockAccounts", "readSeq")
            PROVE  \A b \in TouchedBy(c)' \ todo'[c], k \in todo'[c] : b < k
        BY <3>3, <4>1 DEF PastPeriodLock
      <4>2. ASSUME NEW a \in Account, Appends(c, a), req' = req
            PROVE  \A b \in TouchedBy(c)' \ todo'[c], k \in todo'[c] : b < k
        BY <3>3, <4>2 DEF PastPeriodLock, Appends
      <4> QED
        BY <1>1, <2>2, <3>1, <3>2, <3>5, <4>1, <4>2, PostingSteps DEF LogInv, PastPeriodLock
    <3> QED  BY <3>4, <3>5
  <2> QED  BY <2>1, <2>2
<1>2. CASE Admin  BY <1>2, AdminKeeps DEF LoopsInOrder, TouchedBy
<1>3. CASE UNCHANGED vars  BY <1>3 DEF LoopsInOrder, TouchedBy, vars
<1>4. ASSUME NEW c \in Call, CallStep(c) PROVE LoopsInOrder'
  BY <1>1, <1>4 DEF LoopsInOrder
<1> QED  BY <1>2, <1>3, <1>4, StepKinds

\* A call writes its period once and then goes on, or has nothing left to commit.
LEMMA PeriodSteps ==
    ASSUME TypeOK, NEW c \in Call, CallStep(c)
    PROVE  \/ pc'[c] \in PastPeriodLock \cup {"lockPeriod"}
           \/ pending'[c].period = FALSE
           \/ pending'[c] = pending[c] /\ pc[c] \notin PastPeriodLock \cup {"lockPeriod"}
<1> USE DEF TypeOK, Goto, EndWith, Refuse, PastPeriodLock
<1>0. NoWrites.period = FALSE
  BY DEF NoWrites
<1>1. CASE \E r \in Request : Submit(c, r)  BY <1>1, SubmitEffect
<1>2. CASE Begin(c)  BY <1>2 DEF Begin
<1>3. CASE IdempotencyGate(c)  BY <1>3 DEF IdempotencyGate
<1>4. CASE ResolveDuplicate(c)  BY <1>0, <1>4 DEF ResolveDuplicate
<1>5. CASE CreatePeriod(c)  BY <1>5 DEF CreatePeriod
<1>6. CASE LockPeriod(c)  BY <1>0, <1>6 DEF LockPeriod
<1>7. CASE LockAccount(c)  BY <1>0, <1>7 DEF LockAccount, NextTurn
<1>8. CASE ReadSeq(c)  BY <1>8 DEF ReadSeq
<1>9. CASE InsertEntries(c)  BY <1>0, <1>9 DEF InsertEntries, NextTurn
<1>10. CASE ReadPosition(c)  BY <1>10 DEF ReadPosition, NextTurn
<1>11. CASE UpsertBalance(c)  BY <1>0, <1>11 DEF UpsertBalance, NextTurn
<1>12. CASE InsertOutbox(c)  BY <1>12 DEF InsertOutbox
<1>13. CASE Commit(c)  BY <1>0, <1>13 DEF Commit
<1>14. CASE Reply(c)  BY <1>0, <1>14 DEF Reply
<1>15. CASE Fail(c)  BY <1>0, <1>15 DEF Fail
<1> QED
  BY <1>1, <1>2, <1>3, <1>4, <1>5, <1>6, <1>7, <1>8, <1>9, <1>10, <1>11, <1>12, <1>13,
     <1>14, <1>15 DEF CallStep, Post

\* Every step keeps PeriodWritten.
LEMMA PeriodWrittenNext == LogInv /\ PeriodWritten /\ [Next]_vars => PeriodWritten'
<1> SUFFICES ASSUME LogInv, PeriodWritten, [Next]_vars PROVE PeriodWritten'
  OBVIOUS
<1>1. ASSUME NEW c \in Call, CallStep(c) PROVE PeriodWritten'
  <2>1. TypeOK
    BY DEF LogInv
  <2>2. \/ pc'[c] \in PastPeriodLock \cup {"lockPeriod"}
        \/ pending'[c].period = FALSE
        \/ pending'[c] = pending[c] /\ pc[c] \notin PastPeriodLock \cup {"lockPeriod"}
    BY <1>1, <2>1, PeriodSteps
  <2>3. \A d \in Call \ {c} : pc'[d] = pc[d] /\ pending'[d] = pending[d]
    BY <1>1, <2>1, OthersKeep
  <2> QED  BY <2>2, <2>3 DEF PeriodWritten
<1>2. CASE Admin  BY <1>2, AdminKeeps DEF PeriodWritten
<1>3. CASE UNCHANGED vars  BY <1>3 DEF PeriodWritten, vars
<1> QED  BY <1>1, <1>2, <1>3, StepKinds

\* OrderInv holds in every reachable state.
THEOREM OrderAlways == Spec => []OrderInv
<1>1. Init => OrderInv
  BY DEF Init, OrderInv, LoopsInOrder, PeriodWritten, PastPeriodLock, NoWrites
<1>2. LogInv /\ OrderInv /\ [Next]_vars => OrderInv'
  BY LoopsNext, PeriodWrittenNext DEF OrderInv
<1> QED  BY <1>1, <1>2, LogAlways, PTL DEF Spec

\* Whoever is waited for is further than the one that waits.
LEMMA WaitsForFurther ==
    ASSUME LogInv, HoldInv, PositionsAdded, OrderInv, NEW c \in Call, NEW d \in Call, WaitsFor(c, d)
    PROVE  Further(c, d)
<1> USE DEF Stage, PastGate, PastPeriodLock
<1>1. CASE pc[c] = "gate" /\ HoldsKey(d, req[c])
  BY <1>1 DEF HoldsKey, Further
<1>2. CASE pc[c] = "createPeriod" /\ HoldsNewPeriod(d, req[c].tenant, PostingPeriod(req[c]))
  <2>1. pc[d] \in PastPeriodLock \cup {"lockPeriod"}
    BY <1>2 DEF HoldsNewPeriod, OrderInv, PeriodWritten
  <2> QED  BY <1>2, <2>1 DEF Further
<1>3. CASE pc[c] = "lockPeriod" /\ HoldsPeriod(d, req[c].tenant, PostingPeriod(req[c]))
  BY <1>3 DEF HoldsPeriod, Further
<1>4. ASSUME NEW a \in todo[c], IsNext(c, a), pc[c] = "lockAccounts",
             HoldsAccount(d, req[c].tenant, a)
      PROVE  Further(c, d)
  <2>1. a \in TouchedBy(d)
    BY <1>4 DEF HoldsAccount
  <2>2. CASE pc[d] \in PastAccountLocks
    BY <1>4, <2>2 DEF Further, PastAccountLocks
  <2>3. CASE pc[d] = "lockAccounts" /\ a \notin todo[d]
    BY <1>4, <2>1, <2>3 DEF Further, OrderInv, LoopsInOrder
  <2> QED  BY <1>4, <2>2, <2>3 DEF HoldsAccount
<1>5. ASSUME NEW a \in todo[c], IsNext(c, a), pc[c] = "insertEntries",
             Collides(NewEntries(c, a), pending[d].entries)
      PROVE  Further(c, d)
  <2>1. PICK e \in NewEntries(c, a), f \in pending[d].entries : f.account = e.account
    BY <1>5 DEF Collides
  <2>2. e.account = a
    BY DEF NewEntries, EntriesAt
  <2>3. a \in TouchedBy(d) /\ pc[d] \in PastAccountLocks
    BY <2>1, <2>2 DEF HoldInv, OwnRows, RowOf, LogInv, Written, WrittenOf
  <2>4. CASE pc[d] \in {"readSeq", "insertEntries"}
    <3>1. a \notin todo[d]
      BY <2>1, <2>2, <2>4 DEF LogInv, Written, WrittenOf
    <3> QED  BY <1>5, <2>3, <2>4, <3>1 DEF Further, OrderInv, LoopsInOrder
  <2>5. CASE pc[d] \notin {"readSeq", "insertEntries"}
    BY <1>5, <2>3, <2>5 DEF Further, PastAccountLocks
  <2> QED  BY <2>4, <2>5
<1>6. ASSUME NEW a \in todo[c], IsNext(c, a), pc[c] = "upsertBalance",
             pending[d].balances[a] # None
      PROVE  Further(c, d)
  <2>1. Positioned(d, a)
    BY <1>6 DEF PositionsAdded, LogInv, TypeOK
  <2>2. CASE pc[d] \in {"insertOutbox", "commit"}
    BY <1>6, <2>2 DEF Further
  <2>3. CASE pc[d] \in {"readPosition", "upsertBalance"} /\ a \notin todo[d]
    BY <1>6, <2>1, <2>3 DEF Further, OrderInv, LoopsInOrder, Positioned
  <2> QED  BY <2>1, <2>2, <2>3 DEF Positioned
<1> QED  BY <1>1, <1>2, <1>3, <1>4, <1>5, <1>6 DEF WaitsFor

\* Further is a strict order.
LEMMA FurtherIsOrder ==
    ASSUME TypeOK
    PROVE  /\ \A c \in Call : ~Further(c, c)
           /\ \A c, d, e \in Call : Further(c, d) /\ Further(d, e) => Further(c, e)
<1>0. /\ \A c \in Call : todo[c] \subseteq Nat
      /\ \A c \in Call : Stage(pc[c]) \in 0 .. 6
  <2>1. \A p : Stage(p) \in {0, 1, 2, 3, 4, 5, 6}
    BY DEF Stage
  <2>2. {0, 1, 2, 3, 4, 5, 6} \subseteq 0 .. 6
    OBVIOUS
  <2> QED  BY <2>1, <2>2, AccountAssumption DEF TypeOK
<1>1. ASSUME NEW c \in Call, Further(c, c) PROVE FALSE
  BY <1>0, <1>1 DEF Further
<1>2. ASSUME NEW c \in Call, NEW d \in Call, NEW e \in Call, Further(c, d), Further(d, e)
      PROVE  Further(c, e)
  <2>1. PICK k \in 0 .. 6, m \in 0 .. 6, n \in 0 .. 6 :
           k = Stage(pc[c]) /\ m = Stage(pc[d]) /\ n = Stage(pc[e])
    BY <1>0
  <2>2. k <= m /\ m <= n
    BY <1>2, <2>1 DEF Further
  <2>3. CASE k < n
    BY <2>1, <2>3 DEF Further
  <2>4. CASE k = n
    <3>1. k = m
      BY <2>2, <2>4
    <3>2. PICK a \in todo[c] : IsNext(c, a) /\ \A x \in todo[d] : a < x
      BY <1>2, <2>1, <3>1 DEF Further
    <3>3. PICK b \in todo[d] : \A x \in todo[e] : b < x
      BY <1>2, <2>1, <2>4, <3>1 DEF Further
    <3>4. \A x \in todo[e] : a < x
      BY <1>0, <3>2, <3>3
    <3> QED  BY <2>1, <2>4, <3>2, <3>4 DEF Further
  <2> QED  BY <2>2, <2>3, <2>4
<1> QED  BY <1>1, <1>2

\* However many calls post at once, on whatever accounts, periods and keys, some call
\* of any set of them waits for none of the others: keys, then the period, then the
\* accounts by id, for the locks and for the rows (post.ts:79-215).
THEOREM NoCallsDeadlock == Spec => []NoDeadlock
<1>1. LogInv /\ HoldInv /\ BalanceInv /\ OrderInv => NoDeadlock
  <2> SUFFICES ASSUME LogInv, HoldInv, BalanceInv, OrderInv, NEW S \in SUBSET Open, S # {}
               PROVE  \E c \in S : \A d \in S : ~WaitsFor(c, d)
    BY DEF NoDeadlock
  <2> DEFINE R == {p \in S \X S : Further(p[1], p[2])}
  <2>1. S \subseteq Call /\ IsFiniteSet(S)
    BY CallAssumption, FS_Subset DEF Open
  <2>2. /\ \A c \in Call : ~Further(c, c)
        /\ \A c, d, e \in Call : Further(c, d) /\ Further(d, e) => Further(c, e)
    BY FurtherIsOrder DEF LogInv
  <2>3. \A c, d \in S : <<c, d>> \in R <=> Further(c, d)
    OBVIOUS
  <2> HIDE DEF R
  <2>4. PICK c \in S : \A d \in S : <<c, d>> \notin R
    <3>1. \A x \in S : <<x, x>> \notin R
      BY <2>1, <2>2, <2>3
    <3>2. \A x, y, z \in S : <<x, y>> \in R /\ <<y, z>> \in R => <<x, z>> \in R
      BY <2>1, <2>2, <2>3
    <3> QED  BY <2>1, <3>1, <3>2, FiniteMaximal
  <2>5. \A d \in S : ~WaitsFor(c, d)
    BY <2>1, <2>3, <2>4, WaitsForFurther DEF BalanceInv
  <2> QED  BY <2>5
<1> QED  BY <1>1, LogAlways, HoldAlways, BalanceAlways, OrderAlways, PTL
=============================================================================
