--------------------------- MODULE Statements_proofs ---------------------------
(***************************************************************************)
(* Theorems about the derived reads, for every set of calls, tenants,      *)
(* accounts and requests: what reconcile(), replayBalances() and a walk    *)
(* through a statement report about a ledger that is being posted to.      *)
(*                                                                         *)
(* BooksInv says how balances, logs and transactions fit together after    *)
(* every commit.  Two of its parts, and the theorems that rest on them,    *)
(* are about requests as their callers should make them; that the code     *)
(* does not enforce it is what the runs MC_TenantGaps and MC_Replay show.  *)
(***************************************************************************)
EXTENDS Statements, Posting_proofs, SequenceTheorems

\* No two tenants use one account id.
OwnIds ==
    \A r, s \in Request : DOMAIN r.legs \cap DOMAIN s.legs # {} => r.tenant = s.tenant

\* The lines of a request on an account do not cancel out.
NothingCancels == \A r \in Request : \A a \in DOMAIN r.legs : Net(r, a) # 0

UpTo(S, n) == {e \in S : e.seq <= n}

\* The position an upsert writes is the end of the log with the rows of its call.
BalancesPlaced ==
    \A c \in Call, a \in Account :
        /\ pc[c] = "upsertBalance" /\ IsNext(c, a) => NumberedTo(LogSeen(c, a), base[c])
        /\ pending[c].balances[a] # None => NumberedTo(LogSeen(c, a), pending[c].balances[a].seq)

\* A stored balance is the sum of its log up to its position, that of an entry.
BalanceAtSeq ==
    \A a \in Account : balances[a] # None =>
        /\ \E e \in LogOf(a) : e.seq = balances[a].seq
        /\ Total(UpTo(LogOf(a), balances[a].seq)) = balances[a].amount

TransactionsBalanced == \A c \in transactions : Total(EntriesOf(c)) = 0

RowsOfTenant(t) == {e \in entries : e.tx \in transactions /\ req[e.tx].tenant = t}
TenantsBalanced == \A t \in Tenant : Total(RowsOfTenant(t)) = 0

\* A balance is its account's tenant's.
BalanceOfTenant ==
    /\ \A c \in Call, a \in Account :
          pending[c].balances[a] # None => pending[c].balances[a].tenant = req[c].tenant
    /\ \A a \in Account : balances[a] # None =>
          \E e \in LogOf(a) : e.tenant = balances[a].tenant

\* A stored balance stands at the end of its log.
BalanceAtEnd ==
    \A a \in Account : LogOf(a) # {} =>
        balances[a] # None /\ NumberedTo(LogOf(a), balances[a].seq)

BooksInv ==
    /\ BalancesPlaced /\ BalanceAtSeq /\ TransactionsBalanced /\ TenantsBalanced
    /\ OwnIds => BalanceOfTenant
    /\ NothingCancels => BalanceAtEnd

-----------------------------------------------------------------------------
(***************************************************************************)
(* The books after every commit.                                           *)
(***************************************************************************)
\* A call comes to its upsert from the SELECT of the position.
LEMMA UpsertComes ==
    ASSUME TypeOK, NEW c \in Call, CallStep(c), pc'[c] = "upsertBalance"
    PROVE  /\ UNCHANGED <<req, todo, pending, entries>> /\ pc[c] = "readPosition"
           /\ \E a \in Account : IsNext(c, a) /\ base'[c] = HighestSeq(LogSeen(c, a))
<1>1. ReadPosition(c)
  BY DEF CallStep, Post, Submit, Begin, IdempotencyGate, ResolveDuplicate, CreatePeriod,
         LockPeriod, LockAccount, ReadSeq, InsertEntries, UpsertBalance, InsertOutbox,
         Commit, Reply, Fail, NextTurn, Goto, EndWith, Refuse, TypeOK
<1>2. pc[c] = "readPosition" /\ UNCHANGED <<req, pending, entries>>
  BY <1>1 DEF ReadPosition, tables
<1>3. PICK a \in Account :
         /\ IsNext(c, a)
         /\ IF Net(req[c], a) = 0
            THEN NextTurn(c, a, "readPosition", "insertOutbox")
            ELSE base' = [base EXCEPT ![c] = HighestSeq(LogSeen(c, a))] /\ todo' = todo
  BY <1>1 DEF ReadPosition
<1>4. CASE Net(req[c], a) = 0
  <2>1. NextTurn(c, a, "readPosition", "insertOutbox")
    BY <1>3, <1>4
  <2> QED  BY <2>1, TurnEffect
<1>5. CASE Net(req[c], a) # 0
  BY <1>2, <1>3, <1>5 DEF TypeOK
<1> QED  BY <1>4, <1>5

\* Where a call has inserted its rows, the log it sees grows under no other call.
LEMMA SeenStays ==
    ASSUME LogInv, WholeSoFar, NEW c \in Call, NEW a \in Account, Inserted(c, a),
           NEW d \in Call \ {c}, CallStep(d)
    PROVE  LogSeen(c, a)' = LogSeen(c, a)
<1>1. PICK e \in pending[c].entries : e.account = a
  BY DEF WholeSoFar, Whole, RowsOn
<1>2. pending'[c] = pending[c]
  BY OthersKeep DEF LogInv
<1>3. \A f \in pending[d].entries : f.account # a
  BY <1>1 DEF LogInv, LogsNumbered
<1>4. CASE Commits(d)
  BY <1>2, <1>3, <1>4 DEF Commits, LogSeen
<1>5. CASE entries' = entries
  BY <1>2, <1>5 DEF LogSeen
<1> QED  BY <1>4, <1>5, TableSteps DEF LogInv

\* Nor under the call itself, once all its rows are in.
LEMMA OwnSeenStays ==
    ASSUME LogInv, NEW c \in Call, CallStep(c), pc[c] \in PastEntries, pc'[c] \in PastEntries,
           NEW a
    PROVE  LogSeen(c, a)' = LogSeen(c, a)
<1>1. pending'[c].entries = pending[c].entries
  BY PostingSteps DEF LogInv, PastEntries, PastPeriodLock, Appends, ReadSeq
<1>2. entries' = entries
  BY TableSteps DEF LogInv, Commits, PastEntries
<1> QED  BY <1>1, <1>2 DEF LogSeen

\* Every step keeps BalancesPlaced.
LEMMA PlacedNext ==
    LogInv /\ WholeSoFar /\ PositionsAdded /\ BalancesPlaced /\ [Next]_vars => BalancesPlaced'
<1> SUFFICES ASSUME LogInv, WholeSoFar, PositionsAdded, BalancesPlaced, [Next]_vars
             PROVE  BalancesPlaced'
  OBVIOUS
<1> DEFINE Placed(c, a) ==
      /\ pc[c] = "upsertBalance" /\ IsNext(c, a) => NumberedTo(LogSeen(c, a), base[c])
      /\ pending[c].balances[a] # None => NumberedTo(LogSeen(c, a), pending[c].balances[a].seq)
<1>0. ASSUME NEW c \in Call, NEW a \in Account
      PROVE  /\ Placed(c, a)
             /\ pc[c] = "upsertBalance" /\ IsNext(c, a) => Inserted(c, a)
             /\ pending[c].balances[a] # None => Inserted(c, a) /\ pc[c] \in PastEntries
  BY DEF BalancesPlaced, PositionsAdded, Positioned, Inserted, PastEntries, IsNext, LogInv,
         Asked, AskedOf, PastPeriodLock
<1>1. ASSUME NEW d \in Call, CallStep(d), NEW c \in Call, NEW a \in Account PROVE Placed(c, a)'
  <2>1. CASE c # d
    <3>1. /\ pc'[c] = pc[c] /\ todo'[c] = todo[c] /\ base'[c] = base[c] /\ pending'[c] = pending[c]
      BY <1>1, <2>1, OthersKeep DEF LogInv
    <3>2. Inserted(c, a) => LogSeen(c, a)' = LogSeen(c, a)
      BY <1>1, <2>1, SeenStays
    <3> QED  BY <1>0, <3>1, <3>2 DEF IsNext
  <2>2. CASE c = d
    <3>1. ASSUME pc'[c] = "upsertBalance", IsNext(c, a)' PROVE NumberedTo(LogSeen(c, a)', base'[c])
      <4>1. PICK b \in Account : IsNext(c, b) /\ base'[c] = HighestSeq(LogSeen(c, b))
        BY <1>1, <2>2, <3>1, UpsertComes DEF LogInv
      <4>2. UNCHANGED <<req, todo, pending, entries>>
        BY <1>1, <2>2, <3>1, UpsertComes DEF LogInv
      <4>3. a = b
        BY <3>1, <4>1, <4>2, OneNext DEF IsNext, LogInv, TypeOK
      <4>4. LogSeen(c, a)' = LogSeen(c, a)
        BY <4>2 DEF LogSeen
      <4> QED  BY <4>1, <4>3, <4>4, HighestOfNumbered DEF LogInv, LogsNumbered, Numbered
    <3>2. ASSUME pending'[c].balances[a] # None
          PROVE  NumberedTo(LogSeen(c, a)', pending'[c].balances[a].seq)
      <4>1. ASSUME pending'[c].balances[a] = pending[c].balances[a], pc'[c] \in PastEntries
            PROVE  NumberedTo(LogSeen(c, a)', pending'[c].balances[a].seq)
        BY <1>0, <1>1, <2>2, <3>2, <4>1, OwnSeenStays
      <4>2. CASE pc'[c] \notin PastEntries
        <5>1. \A b \in Account : ~Skips(c, b) /\ ~Upserts(c, b)
          BY <4>2, TurnEffect DEF Skips, Upserts, LogInv, PastEntries
        <5>2. pending'[c] = NoWrites \/ (pending'[c].balances = pending[c].balances /\ pc[c] \notin PastEntries)
          BY <1>1, <2>2, <4>2, <5>1, PositionSteps DEF LogInv, PastEntries
        <5> QED  BY <1>0, <3>2, <5>2 DEF NoWrites
      <4>3. ASSUME NEW b \in Account, Upserts(c, b), pc'[c] \in PastEntries
            PROVE  NumberedTo(LogSeen(c, a)', pending'[c].balances[a].seq)
        <5>1. /\ pc[c] = "upsertBalance" /\ IsNext(c, b)
              /\ pending'[c].balances = [pending[c].balances EXCEPT ![b] = NewBalance(c, b)]
          BY <4>3 DEF Upserts
        <5>2. CASE a # b
          <6>1. pending'[c].balances[a] = pending[c].balances[a]
            BY <5>1, <5>2
          <6> QED  BY <4>1, <4>3, <6>1
        <5>3. CASE a = b
          <6>1. pending'[c].balances[a] = NewBalance(c, a)
            BY <5>1, <5>3 DEF LogInv, TypeOK, Writes
          <6>2. NewBalance(c, a).seq = base[c]
            BY DEF NewBalance
          <6>3. LogSeen(c, a)' = LogSeen(c, a)
            BY <1>1, <2>2, <4>3, <5>1, OwnSeenStays DEF PastEntries
          <6> QED  BY <1>0, <5>1, <5>3, <6>1, <6>2, <6>3
        <5> QED  BY <5>2, <5>3
      <4> QED
        BY <1>1, <2>2, <4>1, <4>2, <4>3, PositionSteps DEF LogInv, Skips
    <3> QED  BY <2>2, <3>1, <3>2
  <2> QED  BY <2>1, <2>2
<1>2. CASE Admin
  BY <1>2, AdminKeeps DEF BalancesPlaced, IsNext, LogSeen
<1>3. CASE UNCHANGED vars
  BY <1>3 DEF BalancesPlaced, IsNext, LogSeen, vars
<1>4. ASSUME NEW d \in Call, CallStep(d) PROVE BalancesPlaced'
  BY <1>1, <1>4 DEF BalancesPlaced
<1> QED  BY <1>2, <1>3, <1>4, StepKinds

\* A commit that has written the balance of a leaves it at the end of the log of a.
LEMMA PlacedAtEnd ==
    ASSUME LogInv, HoldInv, WholeInv, BalanceInv, BalancesPlaced, NEW c \in Call, Commits(c),
           NEW a \in Account, pending[c].balances[a] # None
    PROVE  /\ balances'[a] = pending[c].balances[a]
           /\ LogOf(a)' = LogSeen(c, a) /\ NumberedTo(LogSeen(c, a), pending[c].balances[a].seq)
           /\ \E e \in LogSeen(c, a) : e.seq = pending[c].balances[a].seq
           /\ \E e \in LogSeen(c, a) : e.tenant = req[c].tenant
<1>1. balances'[a] = pending[c].balances[a] /\ LogOf(a)' = LogSeen(c, a)
  BY DEF Commits, LogOf, LogSeen
<1>2. NumberedTo(LogSeen(c, a), pending[c].balances[a].seq)
  BY DEF BalancesPlaced
<1>3. Inserted(c, a)
  BY DEF BalanceInv, PositionsAdded, Positioned, Inserted, PastEntries, Commits
<1>4. PICK e \in pending[c].entries : e.account = a
  BY <1>3 DEF WholeInv, WholeSoFar, Whole, RowsOn
<1>5. e \in LogSeen(c, a) /\ e.tenant = req[c].tenant
  BY <1>4 DEF LogSeen, HoldInv, OwnRows, RowOf
<1>6. pending[c].balances[a].seq \in Nat
  BY DEF LogInv, TypeOK, Writes, BalanceRow
<1>7. pending[c].balances[a].seq \in 1 .. pending[c].balances[a].seq
  BY <1>2, <1>5, <1>6 DEF NumberedTo
<1>8. \E f \in LogSeen(c, a) : f.seq = pending[c].balances[a].seq
  BY <1>2, <1>7 DEF NumberedTo
<1> QED  BY <1>1, <1>2, <1>5, <1>8

\* Every step keeps BalanceAtSeq.
LEMMA AtSeqNext ==
    /\ LogInv /\ HoldInv /\ WholeInv /\ BalanceInv /\ BalancesPlaced /\ BalanceAtSeq
    /\ [Next]_vars /\ LogInv' /\ BalanceInv'
    => BalanceAtSeq'
<1> SUFFICES ASSUME LogInv, HoldInv, WholeInv, BalanceInv, BalancesPlaced, BalanceAtSeq,
                    [Next]_vars, LogInv', BalanceInv'
             PROVE  BalanceAtSeq'
  OBVIOUS
<1>1. ASSUME NEW c \in Call, Commits(c), NEW a \in Account, balances'[a] # None
      PROVE  /\ \E e \in LogOf(a)' : e.seq = balances'[a].seq
             /\ Total(UpTo(LogOf(a)', balances'[a].seq)) = balances'[a].amount
  <2>1. CASE pending[c].balances[a] = None
    <3>1. balances'[a] = balances[a]
      BY <1>1, <2>1 DEF Commits
    <3>2. PICK e \in LogOf(a) : e.seq = balances[a].seq
      BY <1>1, <3>1 DEF BalanceAtSeq
    <3>3. LogOf(a)' = LogOf(a) \cup {f \in pending[c].entries : f.account = a}
      BY <1>1 DEF Commits, LogOf
    <3>4. \A f \in pending[c].entries : f.account = a => balances[a].seq < f.seq
      BY <3>2, PendingAfterLog DEF LogOf
    <3>5. balances[a].seq \in Nat /\ \A f \in pending[c].entries : f.seq \in Nat
      BY <1>1, <3>1 DEF LogInv, TypeOK, BalanceRow, Writes, Entry
    <3>6. \A f \in pending[c].entries : f.account = a => ~(f.seq <= balances[a].seq)
      BY <3>4, <3>5
    <3>7. UpTo(LogOf(a)', balances[a].seq) = UpTo(LogOf(a), balances[a].seq)
      BY <3>3, <3>6 DEF UpTo
    <3> QED  BY <1>1, <3>1, <3>2, <3>3, <3>7 DEF BalanceAtSeq
  <2>2. CASE pending[c].balances[a] # None
    <3>1. /\ LogOf(a)' = LogSeen(c, a) /\ NumberedTo(LogOf(a)', balances'[a].seq)
          /\ \E e \in LogOf(a)' : e.seq = balances'[a].seq
      BY <1>1, <2>2, PlacedAtEnd
    <3>2. UpTo(LogOf(a)', balances'[a].seq) = LogOf(a)'
      BY <3>1 DEF NumberedTo, UpTo
    <3>3. Total(LogOf(a)') = balances'[a].amount
      BY <1>1 DEF BalanceInv, BalanceIsSumOfLog
    <3> QED  BY <3>1, <3>2, <3>3
  <2> QED  BY <2>1, <2>2
<1>2. ASSUME UNCHANGED <<entries, balances>> PROVE BalanceAtSeq'
  <2>1. \A a : LogOf(a)' = LogOf(a)
    BY <1>2 DEF LogOf
  <2> QED  BY <1>2, <2>1 DEF BalanceAtSeq
<1>3. ASSUME NEW c \in Call, CallStep(c) PROVE BalanceAtSeq'
  <2>1. CASE Commits(c)  BY <1>1, <2>1 DEF BalanceAtSeq
  <2>2. CASE UNCHANGED <<entries, balances>>  BY <1>2, <2>2
  <2> QED  BY <1>3, <2>1, <2>2, TableSteps DEF LogInv
<1>4. CASE Admin  BY <1>2, <1>4, AdminKeeps
<1>5. CASE UNCHANGED vars  BY <1>2, <1>5 DEF vars
<1> QED  BY <1>3, <1>4, <1>5, StepKinds

\* What a commit adds to the rows of the transactions.
LEMMA CommitKeepsRows ==
    ASSUME LogInv, NEW c \in Call, Commits(c)
    PROVE  /\ EntriesOf(c)' = pending[c].entries
           /\ \A d \in transactions : d # c /\ EntriesOf(d)' = EntriesOf(d)
           /\ \A t : RowsOfTenant(t)' = RowsOfTenant(t)
                        \cup (IF req[c].tenant = t THEN pending[c].entries ELSE {})
<1>1. c \notin transactions
  BY DEF Commits, LogInv, Asked, AskedOf
<1>2. \A e \in pending[c].entries : e.tx = c
  BY DEF LogInv, Written, WrittenOf
<1>3. \A e \in entries : e.tx \in transactions
  BY DEF LogInv, CommittedRows
<1>4. /\ entries' = entries \cup pending[c].entries /\ transactions' = transactions \cup {c}
      /\ req' = req
  BY DEF Commits
<1>5. EntriesOf(c)' = pending[c].entries
  BY <1>1, <1>2, <1>3, <1>4 DEF EntriesOf
<1>6. \A d \in transactions : d # c /\ EntriesOf(d)' = EntriesOf(d)
  BY <1>1, <1>2, <1>4 DEF EntriesOf
<1>7. ASSUME NEW t
      PROVE  RowsOfTenant(t)' = RowsOfTenant(t)
                        \cup (IF req[c].tenant = t THEN pending[c].entries ELSE {})
  <2>1. CASE req[c].tenant = t
    BY <1>1, <1>2, <1>3, <1>4, <2>1 DEF RowsOfTenant
  <2>2. CASE req[c].tenant # t
    BY <1>1, <1>2, <1>3, <1>4, <2>2 DEF RowsOfTenant
  <2> QED  BY <2>1, <2>2
<1> QED  BY <1>5, <1>6, <1>7

\* Any other step leaves them alone.
LEMMA OthersKeepRows ==
    ASSUME LogInv, [Next]_vars, entries' = entries, transactions' = transactions
    PROVE  /\ \A d : EntriesOf(d)' = EntriesOf(d)
           /\ \A t : RowsOfTenant(t)' = RowsOfTenant(t)
<1>1. \A d \in transactions : req'[d] = req[d]
  BY StepKinds, RequestsStay, AdminKeeps DEF vars
<1> QED  BY <1>1 DEF EntriesOf, RowsOfTenant

\* Every step keeps what is balanced: the trigger has summed the rows of the commit.
LEMMA BalancedNext ==
    LogInv /\ RowsFinite /\ TransactionsBalanced /\ TenantsBalanced /\ [Next]_vars
    => TransactionsBalanced' /\ TenantsBalanced'
<1> SUFFICES ASSUME LogInv, RowsFinite, TransactionsBalanced, TenantsBalanced, [Next]_vars
             PROVE  TransactionsBalanced' /\ TenantsBalanced'
  OBVIOUS
<1>1. ASSUME NEW c \in Call, Commits(c) PROVE TransactionsBalanced' /\ TenantsBalanced'
  <2>1. Total(pending[c].entries) = 0
    BY <1>1 DEF Commits, Balanced, Total
  <2>2. ASSUME NEW d \in transactions' PROVE Total(EntriesOf(d)') = 0
    <3>1. CASE d = c  BY <1>1, <2>1, <3>1, CommitKeepsRows
    <3>2. CASE d \in transactions
      <4>1. EntriesOf(d)' = EntriesOf(d)
        BY <1>1, <3>2, CommitKeepsRows
      <4> QED  BY <3>2, <4>1 DEF TransactionsBalanced
    <3> QED  BY <1>1, <3>1, <3>2 DEF Commits
  <2>3. ASSUME NEW t \in Tenant PROVE Total(RowsOfTenant(t)') = 0
    <3>1. CASE req[c].tenant = t
      <4>1. RowsOfTenant(t)' = RowsOfTenant(t) \cup pending[c].entries
        BY <1>1, <3>1, CommitKeepsRows
      <4>2. RowsOfTenant(t) \cap pending[c].entries = {}
        BY RowsApart DEF RowsOfTenant
      <4>3. IsFiniteSet(RowsOfTenant(t)) /\ IsFiniteSet(pending[c].entries)
        BY FS_Subset DEF RowsFinite, RowsOfTenant
      <4>4. HasAmounts(RowsOfTenant(t)) /\ HasAmounts(pending[c].entries)
        BY DEF HasAmounts, RowsOfTenant, LogInv, TypeOK, Writes, Entry
      <4>5. Total(RowsOfTenant(t) \cup pending[c].entries)
              = Total(RowsOfTenant(t)) + Total(pending[c].entries)
        BY <4>2, <4>3, <4>4, TotalFacts
      <4>6. Total(RowsOfTenant(t)) = 0
        BY DEF TenantsBalanced
      <4> QED  BY <2>1, <4>1, <4>5, <4>6
    <3>2. CASE req[c].tenant # t
      <4>1. RowsOfTenant(t)' = RowsOfTenant(t) \cup {}
        BY <1>1, <3>2, CommitKeepsRows
      <4> QED  BY <4>1 DEF TenantsBalanced
    <3> QED  BY <3>1, <3>2
  <2> QED  BY <2>2, <2>3 DEF TransactionsBalanced, TenantsBalanced
<1>2. ASSUME entries' = entries, transactions' = transactions
      PROVE  TransactionsBalanced' /\ TenantsBalanced'
  <2>1. /\ \A d : EntriesOf(d)' = EntriesOf(d)
        /\ \A t : RowsOfTenant(t)' = RowsOfTenant(t)
    BY <1>2, OthersKeepRows
  <2> QED  BY <1>2, <2>1 DEF TransactionsBalanced, TenantsBalanced
<1>3. ASSUME NEW c \in Call, CallStep(c) PROVE TransactionsBalanced' /\ TenantsBalanced'
  BY <1>1, <1>2, <1>3, TableSteps DEF LogInv
<1>4. CASE Admin  BY <1>2, <1>4, AdminKeeps
<1>5. CASE UNCHANGED vars  BY <1>2, <1>5 DEF vars
<1> QED  BY <1>3, <1>4, <1>5, StepKinds

\* Where ids are not shared, all rows of an account are of one tenant, and so is
\* whoever posts to it.
LEMMA OneTenant ==
    ASSUME LogInv, HoldInv, OwnIds, NEW a \in Account, NEW e \in LogOf(a)
    PROVE  /\ \A f \in LogOf(a) : f.tenant = e.tenant
           /\ \A c \in Call : pc[c] \in Place \ {"idle", "done"} /\ a \in TouchedBy(c)
                                 => req[c].tenant = e.tenant
<1>1. ASSUME NEW f \in LogOf(a)
      PROVE  /\ f.tx \in Call /\ req[f.tx] \in Request /\ f.tenant = req[f.tx].tenant
             /\ a \in DOMAIN req[f.tx].legs
  BY DEF LogOf, LogInv, CommittedRows, Asked, AskedOf, TypeOK, HoldInv, OwnRows, RowOf, TouchedBy
<1>2. \A f \in LogOf(a) : f.tenant = e.tenant
  BY <1>1 DEF OwnIds
<1>3. ASSUME NEW c \in Call, pc[c] \in Place \ {"idle", "done"}, a \in TouchedBy(c)
      PROVE  req[c].tenant = e.tenant
  BY <1>1, <1>3 DEF OwnIds, LogInv, Asked, AskedOf, TouchedBy
<1> QED  BY <1>2, <1>3

\* Every step keeps BalanceOfTenant.
LEMMA OfTenantNext ==
    /\ LogInv /\ HoldInv /\ WholeInv /\ BalanceInv /\ BalancesPlaced /\ OwnIds
    /\ BalanceOfTenant /\ [Next]_vars
    => BalanceOfTenant'
<1> SUFFICES ASSUME LogInv, HoldInv, WholeInv, BalanceInv, BalancesPlaced, OwnIds,
                    BalanceOfTenant, [Next]_vars
             PROVE  BalanceOfTenant'
  OBVIOUS
<1> DEFINE Stands(a) == \E e \in LogOf(a) : e.tenant = balances[a].tenant
<1>1. ASSUME NEW d \in Call, CallStep(d), NEW c \in Call, NEW a \in Account,
             pending'[c].balances[a] # None
      PROVE  pending'[c].balances[a].tenant = req'[c].tenant
  <2>1. CASE c # d
    <3>1. pending'[c] = pending[c] /\ req'[c] = req[c]
      BY <1>1, <2>1, OthersKeep DEF LogInv
    <3> QED  BY <1>1, <3>1 DEF BalanceOfTenant
  <2>2. CASE c = d
    <3>1. CASE pending'[c].balances[a] = pending[c].balances[a]
      <4>1. pc[c] # "idle"
        BY <1>1, <3>1 DEF BalanceInv, PositionsAdded, Positioned
      <4>2. req'[c] = req[c]
        BY <1>1, <2>2, <4>1, RequestsStay
      <4> QED  BY <1>1, <3>1, <4>2 DEF BalanceOfTenant
    <3>2. ASSUME NEW b \in Account, Upserts(c, b), pending'[c].balances[a] # pending[c].balances[a]
          PROVE  pending'[c].balances[a].tenant = req'[c].tenant
      <4>1. pending'[c].balances[a] = NewBalance(c, a) /\ a = b
        BY <3>2 DEF Upserts, LogInv, TypeOK, Writes
      <4>2. req'[c] = req[c]
        BY <1>1, <2>2, <3>2, RequestsStay DEF Upserts
      <4>3. pc[c] \in Place \ {"idle", "done"} /\ a \in TouchedBy(c)
        BY <3>2, <4>1 DEF Upserts, IsNext, LogInv, Asked, AskedOf, PastPeriodLock, Place, InTransaction
      <4>4. balances[a] # None => balances[a].tenant = req[c].tenant
        BY <4>3, OneTenant DEF BalanceOfTenant
      <4> QED  BY <4>1, <4>2, <4>4 DEF NewBalance
    <3>3. CASE pending'[c] = NoWrites  BY <1>1, <3>3 DEF NoWrites
    <3> QED
      BY <1>1, <2>2, <3>1, <3>2, <3>3, PositionSteps DEF LogInv, Skips
  <2> QED  BY <2>1, <2>2
<1>2. ASSUME NEW c \in Call, Commits(c), NEW a \in Account, balances'[a] # None PROVE Stands(a)'
  <2>1. CASE pending[c].balances[a] = None
    <3>1. balances'[a] = balances[a]
      BY <1>2, <2>1 DEF Commits
    <3>2. LogOf(a) \subseteq LogOf(a)'
      BY <1>2 DEF Commits, LogOf
    <3> QED  BY <1>2, <3>1, <3>2 DEF BalanceOfTenant
  <2>2. CASE pending[c].balances[a] # None
    BY <1>2, <2>2, PlacedAtEnd DEF BalanceOfTenant
  <2> QED  BY <2>1, <2>2
<1>3. ASSUME UNCHANGED <<entries, balances>>, NEW a \in Account, balances'[a] # None
      PROVE  Stands(a)'
  BY <1>3 DEF BalanceOfTenant, LogOf
<1>4. ASSUME NEW c \in Call, CallStep(c) PROVE BalanceOfTenant'
  <2>1. CASE Commits(c)  BY <1>1, <1>2, <1>4, <2>1 DEF BalanceOfTenant
  <2>2. CASE UNCHANGED <<entries, balances>>  BY <1>1, <1>3, <1>4, <2>2 DEF BalanceOfTenant
  <2> QED  BY <1>4, <2>1, <2>2, TableSteps DEF LogInv
<1>5. ASSUME UNCHANGED <<entries, balances, pending, req>> PROVE BalanceOfTenant'
  BY <1>3, <1>5 DEF BalanceOfTenant
<1>6. CASE Admin  BY <1>5, <1>6, AdminKeeps
<1>7. CASE UNCHANGED vars  BY <1>5, <1>7 DEF vars
<1> QED  BY <1>4, <1>6, <1>7, StepKinds

\* Every step keeps BalanceAtEnd.
LEMMA AtEndNext ==
    /\ LogInv /\ HoldInv /\ WholeInv /\ BalanceInv /\ BalancesPlaced /\ NothingCancels
    /\ BalanceAtEnd /\ [Next]_vars
    => BalanceAtEnd'
<1> SUFFICES ASSUME LogInv, HoldInv, WholeInv, BalanceInv, BalancesPlaced, NothingCancels,
                    BalanceAtEnd, [Next]_vars
             PROVE  BalanceAtEnd'
  OBVIOUS
<1>1. ASSUME NEW c \in Call, Commits(c), NEW a \in Account, LogOf(a)' # {}
      PROVE  balances'[a] # None /\ NumberedTo(LogOf(a)', balances'[a].seq)
  <2>1. CASE a \notin TouchedBy(c)
    <3>1. pending[c].balances[a] = None /\ \A e \in pending[c].entries : e.account # a
      BY <2>1 DEF BalanceInv, PositionsAdded, Positioned, HoldInv, OwnRows, RowOf
    <3>2. LogOf(a)' = LogOf(a) /\ balances'[a] = balances[a]
      BY <1>1, <3>1 DEF Commits, LogOf
    <3> QED  BY <1>1, <3>2 DEF BalanceAtEnd
  <2>2. CASE a \in TouchedBy(c)
    <3>1. Positioned(c, a) /\ Net(req[c], a) # 0
      BY <1>1, <2>2 DEF Positioned, Commits, NothingCancels, TouchedBy, LogInv, Asked, AskedOf,
                        Place, InTransaction
    <3>2. pending[c].balances[a] # None
      BY <3>1 DEF BalanceInv, PositionsAdded
    <3> QED  BY <1>1, <3>2, PlacedAtEnd
  <2> QED  BY <2>1, <2>2
<1>2. ASSUME UNCHANGED <<entries, balances>> PROVE BalanceAtEnd'
  <2>1. \A a : LogOf(a)' = LogOf(a)
    BY <1>2 DEF LogOf
  <2> QED  BY <1>2, <2>1 DEF BalanceAtEnd
<1>3. ASSUME NEW c \in Call, CallStep(c) PROVE BalanceAtEnd'
  <2>1. CASE Commits(c)  BY <1>1, <2>1 DEF BalanceAtEnd
  <2>2. CASE UNCHANGED <<entries, balances>>  BY <1>2, <2>2
  <2> QED  BY <1>3, <2>1, <2>2, TableSteps DEF LogInv
<1>4. CASE Admin  BY <1>2, <1>4, AdminKeeps
<1>5. CASE UNCHANGED vars  BY <1>2, <1>5 DEF vars
<1> QED  BY <1>3, <1>4, <1>5, StepKinds

\* BooksInv holds in every reachable state.
THEOREM BooksAlways == Spec => []BooksInv
<1>1. Init => BooksInv
  <2> SUFFICES ASSUME Init PROVE BooksInv
    OBVIOUS
  <2>1. \A c : EntriesOf(c) = {}
    BY DEF Init, EntriesOf
  <2>2. \A t : RowsOfTenant(t) = {}
    BY DEF Init, RowsOfTenant
  <2>3. TransactionsBalanced /\ TenantsBalanced
    BY <2>1, <2>2, TotalFacts DEF TransactionsBalanced, TenantsBalanced
  <2>4. BalancesPlaced
    BY DEF Init, BalancesPlaced, NoWrites
  <2>5. BalanceOfTenant
    BY DEF Init, BalanceOfTenant, NoWrites
  <2>6. BalanceAtSeq /\ BalanceAtEnd
    BY DEF Init, BalanceAtSeq, BalanceAtEnd, LogOf
  <2> QED  BY <2>3, <2>4, <2>5, <2>6 DEF BooksInv
<1>2. /\ LogInv /\ HoldInv /\ WholeInv /\ BalanceInv /\ BooksInv
      /\ [Next]_vars /\ LogInv' /\ BalanceInv'
      => BooksInv'
  BY PlacedNext, AtSeqNext, BalancedNext, OfTenantNext, AtEndNext
     DEF BooksInv, WholeInv, BalanceInv
<1> QED  BY <1>1, <1>2, LogAlways, HoldAlways, WholeAlways, BalanceAlways, PTL DEF Spec

-----------------------------------------------------------------------------
(***************************************************************************)
(* reconcile() and replayBalances().                                       *)
(***************************************************************************)
\* Where ids are not shared, the log of a tenant is that of the id, or empty.
LEMMA LogIsTenants ==
    ASSUME LogInv, HoldInv, OwnIds, NEW t, NEW a \in Account, LogOfTenant(t, a) # {}
    PROVE  LogOfTenant(t, a) = LogOf(a)
<1>1. PICK e \in LogOf(a) : e.tenant = t
  BY DEF LogOfTenant
<1>2. \A f \in LogOf(a) : f.tenant = t
  BY <1>1, OneTenant
<1> QED  BY <1>2 DEF LogOfTenant

\* The last seq of a log is the number of its rows.
LEMMA LastIsHighest ==
    ASSUME NEW S, S # {}, NEW m \in Nat, NumberedTo(S, m)
    PROVE  LastSeq(S) = m /\ Cardinality(S) = m
BY HighestOfNumbered, NumberedCardinality DEF LastSeq, HighestSeq

\* What the stored balance of an account says is what its log says.
LEMMA StoredIsLogged ==
    ASSUME LogInv, HoldInv, BalanceInv, BooksInv, OwnIds, NothingCancels, NEW t, NEW a \in Account
    PROVE  /\ HasStored(t, a) <=> LogOfTenant(t, a) # {}
           /\ HasStored(t, a) => /\ balances[a].seq = LastSeq(LogOfTenant(t, a))
                                 /\ balances[a].amount = Total(LogOfTenant(t, a))
<1>1. ASSUME LogOfTenant(t, a) # {}
      PROVE  /\ HasStored(t, a) /\ balances[a].seq = LastSeq(LogOfTenant(t, a))
             /\ balances[a].amount = Total(LogOfTenant(t, a))
  <2>1. LogOfTenant(t, a) = LogOf(a) /\ LogOf(a) # {}
    BY <1>1, LogIsTenants
  <2>2. balances[a] # None /\ NumberedTo(LogOf(a), balances[a].seq)
    BY <2>1 DEF BooksInv, BalanceAtEnd
  <2>3. balances[a].seq \in Nat
    BY <2>2 DEF LogInv, TypeOK, BalanceRow
  <2>4. balances[a].tenant = t
    <3>1. PICK e \in LogOf(a) : e.tenant = balances[a].tenant
      BY <2>2 DEF BooksInv, BalanceOfTenant
    <3> QED  BY <2>1, <3>1 DEF LogOfTenant
  <2>5. balances[a].amount = Total(LogOf(a))
    BY <2>2 DEF BalanceInv, BalanceIsSumOfLog
  <2> QED  BY <2>1, <2>2, <2>3, <2>4, <2>5, LastIsHighest DEF HasStored
<1>2. ASSUME HasStored(t, a) PROVE LogOfTenant(t, a) # {}
  BY <1>2 DEF HasStored, BooksInv, BalanceOfTenant, LogOfTenant
<1> QED  BY <1>1, <1>2

\* No account of a tenant that shares no ids has fewer entries than its last seq.
LEMMA NoGaps ==
    ASSUME LogInv, HoldInv, OwnIds, NEW t
    PROVE  Gaps(t) = {}
<1>1. ASSUME NEW a \in LoggedAccounts(t)
      PROVE  Cardinality(LogOfTenant(t, a)) = LastSeq(LogOfTenant(t, a))
  <2>1. a \in Account /\ LogOfTenant(t, a) # {}
    BY DEF LoggedAccounts
  <2>2. LogOfTenant(t, a) = LogOf(a)
    BY <2>1, LogIsTenants
  <2>3. PICK m \in Nat : NumberedTo(LogOf(a), m)
    BY <2>1 DEF LogInv, LogsNumbered, Numbered
  <2> QED  BY <2>1, <2>2, <2>3, LastIsHighest
<1> QED  BY <1>1 DEF Gaps

\* Each statement of reconcile() finds nothing wrong, whenever it runs.
LEMMA NothingToReport ==
    ASSUME LogInv, HoldInv, BalanceInv, BooksInv, OwnIds, NothingCancels, NEW t \in Tenant
    PROVE  Drift(t) = {} /\ Gaps(t) = {} /\ Unbalanced(t) = {} /\ GlobalSum(t) = 0
<1>1. Drift(t) = {}
  BY StoredIsLogged DEF Drift, LoggedAccounts, StoredAmount, StoredSeq
<1>2. Unbalanced(t) = {}
  BY DEF Unbalanced, BooksInv, TransactionsBalanced
<1>3. GlobalSum(t) = 0
  BY DEF GlobalSum, RowsOfTenant, BooksInv, TenantsBalanced
<1> QED  BY <1>1, <1>2, <1>3, NoGaps

\* The log of a tenant has no holes, whatever the interleaving, as long as no other
\* tenant uses its account ids (post.ts:165-179): the hypothesis that MC_TenantGaps
\* shows to be needed.
THEOREM DenseInsideTenant ==
    ASSUME OwnIds
    PROVE  Spec => []DensePerTenant
<1>1. LogInv /\ HoldInv => DensePerTenant
  BY NoGaps DEF DensePerTenant
<1> QED  BY <1>1, LogAlways, HoldAlways, PTL

\* Rebuilding the projection from the log gives the stored balances, seq and amount,
\* for ids of one tenant and lines that do not cancel out (recon.ts:81-99): the second
\* hypothesis is the one MC_Replay shows to be needed.
THEOREM ReplayIsStored ==
    ASSUME OwnIds, NothingCancels
    PROVE  Spec => []ReplayMatchesStored
<1>1. LogInv /\ HoldInv /\ BalanceInv /\ BooksInv => ReplayMatchesStored
  <2> SUFFICES ASSUME LogInv, HoldInv, BalanceInv, BooksInv, NEW t \in Tenant
               PROVE  Replayed(t) = Stored(t)
    BY DEF ReplayMatchesStored
  <2>1. LoggedAccounts(t) = {b \in Account : HasStored(t, b)}
    BY StoredIsLogged DEF LoggedAccounts
  <2>2. \A a \in LoggedAccounts(t) :
           /\ balances[a].seq = LastSeq(LogOfTenant(t, a))
           /\ balances[a].amount = Total(LogOfTenant(t, a))
    BY <2>1, StoredIsLogged
  <2> QED  BY <2>1, <2>2 DEF Replayed, Stored
<1> QED  BY <1>1, LogAlways, HoldAlways, BalanceAlways, BooksAlways, PTL

\* The readers take no part in the write path: what holds of it holds beside them.
LEMMA WritesBeside == SSpec => Spec
<1>1. SInit => Init
  BY DEF SInit, RInit
<1>2. [SNext]_statementVars => [Next]_vars
  BY DEF SNext, RNext, statementVars, vars, rvars, svars
<1> QED  BY <1>1, <1>2, PTL DEF SSpec, Spec

\* A tenant is reconciled, and nothing was found so far.
Quiet ==
    /\ rtenant \in Tenant
    /\ report.drift = {} /\ report.gaps = {} /\ report.unbalanced = {} /\ report.globalSum = 0

\* Every statement of the reader keeps the report quiet.
LEMMA QuietNext ==
    /\ LogInv /\ HoldInv /\ BalanceInv /\ BooksInv /\ OwnIds /\ NothingCancels
    /\ Quiet /\ [SNext]_statementVars
    => Quiet'
<1> SUFFICES ASSUME LogInv, HoldInv, BalanceInv, BooksInv, OwnIds, NothingCancels,
                    Quiet, [SNext]_statementVars
             PROVE  Quiet'
  OBVIOUS
<1> USE DEF Quiet
<1>1. \A t \in Tenant : Drift(t) = {} /\ Gaps(t) = {} /\ Unbalanced(t) = {} /\ GlobalSum(t) = 0
  BY NothingToReport
<1>2. CASE Next /\ UNCHANGED rvars  BY <1>2 DEF rvars
<1>3. CASE ReadDrift
  <2>1. rtenant' \in Tenant /\ report' = [NoReport EXCEPT !.drift = Drift(rtenant')]
    BY <1>3 DEF ReadDrift
  <2>2. Drift(rtenant') = {}
    BY <1>1, <2>1
  <2> QED  BY <2>1, <2>2 DEF NoReport
<1>4. CASE ReadGaps  BY <1>1, <1>4 DEF ReadGaps
<1>5. CASE ReadUnbalanced  BY <1>1, <1>5 DEF ReadUnbalanced
<1>6. CASE ReadGlobalSum  BY <1>1, <1>6 DEF ReadGlobalSum
<1>7. CASE Report  BY <1>7 DEF Report, NoReport
<1>8. CASE GetBalance \/ ListEntries \/ TrialBalance \/ Read
  BY <1>8 DEF GetBalance, ListEntries, TrialBalance, Read
<1>9. CASE UNCHANGED statementVars  BY <1>9 DEF statementVars, rvars
<1> QED  BY <1>2, <1>3, <1>4, <1>5, <1>6, <1>7, <1>8, <1>9 DEF SNext, RNext

\* reconcile() raises no false alarm, however its statements and those of concurrent
\* postings interleave, about a ledger whose ids are of one tenant and whose requests
\* do not cancel out on an account (recon.ts:26-78).
THEOREM ReportsAreTrue ==
    ASSUME OwnIds, NothingCancels
    PROVE  SSpec => []NoFalseAlarm
<1>1. SInit => Quiet
  BY DEF SInit, RInit, Quiet, NoReport
<1>2. LogInv /\ HoldInv /\ BalanceInv /\ BooksInv /\ Quiet /\ [SNext]_statementVars => Quiet'
  BY QuietNext
<1>3. Quiet => NoFalseAlarm
  BY DEF Quiet, NoFalseAlarm
<1> QED
  BY <1>1, <1>2, <1>3, WritesBeside, LogAlways, HoldAlways, BalanceAlways, BooksAlways, PTL
     DEF SSpec

-----------------------------------------------------------------------------
(***************************************************************************)
(* A walk through a statement.                                             *)
(***************************************************************************)
\* What a walk has read: the log from its beginning, each row at its place.
Follows ==
    Walking =>
        /\ rtenant \in Tenant /\ walk.account \in Account
        /\ walk.entries \in Seq(LogOfTenant(rtenant, walk.account))
        /\ \A i \in 1 .. Len(walk.entries) : walk.entries[i].seq = i
        /\ rpc = "page" => walk.after = Len(walk.entries)

\* What it was shown first: a balance at an entry of the log, or nothing at 0.
Shown ==
    Walking =>
        LET log == LogOfTenant(rtenant, walk.account)
        IN  /\ walk.balance.seq = 0 \/ \E e \in log : e.seq = walk.balance.seq
            /\ Total(UpTo(log, walk.balance.seq)) = walk.balance.amount
            /\ rpc = "statement" => walk.balance.seq <= Len(walk.entries)

WalkInv == DOMAIN walk = DOMAIN NoWalk /\ Follows /\ Shown

\* What follows from row n of a log numbered to k is in order, and begins at n + 1.
LEMMA BySeqCounts ==
    ASSUME NEW S, NEW k \in Nat, NumberedTo(S, k), NEW n \in 0 .. k
    PROVE  LET q == BySeq({e \in S : e.seq > n})
           IN  q \in Seq(S) /\ Len(q) = k - n /\ \A i \in 1 .. k - n : q[i].seq = n + i
<1> DEFINE R == {e \in S : e.seq > n}
           q == BySeq(R)
           Before(e) == {f \in R : f.seq < e.seq}
<1>1. Cardinality(R) = k - n
  <2>1. R = {e \in S : n < e.seq /\ e.seq <= k}
    BY DEF NumberedTo
  <2>2. n \in Nat /\ k \in n .. k
    OBVIOUS
  <2>3. Cardinality({e \in S : n < e.seq /\ e.seq <= k}) = k - n
    BY <2>2, RowsBetween
  <2> HIDE DEF R
  <2> QED  BY <2>1, <2>3
<1>2. ASSUME NEW e \in R PROVE e.seq \in 1 .. k /\ n < e.seq /\ Cardinality(Before(e)) = e.seq - 1 - n
  <2>1. e.seq \in 1 .. k /\ n < e.seq
    BY DEF NumberedTo
  <2>2. PICK m \in n .. k : m = e.seq - 1
    BY <2>1
  <2>3. Before(e) = {f \in S : n < f.seq /\ f.seq <= m}
    <3>1. \A f \in S : f.seq \in 1 .. k
      BY DEF NumberedTo
    <3> QED  BY <2>1, <2>2, <3>1
  <2>4. Cardinality({f \in S : n < f.seq /\ f.seq <= m}) = m - n
    <3>1. n \in Nat
      OBVIOUS
    <3> QED  BY <3>1, RowsBetween
  <2> HIDE DEF R, Before
  <2> QED  BY <2>1, <2>2, <2>3, <2>4
<1>3. ASSUME NEW i \in 1 .. k - n PROVE q[i] \in R /\ q[i].seq = n + i
  <2>1. q[i] = CHOOSE e \in R : Cardinality(Before(e)) = i - 1
    BY <1>1 DEF BySeq
  <2>2. n + i \in 1 .. k /\ n + i > n
    OBVIOUS
  <2>3. PICK e \in S : e.seq = n + i
    BY <2>2 DEF NumberedTo
  <2>4. e \in R
    BY <2>2, <2>3
  <2>5. Cardinality(Before(e)) = i - 1
    BY <1>2, <2>3, <2>4
  <2> HIDE DEF q, R, Before
  <2>6. q[i] \in R /\ Cardinality(Before(q[i])) = i - 1
    BY <2>1, <2>4, <2>5
  <2>7. q[i].seq \in 1 .. k /\ q[i].seq - 1 - n = i - 1
    BY <1>2, <2>6
  <2> QED  BY <2>6, <2>7
<1>4. q \in [1 .. k - n -> S]
  <2> DEFINE g(i) == CHOOSE e \in R : Cardinality(Before(e)) = i - 1
  <2>1. q = [i \in 1 .. Cardinality(R) |-> g(i)]
    BY DEF BySeq
  <2>2. \A i \in 1 .. k - n : q[i] \in S
    BY <1>3
  <2> HIDE DEF q, g, R
  <2>3. q = [i \in 1 .. k - n |-> g(i)]
    BY <1>1, <2>1
  <2> QED  BY <2>2, <2>3
<1> HIDE DEF q
<1>5. k - n \in Nat /\ q \in [1 .. k - n -> S]
  BY <1>4
<1>6. q \in Seq(S) /\ Len(q) = k - n /\ \A i \in 1 .. k - n : q[i].seq = n + i
  BY <1>3, <1>5
<1> QED  BY <1>6 DEF q

\* The first rows of a list, as many as there are.
LEMMA FirstRows ==
    ASSUME NEW S, NEW q \in Seq(S), NEW n \in Nat
    PROVE  /\ FirstOf(q, n) \in Seq(S)
           /\ Len(FirstOf(q, n)) = IF n <= Len(q) THEN n ELSE Len(q)
           /\ \A i \in 1 .. Len(FirstOf(q, n)) : FirstOf(q, n)[i] = q[i]
<1>1. Len(q) \in Nat
  OBVIOUS
<1>2. PICK m \in Nat : m = (IF n <= Len(q) THEN n ELSE Len(q)) /\ m <= Len(q)
  BY <1>1
<1>3. Min({n, Len(q)}) = m
  <2> DEFINE x == Min({n, Len(q)})
  <2>1. \E y \in {n, Len(q)} : \A z \in {n, Len(q)} : y <= z
    BY <1>1
  <2>2. x \in {n, Len(q)} /\ \A z \in {n, Len(q)} : x <= z
    BY <2>1 DEF Min
  <2> HIDE DEF x
  <2>3. x = m
    BY <1>1, <1>2, <2>2
  <2> QED  BY <2>3 DEF x
<1>4. FirstOf(q, n) = SubSeq(q, 1, m)
  BY <1>3 DEF FirstOf
<1>5. \A i \in 1 .. m : q[i] \in S
  BY <1>1, <1>2
<1>6. /\ SubSeq(q, 1, m) \in Seq(S) /\ Len(SubSeq(q, 1, m)) = m
      /\ \A i \in 1 .. m : SubSeq(q, 1, m)[i] = q[i]
  <2>1. /\ SubSeq(q, 1, m) \in Seq(S)
        /\ Len(SubSeq(q, 1, m)) = IF 1 <= m THEN m - 1 + 1 ELSE 0
        /\ \A i \in 1 .. m - 1 + 1 : SubSeq(q, 1, m)[i] = q[1 + i - 1]
    BY <1>2, <1>5, SubSeqProperties
  <2>2. m - 1 + 1 = m /\ \A i \in 1 .. m : 1 + i - 1 = i
    BY <1>2
  <2> QED  BY <1>2, <2>1, <2>2
<1> QED  BY <1>2, <1>4, <1>6

\* A page has at least one row, and no more than the largest page.
LEMMA PageSizes ==
    ASSUME NEW limit \in LimitInput
    PROVE  PageSize(limit) \in 1 .. MaxLimit
<1>0. limit \in Int /\ MaxLimit \in Nat \ {0}
  BY LimitAssumption
<1> DEFINE x == Max({limit, 1})
           y == Min({x, MaxLimit})
<1>1. \E k \in {limit, 1} : \A z \in {limit, 1} : k >= z
  BY <1>0
<1>2. x \in {limit, 1} /\ \A z \in {limit, 1} : x >= z
  BY <1>1 DEF Max
<1> HIDE DEF x
<1>3. x \in Int /\ x >= 1
  BY <1>0, <1>2
<1>4. \E k \in {x, MaxLimit} : \A z \in {x, MaxLimit} : k <= z
  BY <1>0, <1>3
<1>5. y \in {x, MaxLimit} /\ \A z \in {x, MaxLimit} : y <= z
  BY <1>4 DEF Min
<1> HIDE DEF y
<1>6. y \in 1 .. MaxLimit
  BY <1>0, <1>3, <1>5
<1> QED  BY <1>6 DEF x, y, PageSize

\* A prefix of a numbered log, row by row, is the rows up to its length.
LEMMA PrefixIsUpTo ==
    ASSUME NEW S, NEW k \in Nat, NumberedTo(S, k), NEW q \in Seq(S),
           \A i \in 1 .. Len(q) : q[i].seq = i
    PROVE  ToSet(q) = UpTo(S, Len(q)) /\ Len(q) <= k
<1>1. Len(q) \in Nat /\ DOMAIN q = 1 .. Len(q) /\ \A i \in 1 .. Len(q) : q[i] \in S
  OBVIOUS
<1>2. ASSUME NEW e \in UpTo(S, Len(q)) PROVE e \in ToSet(q)
  <2>1. e.seq \in 1 .. Len(q) /\ e \in S
    BY <1>1 DEF UpTo, NumberedTo
  <2>2. q[e.seq] = e
    BY <1>1, <2>1 DEF NumberedTo
  <2> QED  BY <1>1, <2>1, <2>2 DEF ToSet
<1>3. ASSUME NEW i \in 1 .. Len(q) PROVE q[i] \in UpTo(S, Len(q)) /\ q[i].seq <= k
  <2>1. q[i] \in S /\ q[i].seq = i /\ i <= Len(q)
    BY <1>1
  <2> QED  BY <2>1 DEF UpTo, NumberedTo
<1>4. Len(q) <= k
  <2>1. CASE Len(q) = 0  BY <2>1
  <2>2. CASE Len(q) # 0
    <3>1. Len(q) \in 1 .. Len(q)
      BY <1>1, <2>2
    <3> QED  BY <1>3, <3>1
  <2> QED  BY <2>1, <2>2
<1> QED  BY <1>1, <1>2, <1>3, <1>4 DEF ToSet

\* The log of a tenant that shares no ids is numbered.
LEMMA TenantNumbered ==
    ASSUME LogInv, HoldInv, OwnIds, NEW t, NEW a \in Account
    PROVE  Numbered(LogOfTenant(t, a))
<1>1. CASE LogOfTenant(t, a) # {}
  BY <1>1, LogIsTenants DEF LogInv, LogsNumbered
<1>2. CASE LogOfTenant(t, a) = {}
  BY <1>2 DEF Numbered, NumberedTo
<1> QED  BY <1>1, <1>2

\* The log grows at its end only.
LEMMA GrowsAtEnd ==
    ASSUME LogInv, [Next]_vars, NEW t, NEW a \in Account, NEW m \in Nat,
           m = 0 \/ \E e \in LogOfTenant(t, a) : e.seq = m
    PROVE  /\ LogOfTenant(t, a) \subseteq LogOfTenant(t, a)'
           /\ UpTo(LogOfTenant(t, a)', m) = UpTo(LogOfTenant(t, a), m)
<1> DEFINE T == LogOfTenant(t, a)
<1>1. ASSUME NEW c \in Call, Commits(c) PROVE T \subseteq T' /\ UpTo(T', m) = UpTo(T, m)
  <2>1. T' = T \cup {f \in pending[c].entries : f.account = a /\ f.tenant = t}
    BY <1>1 DEF Commits, LogOfTenant, LogOf
  <2>2. ASSUME NEW f \in pending[c].entries, f.account = a PROVE ~(f.seq <= m)
    <3>1. f.seq \in Nat \ {0}
      BY DEF LogInv, TypeOK, Writes, Entry
    <3>2. CASE m = 0  BY <3>1, <3>2
    <3>3. ASSUME NEW e \in T, e.seq = m PROVE ~(f.seq <= m)
      <4>1. e.seq < f.seq
        BY <2>2, PendingAfterLog DEF LogOfTenant, LogOf
      <4> QED  BY <3>1, <3>3, <4>1
    <3> QED  BY <3>2, <3>3
  <2> QED  BY <2>1, <2>2 DEF UpTo
<1>2. CASE entries' = entries  BY <1>2 DEF LogOfTenant, LogOf
<1> QED  BY <1>1, <1>2, StepKinds, TableSteps, AdminKeeps DEF LogInv, vars

\* A page continues the walk where it stood, and ends it only at the end of the log.
LEMMA PageContinues ==
    ASSUME LogInv, HoldInv, OwnIds, WalkInv, ListEntries,
           NEW k \in Nat, NumberedTo(LogOfTenant(rtenant, walk.account), k)
    PROVE  /\ rtenant' = rtenant /\ walk'.account = walk.account /\ walk'.balance = walk.balance
           /\ DOMAIN walk' = DOMAIN walk
           /\ walk'.entries \in Seq(LogOfTenant(rtenant, walk.account))
           /\ \A i \in 1 .. Len(walk'.entries) : walk'.entries[i].seq = i
           /\ \/ rpc' = "page" /\ walk'.after = Len(walk'.entries)
              \/ rpc' = "statement" /\ Len(walk'.entries) = k
<1> DEFINE T == LogOfTenant(rtenant, walk.account)
           s == walk.entries
           q == EntriesAfter(rtenant, walk.account, walk.after)
<1>1. PICK limit \in LimitInput :
         LET size == PageSize(limit)
             rows == FirstOf(q, size + 1)
             page == FirstOf(rows, size)
             more == Len(rows) > size /\ page # <<>>
         IN  /\ walk' = [walk EXCEPT !.entries = @ \o page,
                                     !.after = IF more THEN page[Len(page)].seq ELSE @]
             /\ rpc' = IF more THEN "page" ELSE "statement"
  BY DEF ListEntries
<1> DEFINE size == PageSize(limit)
           rows == FirstOf(q, size + 1)
           page == FirstOf(rows, size)
           more == Len(rows) > size /\ page # <<>>
           n == Len(s)
<1>2. size \in Nat /\ size >= 1
  BY PageSizes, LimitAssumption
<1>3. /\ s \in Seq(T) /\ (\A i \in 1 .. n : s[i].seq = i) /\ walk.after = n /\ n \in 0 .. k
      /\ NumberedTo(T, k)
  <2>1. s \in Seq(T) /\ (\A i \in 1 .. n : s[i].seq = i) /\ walk.after = n
    BY DEF ListEntries, WalkInv, Follows, Walking
  <2>2. n <= k /\ n \in Nat
    BY <2>1, PrefixIsUpTo
  <2> QED  BY <2>1, <2>2
<1>4. q \in Seq(T) /\ Len(q) = k - n /\ \A i \in 1 .. k - n : q[i].seq = n + i
  <2>1. q = BySeq({e \in T : e.seq > n})
    BY <1>3 DEF EntriesAfter
  <2> HIDE DEF T, q, n
  <2> QED  BY <1>3, <2>1, BySeqCounts
<1>5. /\ rtenant' = rtenant
      /\ walk' = [walk EXCEPT !.entries = s \o page,
                              !.after = IF more THEN page[Len(page)].seq ELSE walk.after]
      /\ rpc' = IF more THEN "page" ELSE "statement"
  BY <1>1 DEF ListEntries
<1>6. DOMAIN walk = {"account", "balance", "after", "entries"}
  BY DEF WalkInv, NoWalk
<1> HIDE DEF T, q, s, size, rows, page, more, n
<1>7. /\ rows \in Seq(T) /\ Len(rows) = IF size + 1 <= k - n THEN size + 1 ELSE k - n
      /\ \A i \in 1 .. Len(rows) : rows[i] = q[i]
  <2>1. size + 1 \in Nat
    BY <1>2
  <2> QED  BY <1>4, <2>1, FirstRows DEF rows
<1>8. /\ page \in Seq(T) /\ Len(page) = IF size <= Len(rows) THEN size ELSE Len(rows)
      /\ \A i \in 1 .. Len(page) : page[i] = rows[i]
  BY <1>2, <1>7, FirstRows DEF page
<1>9. PICK p \in Nat : p = Len(page) /\ p <= k - n /\ p <= size /\ (p = size \/ p = k - n)
  <2>1. CASE size + 1 <= k - n
    <3>1. Len(page) = size
      BY <1>2, <1>7, <1>8, <2>1
    <3> QED  BY <1>2, <1>3, <2>1, <3>1
  <2>2. CASE ~(size + 1 <= k - n)
    <3>1. Len(rows) = k - n
      BY <1>7, <2>2
    <3>2. CASE size <= k - n
      <4>1. Len(page) = size
        BY <1>8, <3>1, <3>2
      <4> QED  BY <1>2, <1>3, <3>2, <4>1
    <3>3. CASE ~(size <= k - n)
      <4>1. Len(page) = k - n
        BY <1>8, <3>1, <3>3
      <4> QED  BY <1>2, <1>3, <3>3, <4>1
    <3> QED  BY <3>2, <3>3
  <2> QED  BY <2>1, <2>2
<1>10. more <=> k - n > size
  <2>1. Len(rows) > size <=> k - n > size
    BY <1>2, <1>3, <1>7
  <2>2. k - n > size => page # <<>>
    BY <1>2, <1>3, <1>8, <1>9
  <2> QED  BY <2>1, <2>2 DEF more
<1>11. \A i \in 1 .. p : page[i].seq = n + i
  <2> TAKE i \in 1 .. p
  <2>1. i \in 1 .. Len(page) /\ i \in 1 .. Len(rows) /\ i \in 1 .. k - n
    BY <1>2, <1>3, <1>7, <1>8, <1>9
  <2> QED  BY <1>4, <1>7, <1>8, <2>1
<1>12. /\ s \o page \in Seq(T) /\ Len(s \o page) = n + p
       /\ \A i \in 1 .. n + p : (s \o page)[i] = IF i <= n THEN s[i] ELSE page[i - n]
  BY <1>3, <1>8, <1>9, ConcatProperties DEF n
<1>13. \A i \in 1 .. n + p : (s \o page)[i].seq = i
  <2> TAKE i \in 1 .. n + p
  <2>1. CASE i <= n
    <3>1. i \in 1 .. n
      BY <1>3, <2>1
    <3> QED  BY <1>3, <1>12, <2>1, <3>1
  <2>2. CASE ~(i <= n)
    <3>1. i - n \in 1 .. p /\ n + (i - n) = i
      BY <1>3, <1>9, <2>2
    <3> QED  BY <1>11, <1>12, <2>2, <3>1
  <2> QED  BY <2>1, <2>2
<1>14. walk'.entries = s \o page /\ walk'.account = walk.account /\ walk'.balance = walk.balance
       /\ DOMAIN walk' = DOMAIN walk
       /\ walk'.after = IF more THEN page[Len(page)].seq ELSE walk.after
  BY <1>5, <1>6
<1>15. CASE more
  <2>1. p = size /\ p \in 1 .. p
    BY <1>2, <1>3, <1>9, <1>10, <1>15
  <2>2. walk'.after = n + p /\ rpc' = "page"
    BY <1>5, <1>9, <1>11, <1>14, <1>15, <2>1
  <2> QED  BY <1>5, <1>12, <1>13, <1>14, <2>2 DEF T
<1>16. CASE ~more
  <2>1. n + p = k
    BY <1>2, <1>3, <1>9, <1>10, <1>16
  <2>2. rpc' = "statement"
    BY <1>5, <1>16
  <2> QED  BY <1>5, <1>12, <1>13, <1>14, <2>1, <2>2 DEF T
<1> QED  BY <1>15, <1>16

\* The first balance a walk is shown is that of its log up to an entry.
LEMMA BalanceShown ==
    ASSUME LogInv, HoldInv, BooksInv, OwnIds, NEW t, NEW a \in Account
    PROVE  LET log == LogOfTenant(t, a)
               b == BalanceOf(t, a)
           IN  /\ b.seq = 0 \/ \E e \in log : e.seq = b.seq
               /\ Total(UpTo(log, b.seq)) = b.amount
<1>1. CASE HasStored(t, a)
  <2>1. PICK e \in LogOf(a) : e.tenant = t
    BY <1>1 DEF HasStored, BooksInv, BalanceOfTenant
  <2>2. LogOfTenant(t, a) = LogOf(a)
    BY <2>1, LogIsTenants DEF LogOfTenant
  <2>3. BalanceOf(t, a) = [seq |-> balances[a].seq, amount |-> balances[a].amount]
    BY <1>1 DEF BalanceOf, StoredSeq, StoredAmount
  <2> QED  BY <1>1, <2>2, <2>3 DEF HasStored, BooksInv, BalanceAtSeq
<1>2. CASE ~HasStored(t, a)
  <2>1. BalanceOf(t, a) = [seq |-> 0, amount |-> 0]
    BY <1>2 DEF BalanceOf, StoredSeq, StoredAmount
  <2>2. BalanceOf(t, a).seq = 0 /\ BalanceOf(t, a).amount = 0
    BY <2>1
  <2>3. UpTo(LogOfTenant(t, a), BalanceOf(t, a).seq) = {}
    BY <2>2 DEF UpTo, LogOfTenant, LogOf, LogInv, TypeOK, Entry
  <2>4. Total({}) = 0
    BY TotalFacts
  <2> QED  BY <2>2, <2>3, <2>4
<1> QED  BY <1>1, <1>2

\* Every step keeps WalkInv.
LEMMA WalkNext ==
    /\ LogInv /\ HoldInv /\ BooksInv /\ OwnIds /\ WalkInv
    /\ [SNext]_statementVars
    => WalkInv'
<1> SUFFICES ASSUME LogInv, HoldInv, BooksInv, OwnIds, WalkInv, [SNext]_statementVars
             PROVE  WalkInv'
  OBVIOUS
<1> DEFINE T == LogOfTenant(rtenant, walk.account)
<1>1. CASE Next /\ UNCHANGED <<rvars, svars>>
  <2>1. UNCHANGED <<rpc, rtenant, walk>>
    BY <1>1 DEF rvars, svars
  <2>2. ASSUME Walking
        PROVE  /\ T \subseteq LogOfTenant(rtenant, walk.account)'
               /\ UpTo(LogOfTenant(rtenant, walk.account)', walk.balance.seq)
                     = UpTo(T, walk.balance.seq)
    <3>1. walk.account \in Account /\ walk.balance.seq \in Nat
      BY <2>2 DEF WalkInv, Follows, Shown, LogOfTenant, LogOf, LogInv, TypeOK, Entry
    <3>2. walk.balance.seq = 0 \/ \E e \in T : e.seq = walk.balance.seq
      BY <2>2 DEF WalkInv, Shown
    <3>3. LogOfTenant(rtenant, walk.account)' = LogOfTenant(rtenant, walk.account)'
      OBVIOUS
    <3> QED  BY <1>1, <2>1, <3>1, <3>2, GrowsAtEnd DEF LogOfTenant, LogOf
  <2>3. Walking' => Walking
    BY <2>1 DEF Walking
  <2>4. Follows'
    BY <2>1, <2>2, <2>3, SeqMonotonic DEF WalkInv, Follows
  <2>5. Shown'
    BY <2>1, <2>2, <2>3 DEF WalkInv, Shown
  <2> QED  BY <2>1, <2>4, <2>5 DEF WalkInv
<1>2. CASE GetBalance /\ UNCHANGED vars
  <2>1. PICK a \in Account :
           walk' = [NoWalk EXCEPT !.account = a, !.balance = BalanceOf(rtenant', a)]
    BY <1>2 DEF GetBalance
  <2>2. /\ rtenant' \in Tenant /\ rpc' = "page" /\ walk'.account = a
        /\ walk'.balance = BalanceOf(rtenant', a) /\ walk'.entries = <<>> /\ walk'.after = 0
        /\ DOMAIN walk' = DOMAIN NoWalk
    BY <1>2, <2>1 DEF GetBalance, NoWalk
  <2>3. LogOfTenant(rtenant, walk.account)' = LogOfTenant(rtenant', a)
    BY <1>2, <2>2 DEF LogOfTenant, LogOf, vars
  <2>4. Follows'
    BY <2>2 DEF Follows
  <2>5. Shown'
    BY <2>2, <2>3, BalanceShown DEF Shown
  <2> QED  BY <2>2, <2>4, <2>5 DEF WalkInv, NoWalk
<1>3. CASE ListEntries /\ UNCHANGED vars
  <2>0. Walking /\ walk.account \in Account
    BY <1>3 DEF ListEntries, Walking, WalkInv, Follows
  <2>1. PICK k \in Nat : NumberedTo(T, k)
    BY <2>0, TenantNumbered DEF Numbered
  <2>2. /\ rtenant' = rtenant /\ walk'.account = walk.account /\ walk'.balance = walk.balance
        /\ DOMAIN walk' = DOMAIN walk
        /\ walk'.entries \in Seq(T) /\ \A i \in 1 .. Len(walk'.entries) : walk'.entries[i].seq = i
        /\ \/ rpc' = "page" /\ walk'.after = Len(walk'.entries)
           \/ rpc' = "statement" /\ Len(walk'.entries) = k
    BY <1>3, <2>1, PageContinues
  <2>3. LogOfTenant(rtenant, walk.account)' = T
    BY <1>3, <2>2 DEF LogOfTenant, LogOf, vars
  <2>4. Follows'
    BY <2>0, <2>2, <2>3 DEF WalkInv, Follows
  <2>5. walk.balance.seq <= k
    BY <2>0, <2>1 DEF WalkInv, Shown, NumberedTo
  <2>6. Shown'
    BY <2>0, <2>2, <2>3, <2>5 DEF WalkInv, Shown
  <2> QED  BY <2>2, <2>4, <2>6 DEF WalkInv, NoWalk
<1>4. CASE TrialBalance \/ Read
  BY <1>4 DEF TrialBalance, Read, WalkInv, Follows, Shown, Walking, NoWalk
<1>5. CASE (ReadDrift \/ ReadGaps \/ ReadUnbalanced \/ ReadGlobalSum \/ Report) /\ UNCHANGED svars
  BY <1>5 DEF ReadDrift, ReadGaps, ReadUnbalanced, ReadGlobalSum, Report, svars, WalkInv, Follows,
              Shown, Walking, NoWalk
<1>6. CASE UNCHANGED statementVars
  BY <1>6 DEF statementVars, vars, rvars, svars, WalkInv, Follows, Shown, Walking, NoWalk,
              LogOfTenant, LogOf
<1> QED  BY <1>1, <1>2, <1>3, <1>4, <1>5, <1>6 DEF SNext, RNext, rvars, svars

\* WalkInv holds in every reachable state.
THEOREM WalksAlways ==
    ASSUME OwnIds
    PROVE  SSpec => []WalkInv
<1>1. SInit => WalkInv
  BY DEF SInit, RInit, WalkInv, Follows, Shown, Walking
<1>2. LogInv /\ HoldInv /\ BooksInv /\ WalkInv /\ [SNext]_statementVars => WalkInv'
  BY WalkNext
<1> QED  BY <1>1, <1>2, WritesBeside, LogAlways, HoldAlways, BooksAlways, PTL DEF SSpec

\* A walk reads the log of its account from the beginning, skipping nothing and
\* repeating nothing, for every page size and however many postings commit between
\* its pages (listEntries, query.ts:38-58), on ids that are one tenant's.
THEOREM WalksReadPrefixes ==
    ASSUME OwnIds
    PROVE  SSpec => []StatementIsPrefix
<1>1. LogInv /\ HoldInv /\ WalkInv => StatementIsPrefix
  <2> SUFFICES ASSUME LogInv, HoldInv, WalkInv, Walking
               PROVE  /\ \A i \in 1 .. Len(walk.entries) : walk.entries[i].seq = i
                      /\ ToSet(walk.entries)
                           = UpTo(LogOfTenant(rtenant, walk.account), Len(walk.entries))
    BY DEF StatementIsPrefix, UpTo
  <2>1. /\ walk.account \in Account
        /\ walk.entries \in Seq(LogOfTenant(rtenant, walk.account))
        /\ \A i \in 1 .. Len(walk.entries) : walk.entries[i].seq = i
    BY DEF WalkInv, Follows
  <2>2. PICK k \in Nat : NumberedTo(LogOfTenant(rtenant, walk.account), k)
    BY <2>1, TenantNumbered DEF Numbered
  <2> QED  BY <2>1, <2>2, PrefixIsUpTo
<1> QED  BY <1>1, WalksAlways, WritesBeside, LogAlways, HoldAlways, PTL

\* The balance a client was shown is the sum of the statement it then reads, up to the
\* seq of the balance, though the two are read at different moments (getBalance and
\* listEntries; post.ts:187-200 writes seq and amount together).
THEOREM BalancesMatchStatements ==
    ASSUME OwnIds
    PROVE  SSpec => []BalanceMatchesStatement
<1>1. StatementIsPrefix /\ WalkInv /\ LogInv => BalanceMatchesStatement
  <2> SUFFICES ASSUME StatementIsPrefix, WalkInv, LogInv, rpc = "statement"
               PROVE  Total({e \in ToSet(walk.entries) : e.seq <= walk.balance.seq})
                         = walk.balance.amount
    BY DEF BalanceMatchesStatement
  <2> DEFINE log == LogOfTenant(rtenant, walk.account)
             n == Len(walk.entries)
             m == walk.balance.seq
  <2>1. /\ ToSet(walk.entries) = {e \in log : e.seq <= n} /\ n \in Nat
        /\ m = 0 \/ \E e \in log : e.seq = m
        /\ m <= n /\ Total(UpTo(log, m)) = walk.balance.amount
    BY DEF StatementIsPrefix, WalkInv, Follows, Shown, Walking
  <2>2. \A e \in log : e.seq \in Nat
    BY DEF LogOfTenant, LogOf, LogInv, TypeOK, Entry
  <2>3. {e \in ToSet(walk.entries) : e.seq <= m} = UpTo(log, m)
    <3>1. m \in Nat
      BY <2>1, <2>2
    <3> HIDE DEF log, n, m
    <3>2. \A e \in log : e.seq <= m => e.seq <= n
      BY <2>1, <2>2, <3>1
    <3> QED  BY <2>1, <3>2 DEF UpTo
  <2> QED  BY <2>1, <2>3
<1> QED  BY <1>1, WalksReadPrefixes, WalksAlways, WritesBeside, LogAlways, PTL

\* A walk ends only when it has everything that is committed by then: a null
\* next_after_seq means the end, for every page size asked for (query.ts:42, 53-57).
THEOREM WalksEndAtEnd ==
    ASSUME OwnIds
    PROVE  SSpec => StatementEndsAtEnd
<1> DEFINE Ends == rpc = "page" /\ rpc' = "statement" =>
                      ToSet(walk'.entries) = LogOfTenant(rtenant, walk.account)
<1>1. LogInv /\ HoldInv /\ WalkInv /\ [SNext]_statementVars => [Ends]_statementVars
  <2> SUFFICES ASSUME LogInv, HoldInv, WalkInv, SNext, rpc = "page", rpc' = "statement"
               PROVE  ToSet(walk'.entries) = LogOfTenant(rtenant, walk.account)
    OBVIOUS
  <2>1. ListEntries
    BY DEF SNext, RNext, rvars, GetBalance, TrialBalance, Read, ReadDrift, ReadGaps,
           ReadUnbalanced, ReadGlobalSum, Report
  <2>2. walk.account \in Account
    BY DEF WalkInv, Follows, Walking
  <2>3. PICK k \in Nat : NumberedTo(LogOfTenant(rtenant, walk.account), k)
    BY <2>2, TenantNumbered DEF Numbered
  <2>4. /\ walk'.entries \in Seq(LogOfTenant(rtenant, walk.account))
        /\ \A i \in 1 .. Len(walk'.entries) : walk'.entries[i].seq = i
        /\ Len(walk'.entries) = k
    BY <2>1, <2>3, PageContinues
  <2> DEFINE log == LogOfTenant(rtenant, walk.account)
             s == walk'.entries
  <2>5. UpTo(log, k) = log
    BY <2>3 DEF UpTo, NumberedTo
  <2>6. ToSet(s) = UpTo(log, Len(s))
    <3> HIDE DEF log, s
    <3> QED  BY <2>3, <2>4, PrefixIsUpTo DEF log, s
  <2> QED  BY <2>4, <2>5, <2>6
<1> QED
  BY <1>1, WritesBeside, WalksAlways, LogAlways, HoldAlways, PTL DEF SSpec, StatementEndsAtEnd

-----------------------------------------------------------------------------
(***************************************************************************)
(* The decimals: an amount that is written down is read back.  An amount   *)
(* has as many digits before the point as parseAmount takes exactly when   *)
(* it is below TenTo(IntegerDigits + Decimals).                            *)
(***************************************************************************)
\* v[i] is the number the first i of the digits d are.
HornerTo(v, d, n) == v = [i \in 0 .. n |-> IF i = 0 THEN 0 ELSE 10 * v[i - 1] + d[i]]

\* The recursive function exists.
LEMMA HornerExists ==
    ASSUME NEW d, NEW n \in Nat
    PROVE  \E v : HornerTo(v, d, n)
<1> DEFINE S == {k \in 0 .. n : \E v : HornerTo(v, d, k)}
<1>1. 0 \in S
  <2>1. HornerTo([i \in 0 .. 0 |-> 0], d, 0)
    BY DEF HornerTo
  <2> QED  BY <2>1
<1>2. ASSUME NEW k \in 0 .. n - 1, k \in S PROVE k + 1 \in S
  <2>1. PICK v : HornerTo(v, d, k)
    BY <1>2
  <2> DEFINE x == [i \in 0 .. k + 1 |-> IF i = k + 1 THEN 10 * v[k] + d[k + 1] ELSE v[i]]
  <2>2. ASSUME NEW i \in 0 .. k + 1 PROVE x[i] = IF i = 0 THEN 0 ELSE 10 * x[i - 1] + d[i]
    <3>1. CASE i = k + 1
      BY <3>1
    <3>2. CASE i \in 0 .. k
      <4>1. x[i] = v[i] /\ (i # 0 => x[i - 1] = v[i - 1])
        BY <3>2
      <4>2. v[i] = IF i = 0 THEN 0 ELSE 10 * v[i - 1] + d[i]
        BY <2>1, <3>2 DEF HornerTo
      <4> HIDE DEF x
      <4> QED  BY <4>1, <4>2
    <3> QED  BY <3>1, <3>2
  <2>3. x = [i \in 0 .. k + 1 |-> x[i]]
    OBVIOUS
  <2>4. HornerTo(x, d, k + 1)
    <3> HIDE DEF x
    <3> QED  BY <2>2, <2>3 DEF HornerTo
  <2> HIDE DEF x
  <2> QED  BY <2>4
<1>3. n \in S
  <2> HIDE DEF S
  <2> QED  BY <1>1, <1>2, CountUp
<1> QED  BY <1>3

\* A function that counts the digits so gives their number.
LEMMA NumberIsLast ==
    ASSUME NEW d, NEW n \in Nat, Len(d) = n, NEW v, v[0] = 0,
           \A i \in 1 .. n : v[i] = 10 * v[i - 1] + d[i]
    PROVE  NumberOf(d) = v[n]
<1>1. PICK w : HornerTo(w, d, n) /\ NumberOf(d) = w[n]
  <2> DEFINE u == CHOOSE u : HornerTo(u, d, n)
  <2>1. HornerTo(u, d, n)
    BY HornerExists
  <2>2. NumberOf(d) = u[n]
    BY DEF NumberOf, HornerTo
  <2> HIDE DEF u
  <2> QED  BY <2>1, <2>2
<1>2. \A k \in 0 .. n : w[k] = v[k]
  <2> DEFINE S == {i \in 0 .. n : w[i] = v[i]}
  <2>1. 0 \in S
    BY <1>1 DEF HornerTo
  <2>2. \A k \in 0 .. n - 1 : k \in S => k + 1 \in S
    BY <1>1 DEF HornerTo
  <2>3. \A k \in 0 .. n : k \in S
    <3> HIDE DEF S
    <3> QED  BY <2>1, <2>2, CountUp
  <2> QED  BY <2>3
<1> QED  BY <1>1, <1>2

\* One digit more.
LEMMA NumberAppend ==
    ASSUME NEW d, NEW e, NEW n \in Nat, Len(d) = n, Len(e) = n + 1, \A i \in 1 .. n : e[i] = d[i]
    PROVE  NumberOf(e) = 10 * NumberOf(d) + e[n + 1]
<1>1. PICK v : HornerTo(v, e, n + 1)
  <2>1. n + 1 \in Nat
    OBVIOUS
  <2> QED  BY <2>1, HornerExists
<1>2. v[0] = 0 /\ \A i \in 1 .. n + 1 : v[i] = 10 * v[i - 1] + e[i]
  BY <1>1 DEF HornerTo
<1>3. NumberOf(d) = v[n]
  <2>1. v[0] = 0 /\ \A i \in 1 .. n : v[i] = 10 * v[i - 1] + d[i]
    BY <1>2
  <2> QED  BY <2>1, NumberIsLast
<1>4. NumberOf(e) = v[n + 1]
  BY <1>2, NumberIsLast
<1>5. v[n + 1] = 10 * v[n] + e[n + 1]
  BY <1>2
<1> QED  BY <1>3, <1>4, <1>5

\* A 1 and k zeros.
LEMMA OneAndZeros ==
    ASSUME NEW k \in Nat
    PROVE  /\ Len(<<1>> \o Zeros(k)) = k + 1
           /\ \A i \in 1 .. k + 1 : (<<1>> \o Zeros(k))[i] = IF i = 1 THEN 1 ELSE 0
<1>1. Zeros(k) \in Seq(Int) /\ Len(Zeros(k)) = k /\ \A i \in 1 .. k : Zeros(k)[i] = 0
  BY DEF Zeros
<1> HIDE DEF Zeros
<1> QED  BY <1>1

\* No zeros: 1.
LEMMA TenToZero == TenTo(0) = 1
<1> DEFINE d == <<1>> \o Zeros(0)
           v == [i \in 0 .. 1 |-> i]
<1>1. PICK n \in Nat : n = 1
  OBVIOUS
<1>2. Len(d) = n /\ d[1] = 1
  BY <1>1, OneAndZeros
<1>3. v[0] = 0 /\ \A i \in 1 .. n : v[i] = 10 * v[i - 1] + d[i]
  BY <1>1, <1>2
<1>4. v[n] = 1
  BY <1>1
<1> HIDE DEF d, v
<1>5. NumberOf(d) = v[n]
  BY <1>2, <1>3, NumberIsLast
<1> QED  BY <1>4, <1>5 DEF TenTo, d

\* A power of ten is positive, and the next is ten times as much.
LEMMA TenToType ==
    ASSUME NEW n \in Nat
    PROVE  TenTo(n) \in Nat \ {0} /\ TenTo(n + 1) = 10 * TenTo(n)
<1> DEFINE S == {k \in 0 .. n : TenTo(k) \in Nat \ {0}}
<1>1. ASSUME NEW k \in Nat PROVE TenTo(k + 1) = 10 * TenTo(k) + 0
  <2> DEFINE d == <<1>> \o Zeros(k)
             e == <<1>> \o Zeros(k + 1)
  <2>0. /\ Len(d) = k + 1 /\ \A i \in 1 .. k + 1 : d[i] = IF i = 1 THEN 1 ELSE 0
        /\ Len(e) = (k + 1) + 1 /\ \A i \in 1 .. (k + 1) + 1 : e[i] = IF i = 1 THEN 1 ELSE 0
    <3>1. k + 1 \in Nat
      OBVIOUS
    <3> QED  BY <3>1, OneAndZeros
  <2> HIDE DEF d, e
  <2>1. Len(d) = k + 1 /\ Len(e) = (k + 1) + 1 /\ e[(k + 1) + 1] = 0
    BY <2>0
  <2>2. \A i \in 1 .. k + 1 : e[i] = d[i]
    BY <2>0
  <2> HIDE DEF d, e
  <2>3. NumberOf(e) = 10 * NumberOf(d) + e[(k + 1) + 1]
    BY <2>1, <2>2, NumberAppend
  <2> QED  BY <2>1, <2>3 DEF TenTo, d, e
<1>2. n \in S
  <2>1. 0 \in S
    BY TenToZero
  <2>2. \A k \in 0 .. n - 1 : k \in S => k + 1 \in S
    BY <1>1
  <2> HIDE DEF S
  <2> QED  BY <2>1, <2>2, CountUp
<1> QED  BY <1>1, <1>2

\* The product of two powers of ten.
LEMMA TenToSum ==
    ASSUME NEW j \in Nat, NEW n \in Nat
    PROVE  TenTo(j + n) = TenTo(j) * TenTo(n)
<1> DEFINE S == {k \in 0 .. n : TenTo(j + k) = TenTo(j) * TenTo(k)}
<1>1. 0 \in S
  BY TenToZero, TenToType
<1>2. ASSUME NEW k \in 0 .. n - 1, k \in S PROVE k + 1 \in S
  <2>1. /\ TenTo(j + k) \in Nat /\ TenTo(j) \in Nat /\ TenTo(k) \in Nat
        /\ TenTo((j + k) + 1) = 10 * TenTo(j + k) /\ TenTo(k + 1) = 10 * TenTo(k)
    BY TenToType
  <2>2. PICK x, y \in Nat : x = TenTo(j) /\ y = TenTo(k)
    BY <2>1
  <2>3. 10 * (x * y) = x * (10 * y)
    OBVIOUS
  <2>4. TenTo((j + k) + 1) = TenTo(j) * TenTo(k + 1)
    BY <1>2, <2>1, <2>2, <2>3
  <2> QED  BY <2>4
<1>3. n \in S
  <2> HIDE DEF S
  <2> QED  BY <1>1, <1>2, CountUp
<1> QED  BY <1>3

\* More zeros, no less.
LEMMA TenToMonotone ==
    ASSUME NEW j \in Nat, NEW k \in Nat, j <= k
    PROVE  TenTo(j) <= TenTo(k)
<1>1. PICK i \in Nat : k = j + i
  <2>1. k - j \in Nat /\ k = j + (k - j)
    OBVIOUS
  <2> QED  BY <2>1
<1>2. TenTo(k) = TenTo(j) * TenTo(i)
  BY <1>1, TenToSum
<1>3. PICK x, y \in Nat \ {0} : x = TenTo(j) /\ y = TenTo(i)
  BY TenToType
<1>4. x <= x * y
  OBVIOUS
<1> QED  BY <1>2, <1>3, <1>4

\* A number is below the power of ten with as many zeros.
LEMMA TenToGrows ==
    ASSUME NEW n \in Nat
    PROVE  n < TenTo(n)
<1> DEFINE S == {k \in 0 .. n : k < TenTo(k)}
<1>1. 0 \in S
  BY TenToZero
<1>2. \A k \in 0 .. n - 1 : k \in S => k + 1 \in S
  BY TenToType
<1>3. n \in S
  <2> HIDE DEF S
  <2> QED  BY <1>1, <1>2, CountUp
<1> QED  BY <1>3

\* The scale is positive.
LEMMA ScaleType == SCALE \in Nat \ {0}
BY TenToType, MoneyAssumption DEF SCALE

\* An amount without its sign.
LEMMA AbsType ==
    ASSUME NEW n \in Int
    PROVE  Abs(n) \in Nat
BY DEF Abs

\* Digits are a sequence of numbers.
LEMMA DigitsType ==
    ASSUME NEW m \in Nat, NEW j \in Nat
    PROVE  Digits(m, j) \in Seq(Nat) /\ Len(Digits(m, j)) = j
<1> DEFINE digit(i) == (m \div TenTo(i)) % 10
<1>1. \A i \in Nat : digit(i) \in Nat
  <2> SUFFICES ASSUME NEW i \in Nat PROVE digit(i) \in Nat
    OBVIOUS
  <2>1. m \div TenTo(i) \in Nat
    BY TenToType, DivFacts
  <2> QED  BY <2>1
<1>2. Digits(m, j) = [i \in 1 .. j |-> digit(j - i)]
  BY DEF Digits
<1> HIDE DEF digit
<1>3. \A i \in 1 .. j : digit(j - i) \in Nat
  BY <1>1
<1> QED  BY <1>2, <1>3

\* The digits of a number that has no more of them.
LEMMA NumberOfDigits ==
    ASSUME NEW n \in Nat, NEW length \in Nat, n < TenTo(length)
    PROVE  NumberOf(Digits(n, length)) = n
<1> DEFINE d == Digits(n, length)
           v == [i \in 0 .. length |-> n \div TenTo(length - i)]
<1>1. Len(d) = length /\ \A i \in 1 .. length : d[i] = (n \div TenTo(length - i)) % 10
  BY DEF Digits
<1>2. v[0] = 0
  <2>1. PICK p \in Nat \ {0} : p = TenTo(length)
    BY TenToType
  <2>2. n \in 0 .. p - 1 /\ n = p * 0 + n
    BY <2>1
  <2>3. n \div p = 0
    BY <2>2, DivUnique
  <2> QED  BY <2>1, <2>3
<1>3. v[length] = n
  BY TenToZero
<1>4. ASSUME NEW i \in 1 .. length PROVE v[i] = 10 * v[i - 1] + d[i]
  <2>1. PICK k \in Nat : k = length - i
    OBVIOUS
  <2>2. length - (i - 1) = k + 1 /\ i - 1 \in 0 .. length
    BY <2>1
  <2>3. v[i] = n \div TenTo(k) /\ v[i - 1] = n \div TenTo(k + 1) /\ d[i] = (n \div TenTo(k)) % 10
    BY <1>1, <2>1, <2>2
  <2>4. n \div TenTo(k) = 10 * (n \div (10 * TenTo(k))) + ((n \div TenTo(k)) % 10)
    BY TenToType, DivTen
  <2>5. TenTo(k + 1) = 10 * TenTo(k)
    BY TenToType
  <2> HIDE DEF v, d
  <2> QED  BY <2>3, <2>4, <2>5
<1> HIDE DEF v, d
<1>5. NumberOf(d) = v[length]
  <2>1. v[0] = 0 /\ \A i \in 1 .. length : v[i] = 10 * v[i - 1] + d[i]
    BY <1>2, <1>4
  <2>2. Len(d) = length
    BY <1>1
  <2> QED  BY <2>1, <2>2, NumberIsLast
<1> QED  BY <1>3, <1>5 DEF d

\* A number has digits, and no more than it needs.
LEMMA LengthFacts ==
    ASSUME NEW n \in Nat
    PROVE  /\ LengthOf(n) \in Nat \ {0} /\ n < TenTo(LengthOf(n))
           /\ LengthOf(n) = 1 \/ TenTo(LengthOf(n) - 1) <= n
<1> DEFINE Least(k) == n < TenTo(k) /\ (k = 1 \/ TenTo(k - 1) <= n)
           S == {k \in 0 .. n : TenTo(k + 1) <= n}
<1>1. ASSUME \A k \in 1 .. n + 1 : ~Least(k) PROVE FALSE
  <2>1. \A k \in Nat : TenTo(k) \in Nat
    BY TenToType
  <2>2. 0 \in S
    <3>1. ~Least(1)
      BY <1>1
    <3> QED  BY <2>1, <3>1
  <2>3. ASSUME NEW k \in 0 .. n - 1, k \in S PROVE k + 1 \in S
    <3>1. k + 2 \in 1 .. n + 1 /\ (k + 2) - 1 = k + 1 /\ (k + 1) + 1 = k + 2 /\ k + 1 \in 0 .. n
      OBVIOUS
    <3>2. TenTo(k + 1) <= n
      BY <2>3
    <3>3. ~Least(k + 2)
      BY <1>1, <3>1
    <3>4. TenTo(k + 2) <= n
      BY <2>1, <3>1, <3>2, <3>3
    <3> QED  BY <3>1, <3>4
  <2>4. n \in S
    <3> HIDE DEF S
    <3> QED  BY <2>2, <2>3, CountUp
  <2> QED  BY <2>1, <2>4, TenToGrows
<1>2. Least(LengthOf(n)) /\ LengthOf(n) \in 1 .. n + 1
  BY <1>1 DEF LengthOf
<1> QED  BY <1>2

\* A number below a power of ten needs no more digits than the power has zeros.
LEMMA LengthBound ==
    ASSUME NEW n \in Nat, NEW k \in Nat \ {0}
    PROVE  LengthOf(n) <= k <=> n < TenTo(k)
<1>1. /\ LengthOf(n) \in Nat \ {0} /\ n < TenTo(LengthOf(n))
      /\ LengthOf(n) = 1 \/ TenTo(LengthOf(n) - 1) <= n
  BY LengthFacts
<1>2. \A j \in Nat : TenTo(j) \in Nat
  BY TenToType
<1>3. ASSUME LengthOf(n) <= k PROVE n < TenTo(k)
  BY <1>1, <1>2, <1>3, TenToMonotone
<1>4. ASSUME n < TenTo(k), LengthOf(n) > k PROVE FALSE
  <2>1. LengthOf(n) # 1 /\ LengthOf(n) - 1 \in Nat /\ k <= LengthOf(n) - 1
    BY <1>1, <1>4
  <2>2. TenTo(k) <= TenTo(LengthOf(n) - 1)
    BY <2>1, TenToMonotone
  <2> QED  BY <1>1, <1>2, <1>4, <2>1, <2>2
<1> QED  BY <1>1, <1>3, <1>4

\* Two sequences joined, place by place.
LEMMA Joined ==
    ASSUME NEW p \in Nat, NEW k \in Nat, NEW s \in Seq(Nat), NEW t \in Seq(Nat), NEW u \in Seq(Nat),
           Len(s) = p, Len(t) = k, Len(u) = p + k,
           \A i \in 1 .. p : u[i] = s[i],
           \A i \in 1 .. k : u[p + i] = t[i]
    PROVE  s \o t = u
<1>1. /\ s \o t \in Seq(Nat) /\ Len(s \o t) = p + k
      /\ \A i \in 1 .. p + k : (s \o t)[i] = IF i <= p THEN s[i] ELSE t[i - p]
  BY ConcatProperties
<1>2. ASSUME NEW i \in 1 .. p + k PROVE (s \o t)[i] = u[i]
  <2>1. CASE i <= p
    BY <1>1, <2>1
  <2>2. CASE ~(i <= p)
    <3>1. i - p \in 1 .. k /\ p + (i - p) = i
      BY <2>2
    <3> QED  BY <1>1, <2>2, <3>1
  <2> QED  BY <2>1, <2>2
<1> QED  BY <1>1, <1>2, SeqEqual

\* The fraction of an amount: its digits, as many as there are decimals.
LEMMA FractionIs ==
    ASSUME NEW n \in Int
    PROVE  FractionOf(n) = Digits(Abs(n) % SCALE, Decimals)
<1>1. SCALE \in Nat \ {0} /\ Abs(n) \in Nat
  BY ScaleType, AbsType, MoneyAssumption
<1>2. PICK m \in Nat : m = Abs(n) % SCALE /\ m < SCALE
  BY <1>1, DivFacts
<1>3. PICK k \in Nat \ {0} : k = LengthOf(m) /\ k <= Decimals /\ m < TenTo(k)
  BY <1>2, LengthBound, LengthFacts, MoneyAssumption DEF SCALE
<1>4. PICK p \in Nat : Decimals = p + k
  <2>1. Decimals - k \in Nat /\ Decimals = (Decimals - k) + k
    BY <1>3, MoneyAssumption
  <2> QED  BY <2>1
<1> DEFINE digit(j) == (m \div TenTo(j)) % 10
           z == Zeros(p)
           d == Digits(m, k)
           e == Digits(m, p + k)
<1> HIDE DEF digit
<1>7. /\ z \in Seq(Nat) /\ Len(z) = p /\ \A i \in 1 .. p : z[i] = 0
      /\ d \in Seq(Nat) /\ Len(d) = k /\ \A i \in 1 .. k : d[i] = digit(k - i)
      /\ e \in Seq(Nat) /\ Len(e) = p + k /\ \A i \in 1 .. p + k : e[i] = digit((p + k) - i)
  <2>1. /\ d \in Seq(Nat) /\ Len(d) = k /\ \A i \in 1 .. k : d[i] = digit(k - i)
        /\ e \in Seq(Nat) /\ Len(e) = p + k /\ \A i \in 1 .. p + k : e[i] = digit((p + k) - i)
    <3>1. \A j \in Nat : /\ Digits(m, j) \in Seq(Nat) /\ Len(Digits(m, j)) = j
                         /\ \A i \in 1 .. j : Digits(m, j)[i] = digit(j - i)
      BY DigitsType DEF Digits, digit
    <3>2. k \in Nat /\ p + k \in Nat
      OBVIOUS
    <3> QED  BY <3>1, <3>2
  <2>2. z \in Seq(Nat) /\ Len(z) = p /\ \A i \in 1 .. p : z[i] = 0
    BY DEF Zeros
  <2> QED  BY <2>1, <2>2
<1> HIDE DEF z, d, e
<1>8. ASSUME NEW i \in 1 .. p PROVE e[i] = z[i]
  <2>1. PICK j \in Nat : j = (p + k) - i /\ k <= j
    OBVIOUS
  <2>2. TenTo(k) <= TenTo(j) /\ TenTo(k) \in Nat /\ TenTo(j) \in Nat \ {0}
    BY <2>1, TenToMonotone, TenToType
  <2>3. PICK q \in Nat \ {0} : q = TenTo(j) /\ m < q
    BY <1>3, <2>2
  <2>4. m \in 0 .. q - 1 /\ m = q * 0 + m
    BY <2>3
  <2>5. m \div q = 0
    BY <2>4, DivUnique
  <2>6. digit(j) = 0
    BY <2>3, <2>5 DEF digit
  <2>7. i \in 1 .. p + k
    OBVIOUS
  <2> QED  BY <1>7, <2>1, <2>6, <2>7
<1>9. ASSUME NEW i \in 1 .. k PROVE e[p + i] = d[i]
  <2>1. (p + k) - (p + i) = k - i /\ p + i \in 1 .. p + k
    OBVIOUS
  <2> QED  BY <1>7, <2>1
<1>10. z \o d = e
  BY <1>7, <1>8, <1>9, Joined
<1>11. Decimals - k = p
  BY <1>4
<1>12. FractionOf(n) = Zeros(Decimals - Len(Digits(m, k))) \o Digits(m, k)
  BY <1>2, <1>3 DEF FractionOf, DigitsOf
<1> QED  BY <1>2, <1>4, <1>7, <1>10, <1>11, <1>12 DEF z, d, e

\* Zeros at the end of a fraction come back when it is read.
LEMMA TrailingZeros ==
    ASSUME NEW n \in Nat, NEW d \in Seq(Nat), Len(d) = n
    PROVE  /\ Len(WithoutTrailingZeros(d)) \in 0 .. n
           /\ WithoutTrailingZeros(d) \o Zeros(n - Len(WithoutTrailingZeros(d))) = d
<1> DEFINE significant == {i \in DOMAIN d : d[i] # 0}
<1>0. \A k \in Nat : Zeros(k) \in Seq(Nat) /\ Len(Zeros(k)) = k /\ \A i \in 1 .. k : Zeros(k)[i] = 0
  BY DEF Zeros
<1> DEFINE w == WithoutTrailingZeros(d)
<1>1. PICK k \in 0 .. n :
         /\ w \in Seq(Nat) /\ Len(w) = k /\ \A i \in 1 .. k : d[i] = w[i]
         /\ \A i \in k + 1 .. n : d[i] = 0
  <2>1. CASE significant = {}
    <3>1. WithoutTrailingZeros(d) = <<>>
      BY <2>1 DEF WithoutTrailingZeros
    <3>2. \A i \in 0 + 1 .. n : d[i] = 0
      BY <2>1
    <3>3. <<>> \in Seq(Nat) /\ Len(<<>>) = 0 /\ 0 \in 0 .. n /\ \A i \in 1 .. 0 : d[i] = <<>>[i]
      OBVIOUS
    <3> HIDE DEF significant
    <3> QED  BY <3>1, <3>2, <3>3
  <2>2. CASE significant # {}
    <3>1. significant \subseteq 1 .. n
      OBVIOUS
    <3>2. \E i \in significant : \A j \in significant : j <= i
      <4> HIDE DEF significant
      <4> QED  BY <2>2, <3>1, Largest
    <3>3. PICK k \in significant : k = CHOOSE i \in significant : \A j \in significant : j <= i
      BY <3>2
    <3>4. \A j \in significant : j <= k
      BY <3>2, <3>3
    <3>5. WithoutTrailingZeros(d) = SubSeq(d, 1, k)
      BY <2>2, <3>3 DEF WithoutTrailingZeros
    <3>6. k \in 1 .. n
      OBVIOUS
    <3>7. \A i \in k + 1 .. n : d[i] = 0
      BY <3>4, <3>6
    <3>8. /\ SubSeq(d, 1, k) \in Seq(Nat) /\ Len(SubSeq(d, 1, k)) = k
          /\ \A i \in 1 .. k : d[i] = SubSeq(d, 1, k)[i]
      BY <3>6
    <3>9. k \in 0 .. n
      BY <3>6
    <3> HIDE DEF significant
    <3> QED  BY <3>5, <3>7, <3>8, <3>9
  <2> QED  BY <2>1, <2>2
<1> HIDE DEF w
<1>2. PICK p \in Nat : n = k + p
  <2>1. n - k \in Nat /\ n = k + (n - k)
    BY <1>1
  <2> QED  BY <2>1
<1>3. ASSUME NEW i \in 1 .. p PROVE d[k + i] = Zeros(p)[i]
  <2>1. k + i \in k + 1 .. n
    BY <1>2
  <2> QED  BY <1>0, <1>1, <2>1
<1>4. w \o Zeros(p) = d
  <2> DEFINE z == Zeros(p)
  <2>1. k \in Nat /\ p \in Nat /\ w \in Seq(Nat) /\ z \in Seq(Nat) /\ d \in Seq(Nat)
    BY <1>0, <1>1, <1>2
  <2>2. Len(w) = k /\ Len(z) = p /\ Len(d) = k + p
    BY <1>0, <1>1, <1>2
  <2>3. \A i \in 1 .. k : d[i] = w[i]
    BY <1>1
  <2>4. \A i \in 1 .. p : d[k + i] = z[i]
    BY <1>3
  <2> HIDE DEF z, significant
  <2>5. w \o z = d
    BY ONLY <2>1, <2>2, <2>3, <2>4, Joined
  <2> QED  BY <2>5 DEF z
<1>5. n - k = p
  BY <1>2
<1> QED  BY <1>1, <1>4, <1>5 DEF w

\* A fraction has as many digits as there are decimals.
LEMMA FractionType ==
    ASSUME NEW n \in Int
    PROVE  FractionOf(n) \in Seq(Nat) /\ Len(FractionOf(n)) = Decimals
<1>1. SCALE \in Nat \ {0} /\ Abs(n) \in Nat /\ Decimals \in Nat
  BY ScaleType, AbsType, MoneyAssumption
<1>2. PICK m \in Nat : m = Abs(n) % SCALE
  BY <1>1, DivFacts
<1>3. FractionOf(n) = Digits(m, Decimals)
  BY <1>2, FractionIs
<1> QED  BY <1>1, <1>2, <1>3, DigitsType

\* Reading the digits of an amount: the whole part and the fraction.
LEMMA ReadDigits ==
    ASSUME NEW n \in Int, NEW frac, NEW k \in 0 .. Decimals, Len(frac) = k,
           frac \o Zeros(Decimals - k) = FractionOf(n)
    PROVE  LET text == [neg |-> n < 0, int |-> DigitsOf(Abs(n) \div SCALE), frac |-> frac]
           IN  ParseAmount(text) =
                   IF Abs(n) < TenTo(IntegerDigits + Decimals) THEN n ELSE MoneyError
<1> DEFINE whole == DigitsOf(Abs(n) \div SCALE)
           text == [neg |-> n < 0, int |-> whole, frac |-> frac]
<1>1. SCALE \in Nat \ {0} /\ Abs(n) \in Nat /\ Decimals \in Nat /\ IntegerDigits \in Nat \ {0}
  BY ScaleType, AbsType, MoneyAssumption
<1>2. PICK q \in Nat, r \in 0 .. SCALE - 1 :
         q = Abs(n) \div SCALE /\ r = Abs(n) % SCALE /\ Abs(n) = SCALE * q + r
  <2>1. PICK a \in Nat, s \in Nat \ {0} : a = Abs(n) /\ s = SCALE
    BY <1>1
  <2>2. a \div s \in Nat /\ a % s \in 0 .. s - 1 /\ a = s * (a \div s) + (a % s)
    BY DivFacts
  <2> QED  BY <2>1, <2>2
<1>3. Len(whole) = LengthOf(q) /\ LengthOf(q) \in Nat \ {0} /\ NumberOf(whole) = q
  <2>1. LengthOf(q) \in Nat \ {0} /\ q < TenTo(LengthOf(q))
    BY LengthFacts
  <2>2. whole = Digits(q, LengthOf(q))
    BY <1>2 DEF DigitsOf
  <2>3. Len(Digits(q, LengthOf(q))) = LengthOf(q)
    BY <2>1 DEF Digits
  <2>4. NumberOf(Digits(q, LengthOf(q))) = q
    BY <2>1, NumberOfDigits
  <2> QED  BY <2>1, <2>2, <2>3, <2>4
<1>4. NumberOf(frac \o Zeros(Decimals - k)) = r
  <2>1. FractionOf(n) = Digits(r, Decimals)
    BY <1>2, FractionIs
  <2>2. r \in Nat /\ r < TenTo(Decimals)
    BY <1>1, <1>2 DEF SCALE
  <2> QED  BY <1>1, <2>1, <2>2, NumberOfDigits
<1>5. LengthOf(q) <= IntegerDigits <=> Abs(n) < TenTo(IntegerDigits + Decimals)
  <2>1. LengthOf(q) <= IntegerDigits <=> q < TenTo(IntegerDigits)
    BY <1>1, LengthBound
  <2>2. TenTo(IntegerDigits + Decimals) = TenTo(IntegerDigits) * SCALE
    BY <1>1, TenToSum DEF SCALE
  <2>3. PICK s \in Nat \ {0}, w \in Nat \ {0}, x \in Nat :
          s = SCALE /\ w = TenTo(IntegerDigits) /\ x = Abs(n) /\ x = s * q + r /\ r < s
    <3>1. TenTo(IntegerDigits) \in Nat \ {0}
      BY <1>1, TenToType
    <3>2. PICK s \in Nat \ {0} : s = SCALE
      BY <1>1
    <3>3. r < s /\ Abs(n) \in Nat /\ Abs(n) = s * q + r
      BY <1>1, <1>2, <3>2
    <3> QED  BY <3>1, <3>2, <3>3
  <2>4. x < w * s <=> q < w
    <3>1. ASSUME q < w PROVE x < w * s
      <4>1. s * (q + 1) <= s * w /\ s * (q + 1) = s * q + s /\ s * w = w * s
        BY <3>1
      <4> QED  BY <2>3, <4>1
    <3>2. ASSUME ~(q < w) PROVE ~(x < w * s)
      <4>1. PICK v \in Nat : v = s * w
        OBVIOUS
      <4>2. v <= s * q /\ v = w * s
        BY <3>2, <4>1
      <4>3. s * q <= x
        BY <2>3
      <4> QED  BY <4>2, <4>3
    <3> QED  BY <3>1, <3>2
  <2> QED  BY <2>1, <2>2, <2>3, <2>4
<1> HIDE DEF whole
<1>6. ParseAmount(text) = IF LengthOf(q) <= IntegerDigits
                          THEN (IF n < 0 THEN -1 ELSE 1) * (q * SCALE + r) ELSE MoneyError
  <2>1. text.neg = (n < 0) /\ text.int = whole /\ text.frac = frac
    OBVIOUS
  <2>2. Len(text.int) \in 1 .. IntegerDigits <=> LengthOf(q) <= IntegerDigits
    BY <1>1, <1>3, <2>1
  <2> HIDE DEF text
  <2> QED  BY <1>3, <1>4, <2>1, <2>2 DEF ParseAmount
<1>7. (IF n < 0 THEN -1 ELSE 1) * (q * SCALE + r) = n
  <2>1. q * SCALE + r = Abs(n)
    BY <1>1, <1>2
  <2> QED  BY <2>1 DEF Abs
<1> QED  BY <1>5, <1>6, <1>7 DEF whole

\* What the database renders is read back, or does not parse if it is too long.
LEMMA ParseDbNumeric ==
    ASSUME NEW n \in Int
    PROVE  ParseAmount(DbNumeric(n)) =
               IF Abs(n) < TenTo(IntegerDigits + Decimals) THEN n ELSE MoneyError
<1>1. Decimals \in Nat
  BY MoneyAssumption
<1>2. FractionOf(n) \in Seq(Nat) /\ Len(FractionOf(n)) = Decimals
  BY FractionType
<1>3. Zeros(0) = <<>>
  BY DEF Zeros
<1>4. FractionOf(n) \o Zeros(Decimals - Decimals) = FractionOf(n)
  BY <1>1, <1>2, <1>3
<1> QED  BY <1>1, <1>2, <1>4, ReadDigits DEF DbNumeric

\* What the program writes is read back.
LEMMA ParseFormatAmount ==
    ASSUME NEW n \in Int
    PROVE  ParseAmount(FormatAmount(n)) =
               IF Abs(n) < TenTo(IntegerDigits + Decimals) THEN n ELSE MoneyError
<1>1. Decimals \in Nat /\ FractionOf(n) \in Seq(Nat) /\ Len(FractionOf(n)) = Decimals
  BY FractionType, MoneyAssumption
<1> DEFINE frac == WithoutTrailingZeros(FractionOf(n))
<1>2. Len(frac) \in 0 .. Decimals /\ frac \o Zeros(Decimals - Len(frac)) = FractionOf(n)
  BY <1>1, TrailingZeros
<1> HIDE DEF frac
<1> QED  BY <1>2, ReadDigits DEF FormatAmount, frac

\* A balance has as many digits as its column holds, from the upsert on.
BalancesFit ==
    /\ \A c \in Call, a \in Account :
          pending[c].balances[a] # None => Fits(pending[c].balances[a].amount)
    /\ \A a \in Account : balances[a] # None => Fits(balances[a].amount)

\* Every step keeps BalancesFit: what the column refuses is never pending.
LEMMA FitNext == LogInv /\ BalancesFit /\ [Next]_vars => BalancesFit'
<1> SUFFICES ASSUME LogInv, BalancesFit, [Next]_vars PROVE BalancesFit'
  OBVIOUS
<1>1. ASSUME NEW d \in Call, CallStep(d), NEW c \in Call, NEW a \in Account,
             pending'[c].balances[a] # None
      PROVE  Fits(pending'[c].balances[a].amount)
  <2>1. CASE pending'[c].balances[a] = pending[c].balances[a]
    BY <1>1, <2>1 DEF BalancesFit
  <2>2. CASE pending'[c] = NoWrites
    BY <1>1, <2>2 DEF NoWrites
  <2>3. ASSUME NEW b \in Account, Upserts(c, b) PROVE Fits(pending'[c].balances[a].amount)
    <3>1. /\ pending'[c].balances = [pending[c].balances EXCEPT ![b] = NewBalance(c, b)]
          /\ Fits(NewBalance(c, b).amount)
      BY <2>3 DEF Upserts
    <3>2. pending'[c].balances[a] = IF a = b THEN NewBalance(c, b) ELSE pending[c].balances[a]
      BY <3>1 DEF LogInv, TypeOK, Writes
    <3>3. CASE a = b  BY <3>1, <3>2, <3>3
    <3>4. CASE a # b  BY <2>1, <3>2, <3>4
    <3> QED  BY <3>3, <3>4
  <2>4. CASE c # d
    <3>1. pending'[c] = pending[c]
      BY <1>1, <2>4, OthersKeep DEF LogInv
    <3> QED  BY <2>1, <3>1
  <2>5. CASE c = d
    BY <1>1, <2>1, <2>2, <2>3, <2>5, PositionSteps DEF LogInv, Skips
  <2> QED  BY <2>4, <2>5
<1>2. ASSUME NEW c \in Call, Commits(c), NEW a \in Account, balances'[a] # None
      PROVE  Fits(balances'[a].amount)
  <2>1. balances'[a] = IF pending[c].balances[a] = None THEN balances[a] ELSE pending[c].balances[a]
    BY <1>2 DEF Commits
  <2>2. CASE pending[c].balances[a] = None  BY <1>2, <2>1, <2>2 DEF BalancesFit
  <2>3. CASE pending[c].balances[a] # None  BY <1>2, <2>1, <2>3 DEF BalancesFit
  <2> QED  BY <2>2, <2>3
<1>3. ASSUME NEW c \in Call, CallStep(c) PROVE BalancesFit'
  <2>1. CASE Commits(c)  BY <1>1, <1>2, <1>3, <2>1 DEF BalancesFit
  <2>2. CASE balances' = balances  BY <1>1, <1>3, <2>2 DEF BalancesFit
  <2> QED  BY <1>3, <2>1, <2>2, TableSteps DEF LogInv
<1>4. CASE Admin  BY <1>4, AdminKeeps DEF BalancesFit
<1>5. CASE UNCHANGED vars  BY <1>5 DEF BalancesFit, vars
<1> QED  BY <1>3, <1>4, <1>5, StepKinds

\* BalancesFit holds in every reachable state.
THEOREM FitAlways == Spec => []BalancesFit
<1>1. Init => BalancesFit
  BY DEF Init, BalancesFit, NoWrites
<1>2. LogInv /\ BalancesFit /\ [Next]_vars => BalancesFit'
  BY FitNext
<1> QED  BY <1>1, <1>2, LogAlways, PTL DEF Spec

\* An amount that fits its column is written and read back as it is.
LEMMA FittingReadsBack ==
    ASSUME NEW n \in Int, Abs(n) <= MaxAmount
    PROVE  ParseAmount(FormatAmount(n)) = n /\ ParseAmount(DbNumeric(n)) = n
<1>1. TenTo(IntegerDigits + Decimals) \in Nat \ {0} /\ Abs(n) \in Nat
  BY TenToType, AbsType, MoneyAssumption
<1>2. Abs(n) < TenTo(IntegerDigits + Decimals)
  BY <1>1, WidthAssumption
<1> QED  BY <1>2, ParseDbNumeric, ParseFormatAmount

\* The amount of a committed entry is a line of its request.
LEMMA EntriesAreLines ==
    ASSUME LogInv, HoldInv, WholeInv, NEW e \in entries
    PROVE  e.amount \in Int /\ Abs(e.amount) <= MaxAmount
<1>1. /\ e.tx \in transactions /\ e.account \in TouchedBy(e.tx) /\ req[e.tx] \in Request
      /\ e.amount \in Int
  BY DEF LogInv, CommittedRows, Asked, AskedOf, TypeOK, Entry, HoldInv, OwnRows, RowOf
<1>2. Whole(entries, e.tx, e.account)
  BY <1>1 DEF WholeInv, WholeOnceCommitted
<1>3. e \in RowsOn(entries, e.tx, e.account)
  BY DEF RowsOn
<1>4. PICK m : e \in EntriesAt(e.tx, e.account, m)
  BY <1>2, <1>3 DEF Whole
<1>5. PICK i \in DOMAIN req[e.tx].legs[e.account] : e.amount = req[e.tx].legs[e.account][i]
  BY <1>4 DEF EntriesAt
<1> QED  BY <1>1, <1>5, ParsedAssumption DEF TouchedBy

\* What the program writes as a decimal it reads back as the same amount, and so it
\* does with what the database renders: every amount of an entry or a balance, with
\* any number of decimals (parseAmount and formatAmount, money.ts:22-45).
THEOREM AmountsReadBack == SSpec => []AmountsRoundTrip
<1>1. LogInv /\ HoldInv /\ WholeInv /\ BalancesFit => AmountsRoundTrip
  <2> SUFFICES ASSUME LogInv, HoldInv, WholeInv, BalancesFit,
                      NEW n \in {e.amount : e \in entries}
                            \cup {balances[a].amount : a \in {b \in Account : balances[b] # None}}
               PROVE  ParseAmount(FormatAmount(n)) = n /\ ParseAmount(DbNumeric(n)) = n
    BY DEF AmountsRoundTrip
  <2>1. CASE n \in {e.amount : e \in entries}
    BY <2>1, EntriesAreLines, FittingReadsBack
  <2>2. ASSUME NEW a \in Account, balances[a] # None, n = balances[a].amount
        PROVE  n \in Int /\ Abs(n) <= MaxAmount
    <3>1. n \in Int /\ n \in -MaxAmount .. MaxAmount
      BY <2>2 DEF BalancesFit, Fits, LogInv, TypeOK, BalanceRow
    <3> QED  BY <3>1, AmountAssumption DEF Abs
  <2> QED  BY <2>1, <2>2, FittingReadsBack
<1> QED  BY <1>1, WritesBeside, LogAlways, HoldAlways, WholeAlways, FitAlways, PTL

-----------------------------------------------------------------------------
(***************************************************************************)
(* The trial balance.                                                      *)
(***************************************************************************)
Nets(S) == [row \in S |-> ParseAmount(row.net)]

\* What a trial balance adds up is the sum of its nets.
LEMMA NetsAreSum ==
    ASSUME NEW S, IsFiniteSet(S)
    PROVE  MapThenSumSet(LAMBDA row : ParseAmount(row.net), S) = SumOver(Nets(S), S)
<1> DEFINE g == Nets(S)
           F(i) == [s \in SUBSET S |->
                      IF s = {} THEN 0
                      ELSE ParseAmount((CHOOSE x \in s : TRUE).net) + i[s \ {CHOOSE x \in s : TRUE}]]
           j == CHOOSE i : i = F(i)
<1>1. ASSUME NEW s \in SUBSET S, s # {}
      PROVE  ParseAmount(Pick(s).net) = g[Pick(s)] /\ Pick(s) = CHOOSE x \in s : TRUE
  BY <1>1, PickOne DEF Nets, Pick
<1>2. ASSUME NEW h PROVE SumsUp(h, g, S) <=> h = F(h)
  <2> DEFINE G == [s \in SUBSET S |-> IF s = {} THEN 0 ELSE g[Pick(s)] + h[s \ {Pick(s)}]]
  <2>1. \A s \in SUBSET S : F(h)[s] = G[s]
    <3> TAKE s \in SUBSET S
    <3>1. CASE s = {}  BY <3>1
    <3>2. CASE s # {}
      <4> DEFINE x == CHOOSE y \in s : TRUE
      <4>1. F(h)[s] = ParseAmount(x.net) + h[s \ {x}]
        BY <3>2
      <4>2. G[s] = g[Pick(s)] + h[s \ {Pick(s)}]
        BY <3>2
      <4>3. ParseAmount(Pick(s).net) = g[Pick(s)] /\ Pick(s) = x
        BY <1>1, <3>2
      <4> HIDE DEF F, G, x, g
      <4> QED  BY <4>1, <4>2, <4>3
    <3> QED  BY <3>1, <3>2
  <2>2. F(h) = G
    BY <2>1
  <2> QED  BY <2>2 DEF SumsUp
<1>3. \E i : i = F(i)
  <2>1. PICK h : SumsUp(h, g, S)
    BY SumsExist
  <2>2. h = F(h)
    BY <1>2, <2>1
  <2> QED  BY <2>2
<1>4. j = F(j)
  BY <1>3
<1>5. MapThenSumSet(LAMBDA row : ParseAmount(row.net), S) = j[S]
  BY DEF MapThenSumSet, MapThenFoldSet
<1>6. SumsUp(j, g, S)
  BY <1>2, <1>4
<1> HIDE DEF j, g
<1> QED  BY <1>5, <1>6, SumIsSum DEF g

\* The accounts of a trial balance, and the transactions it sums.
TrialAccounts(t, p) == {a \in Account : TrialEntries(t, a, p) # {}}
TrialTransactions(t, p) ==
    {c \in transactions : req[c].tenant = t /\ (p = None \/ PostingPeriod(req[c]) = p)}

\* The nets of a trial balance, account by account, sum the transactions of the tenant
\* and the period, each of them balanced: no transaction is in it in part.
LEMMA TrialSums ==
    ASSUME LogInv, HoldInv, RowsFinite, TransactionsBalanced, NEW t \in Tenant, NEW p
    PROVE  /\ IsFiniteSet(TrialAccounts(t, p))
           /\ \A a \in TrialAccounts(t, p) : Total(TrialEntries(t, a, p)) \in Int
           /\ SumOver([a \in TrialAccounts(t, p) |-> Total(TrialEntries(t, a, p))],
                      TrialAccounts(t, p)) = 0
<1> DEFINE A == TrialAccounts(t, p)
           C == TrialTransactions(t, p)
           g == Amounts(entries)
           byAccount == [a \in A |-> TrialEntries(t, a, p)]
           byCall == [c \in C |-> EntriesOf(c)]
           nets == [a \in A |-> Total(TrialEntries(t, a, p))]
           sums == [c \in C |-> Total(EntriesOf(c))]
<1>1. ASSUME NEW S, S \subseteq entries
      PROVE  IsFiniteSet(S) /\ HasAmounts(S) /\ Integral(g, S) /\ Total(S) = SumOver(g, S)
             /\ Total(S) \in Int
  <2>1. IsFiniteSet(S)
    BY <1>1, FS_Subset DEF RowsFinite
  <2>2. HasAmounts(S)
    BY <1>1 DEF HasAmounts, LogInv, TypeOK, Entry
  <2>3. Integral(g, S) /\ Integral(Amounts(S), S) /\ \A x \in S : g[x] = Amounts(S)[x]
    BY <1>1, <2>2 DEF Integral, Amounts, HasAmounts
  <2> HIDE DEF g
  <2>4. SumOver(g, S) = SumOver(Amounts(S), S)
    BY <2>1, <2>3, SumSame
  <2> QED  BY <2>1, <2>2, <2>3, <2>4, TotalIsSum, TotalFacts
<1>2. IsFiniteSet(A)
  <2>1. A \subseteq {e.account : e \in entries}
    BY DEF TrialAccounts, TrialEntries, LogOfTenant, LogOf
  <2>2. IsFiniteSet({e.account : e \in entries})
    <3> DEFINE f == [e \in entries |-> e.account]
               T == {e.account : e \in entries}
    <3>1. f \in Surjection(entries, T)
      BY DEF Surjection
    <3> HIDE DEF f, T
    <3>2. IsFiniteSet(T)
      BY <3>1, FS_Surjection DEF RowsFinite
    <3> QED  BY <3>2 DEF T
  <2> HIDE DEF A
  <2> QED  BY <2>1, <2>2, FS_Subset
<1>3. IsFiniteSet(C)
  <2>1. C \subseteq Call
    BY DEF TrialTransactions, LogInv, TypeOK
  <2> HIDE DEF C
  <2> QED  BY <2>1, FS_Subset, CallAssumption
<1>4. /\ \A a \in A : byAccount[a] \subseteq entries /\ nets[a] = Total(byAccount[a])
      /\ \A a, b \in A : a # b => byAccount[a] \cap byAccount[b] = {}
  BY DEF TrialEntries, LogOfTenant, LogOf
<1>5. /\ \A c \in C : byCall[c] \subseteq entries /\ sums[c] = Total(byCall[c]) /\ sums[c] = 0
      /\ \A c, d \in C : c # d => byCall[c] \cap byCall[d] = {}
  BY DEF EntriesOf, TrialTransactions, TransactionsBalanced
<1>6. UNION {byAccount[a] : a \in A} = UNION {byCall[c] : c \in C}
  <2>1. ASSUME NEW e \in entries
        PROVE  /\ e.tx \in transactions /\ e.tenant = req[e.tx].tenant /\ e.account \in Account
    BY DEF LogInv, CommittedRows, TypeOK, Entry, HoldInv, OwnRows, RowOf
  <2>2. ASSUME NEW a \in A, NEW e \in byAccount[a] PROVE e.tx \in C /\ e \in byCall[e.tx]
    <3>1. e \in entries /\ e.tenant = t /\ (p = None \/ PostingPeriod(req[e.tx]) = p)
      BY <2>2 DEF TrialEntries, LogOfTenant, LogOf
    <3>2. e.tx \in C
      BY <2>1, <3>1 DEF TrialTransactions
    <3> QED  BY <3>1, <3>2 DEF EntriesOf
  <2>3. ASSUME NEW c \in C, NEW e \in byCall[c] PROVE e.account \in A /\ e \in byAccount[e.account]
    <3>1. e \in entries /\ e.tx = c /\ req[c].tenant = t /\ (p = None \/ PostingPeriod(req[c]) = p)
      BY <2>3 DEF EntriesOf, TrialTransactions
    <3>2. e \in TrialEntries(t, e.account, p) /\ e.account \in Account
      BY <2>1, <3>1 DEF TrialEntries, LogOfTenant, LogOf
    <3>3. e.account \in A
      BY <3>2 DEF TrialAccounts
    <3> QED  BY <3>2, <3>3
  <2> HIDE DEF A, C, byAccount, byCall
  <2> QED  BY <2>2, <2>3
<1> HIDE DEF A, C, g, byAccount, byCall, nets, sums
<1>7. SumOver(g, UNION {byAccount[a] : a \in A}) = SumOver(nets, A)
  <2>1. \A a \in A : /\ IsFiniteSet(byAccount[a]) /\ Integral(g, byAccount[a])
                     /\ nets[a] = SumOver(g, byAccount[a])
    BY <1>1, <1>4
  <2> QED  BY <1>2, <1>4, <2>1, SumByGroup
<1>8. SumOver(g, UNION {byCall[c] : c \in C}) = SumOver(sums, C)
  <2>1. \A c \in C : /\ IsFiniteSet(byCall[c]) /\ Integral(g, byCall[c])
                     /\ sums[c] = SumOver(g, byCall[c])
    BY <1>1, <1>5
  <2>2. \A c, d \in C : c # d => byCall[c] \cap byCall[d] = {}
    BY <1>5
  <2> QED  BY <1>3, <2>1, <2>2, SumByGroup
<1>9. SumOver(sums, C) = 0
  BY <1>3, <1>5, SumOfZeros
<1>10. \A a \in A : Total(TrialEntries(t, a, p)) \in Int
  BY <1>1, <1>4 DEF byAccount
<1> QED  BY <1>2, <1>6, <1>7, <1>8, <1>9, <1>10 DEF A, nets

\* The nets of rows sum to 0.
Conserves(rows) == MapThenSumSet(LAMBDA row : ParseAmount(row.net), rows) = 0
TrialConserves == rpc = "trial" => Conserves(trial.rows)

\* The rows of a trial balance that can be read sum to 0.
LEMMA TrialRowsSum ==
    ASSUME LogInv, HoldInv, RowsFinite, TransactionsBalanced, NEW t \in Tenant, NEW p,
           \A row \in TrialRows(t, p) : ParseAmount(row.net) # MoneyError
    PROVE  Conserves(TrialRows(t, p))
<1> DEFINE A == TrialAccounts(t, p)
           nets == [a \in A |-> Total(TrialEntries(t, a, p))]
           f == [a \in A |-> TrialRow(t, a, p)]
           R == {f[a] : a \in A}
           h == Nets(R)
<1>1. IsFiniteSet(A) /\ SumOver(nets, A) = 0 /\ \A a \in A : nets[a] \in Int
  BY TrialSums
<1>2. TrialRows(t, p) = R
  BY DEF TrialRows, TrialAccounts
<1>3. ASSUME NEW a \in A PROVE h[f[a]] = nets[a]
  <2>1. f[a] = TrialRow(t, a, p) /\ f[a] \in R /\ h[f[a]] = ParseAmount(f[a].net)
    BY DEF Nets
  <2>2. f[a].net = DbNumeric(nets[a])
    BY <2>1 DEF TrialRow
  <2>3. ParseAmount(f[a].net) # MoneyError
    BY <1>2, <2>1
  <2> HIDE DEF f, h, nets, R, A
  <2> QED  BY <1>1, <2>1, <2>2, <2>3, ParseDbNumeric
<1>4. \A a, b \in A : f[a] = f[b] => a = b
  <2>1. \A a \in A : f[a].account = a
    BY DEF TrialRow
  <2> HIDE DEF f, A
  <2> QED  BY <2>1
<1>5. IsFiniteSet(R) /\ SumOver(h, R) = SumOver(nets, A)
  <2>1. Integral(nets, A) /\ \A a \in A : h[f[a]] = nets[a]
    BY <1>1, <1>3 DEF Integral
  <2> HIDE DEF f, h, nets, A
  <2> QED  BY <1>1, <1>4, <2>1, SumRenamed
<1> HIDE DEF R, nets, A
<1> QED  BY <1>1, <1>2, <1>5, NetsAreSum DEF Conserves

\* "The daily conservation smoke test: Sum over every row must be 0" (query.ts:91), at
\* any moment, for all periods or one, on ids that tenants share too: the one statement
\* sees no posting in part, and the nets are read as they were summed.
THEOREM TrialBalancesConserved == SSpec => []TrialBalanceConserved
<1>1. SInit => TrialConserves
  BY DEF SInit, RInit, TrialConserves
<1>2. /\ LogInv /\ HoldInv /\ BalanceInv /\ BooksInv /\ TrialConserves
      /\ [SNext]_statementVars
      => TrialConserves'
  <2> SUFFICES ASSUME LogInv, HoldInv, BalanceInv, BooksInv, TrialConserves,
                      [SNext]_statementVars
               PROVE  TrialConserves'
    OBVIOUS
  <2>1. CASE TrialBalance /\ UNCHANGED vars
    <3> SUFFICES ASSUME rpc' = "trial"
                 PROVE  Conserves(trial'.rows)
      BY DEF TrialConserves
    <3>1. PICK p \in Period \cup {None} : trial' = [period |-> p, rows |-> TrialRows(rtenant', p)]
      BY <2>1 DEF TrialBalance
    <3>2. trial'.rows = TrialRows(rtenant', p)
      BY <3>1
    <3>3. \A row \in trial'.rows : ParseAmount(row.net) # MoneyError
      BY <2>1 DEF TrialBalance
    <3>4. PICK t \in Tenant : t = rtenant'
      BY <2>1 DEF TrialBalance
    <3>5. Conserves(TrialRows(t, p))
      BY <3>2, <3>3, <3>4, TrialRowsSum DEF BalanceInv, BooksInv
    <3> QED  BY <3>2, <3>4, <3>5
  <2>2. CASE UNCHANGED <<rpc, trial>>
    BY <2>2 DEF TrialConserves
  <2>3. CASE rpc' # "trial"
    BY <2>3 DEF TrialConserves
  <2>4. (TrialBalance /\ UNCHANGED vars) \/ UNCHANGED <<rpc, trial>> \/ rpc' # "trial"
    BY DEF SNext, RNext, GetBalance, ListEntries, Read, ReadDrift, ReadGaps, ReadUnbalanced,
           ReadGlobalSum, Report, rvars, svars, statementVars
  <2> QED  BY <2>1, <2>2, <2>3, <2>4
<1>3. TrialConserves => TrialBalanceConserved
  BY DEF TrialConserves, Conserves, TrialBalanceConserved
<1> QED
  BY <1>1, <1>2, <1>3, WritesBeside, LogAlways, HoldAlways, BalanceAlways, BooksAlways, PTL DEF SSpec

\* The net of an account over all periods is its balance, which fits its column.
LEMMA NetsFit ==
    ASSUME LogInv, HoldInv, BalanceInv, BalancesFit, OwnIds, NEW t, NEW row \in TrialRows(t, None)
    PROVE  ParseAmount(row.net) # MoneyError
<1>1. PICK a \in Account : /\ TrialEntries(t, a, None) # {}
                           /\ row = [account |-> a, net |-> DbNumeric(Total(TrialEntries(t, a, None)))]
  BY DEF TrialRows, TrialRow
<1>2. TrialEntries(t, a, None) = LogOfTenant(t, a)
  BY DEF TrialEntries
<1>3. LogOfTenant(t, a) = LogOf(a)
  BY <1>1, <1>2, LogIsTenants
<1>4. Total(LogOf(a)) = IF balances[a] = None THEN 0 ELSE balances[a].amount
  BY DEF BalanceInv, BalanceIsSumOfLog
<1>5. Total(LogOf(a)) \in Int /\ Abs(Total(LogOf(a))) <= MaxAmount
  <2>1. CASE balances[a] = None
    BY <1>4, <2>1, AmountAssumption DEF Abs
  <2>2. CASE balances[a] # None
    <3>1. balances[a].amount \in Int /\ balances[a].amount \in -MaxAmount .. MaxAmount
      BY <2>2 DEF BalancesFit, Fits, LogInv, TypeOK, BalanceRow
    <3> QED  BY <1>4, <2>2, <3>1, AmountAssumption DEF Abs
  <2> QED  BY <2>1, <2>2
<1>6. row.net = DbNumeric(Total(LogOf(a)))
  BY <1>1, <1>2, <1>3
<1> QED  BY <1>5, <1>6, FittingReadsBack, MoneyAssumption

\* A trial balance of all periods can be read, on ids that are one tenant's: a net of
\* more digits than parseAmount takes would have been refused as a balance by its column
\* before (money.ts:12, query.ts:129, 001_init.sql:122).
THEOREM TrialBalancesReadable ==
    ASSUME OwnIds
    PROVE  SSpec => []TrialBalanceReadable
<1>1. SInit => TrialBalanceReadable
  BY DEF SInit, RInit, TrialBalanceReadable
<1>2. /\ LogInv /\ HoldInv /\ BalanceInv /\ BalancesFit /\ TrialBalanceReadable
      /\ [SNext]_statementVars
      => TrialBalanceReadable'
  <2> SUFFICES ASSUME LogInv, HoldInv, BalanceInv, BalancesFit, TrialBalanceReadable,
                      [SNext]_statementVars
               PROVE  TrialBalanceReadable'
    OBVIOUS
  <2>1. CASE TrialBalance
    <3> SUFFICES ASSUME trial'.period = None PROVE rpc' # "error"
      BY DEF TrialBalanceReadable
    <3>1. PICK p \in Period \cup {None} : trial' = [period |-> p, rows |-> TrialRows(rtenant', p)]
      BY <2>1 DEF TrialBalance
    <3>2. trial'.rows = TrialRows(rtenant', None)
      BY <3>1
    <3>3. \A row \in trial'.rows : ParseAmount(row.net) # MoneyError
      BY <3>2, NetsFit
    <3> QED  BY <2>1, <3>3 DEF TrialBalance
  <2>2. CASE UNCHANGED <<rpc, trial>>
    BY <2>2 DEF TrialBalanceReadable
  <2>3. CASE rpc' # "error"
    BY <2>3 DEF TrialBalanceReadable
  <2>4. TrialBalance \/ UNCHANGED <<rpc, trial>> \/ rpc' # "error"
    BY DEF SNext, RNext, GetBalance, ListEntries, Read, ReadDrift, ReadGaps, ReadUnbalanced,
           ReadGlobalSum, Report, rvars, svars, statementVars
  <2> QED  BY <2>1, <2>2, <2>3, <2>4
<1> QED
  BY <1>1, <1>2, WritesBeside, LogAlways, HoldAlways, BalanceAlways, FitAlways, PTL DEF SSpec
=============================================================================
