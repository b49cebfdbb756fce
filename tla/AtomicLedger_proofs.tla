--------------------------- MODULE AtomicLedger_proofs ---------------------------
(***************************************************************************)
(* The write path implements AtomicLedger, for every set of calls,         *)
(* tenants, accounts and requests.                                         *)
(*                                                                         *)
(* The instant of a posting is its COMMIT.  Everything AtomicLedger's Post *)
(* asks for was read by earlier statements, so the proof is that it is     *)
(* still true at the commit: the locks keep the statuses (LockInv), the    *)
(* gate keeps the key (GateInv), the uncommitted rows are those of the     *)
(* request (WholeInv, BalanceInv), and AtomicInv adds what a call knows of *)
(* its request, of its period's row and of the accounts it has locked.     *)
(***************************************************************************)
EXTENDS Posting_proofs, SequenceTheorems

\* The key of the ledger_period row a call posts into.
PeriodRow(c) == <<req[c].tenant, PostingPeriod(req[c])>>

\* A call is asked when it starts, for a request that is valid.
AskedValid ==
    \A c \in Call :
        /\ pc[c] = "idle" => req[c] = None
        /\ pc[c] \notin {"idle", "done"} => ValidationError(req[c]) = ""

\* A period row that is being inserted is not there, and one call inserts it; a call
\* that was to create its period and did not has found it.
PeriodsInserted ==
    /\ \A c \in Call : pending[c].period => req[c].auto /\ periods[PeriodRow(c)] = "ABSENT"
    /\ \A c, d \in Call :
          pending[c].period /\ pending[d].period /\ PeriodRow(c) = PeriodRow(d) => c = d
    /\ \A c \in Call : pc[c] = "lockPeriod" /\ req[c].auto /\ ~pending[c].period =>
          periods[PeriodRow(c)] # "ABSENT"

\* What a call has locked is in its currency.
CurrenciesMatch ==
    \A c \in Call, a \in Account : HoldsAccount(c, req[c].tenant, a) =>
        CurrencyOf[<<req[c].tenant, a>>] = req[c].currency

\* What a call has upserted is not overdrawn for its tenant.
UpsertsCovered ==
    \A c \in Call, a \in Account : pending[c].balances[a] # None =>
        ~Overdrawn(AccountType[<<req[c].tenant, a>>], pending[c].balances[a].amount)

AtomicInv == AskedValid /\ PeriodsInserted /\ CurrenciesMatch /\ UpsertsCovered

-----------------------------------------------------------------------------
(***************************************************************************)
(* AtomicInv is an invariant.                                              *)
(***************************************************************************)
\* What a step does to the period a call inserts, and to the rows of ledger_period.
LEMMA InsertingSteps ==
    ASSUME TypeOK, NEW c \in Call, CallStep(c)
    PROVE  /\ \/ CreatePeriod(c)
              \/ /\ pc'[c] # "lockPeriod"
                 /\ \/ pending'[c].period = FALSE
                    \/ pending'[c].period = pending[c].period /\ (req' = req \/ pc[c] = "idle")
           /\ \/ periods' = periods
              \/ /\ pc[c] = "commit" /\ pending[c].period /\ pending'[c].period = FALSE
                 /\ periods' = [periods EXCEPT ![PeriodRow(c)] = "OPEN"]
<1> USE DEF TypeOK, tables, Goto, EndWith, Refuse, PeriodRow
<1>0. NoWrites.period = FALSE
  BY DEF NoWrites
<1>1. CASE \E r \in Request : Submit(c, r)  BY <1>1, SubmitEffect
<1>2. CASE Begin(c)  BY <1>2 DEF Begin
<1>3. CASE IdempotencyGate(c)  BY <1>3 DEF IdempotencyGate
<1>4. CASE ResolveDuplicate(c)  BY <1>0, <1>4 DEF ResolveDuplicate
<1>5. CASE CreatePeriod(c)  BY <1>5 DEF CreatePeriod
<1>6. CASE LockPeriod(c)  BY <1>0, <1>6 DEF LockPeriod
<1>7. CASE LockAccount(c)  BY <1>0, <1>7 DEF LockAccount, NextTurn
<1>8. CASE ReadSeq(c)  BY <1>8 DEF ReadSeq
<1>9. CASE InsertEntries(c)
  <2>1. /\ pc[c] = "insertEntries" /\ UNCHANGED <<periods, req>>
        /\ \E a \in Account :
              \/ EndWith(c, Unknown)
              \/ /\ pending' = [pending EXCEPT ![c].entries = @ \cup NewEntries(c, a)]
                 /\ NextTurn(c, a, "readSeq", "readPosition")
    BY <1>9 DEF InsertEntries
  <2>2. CASE EndWith(c, Unknown)  BY <1>0, <2>1, <2>2
  <2>3. ASSUME NEW a \in Account,
               pending' = [pending EXCEPT ![c].entries = @ \cup NewEntries(c, a)],
               NextTurn(c, a, "readSeq", "readPosition")
        PROVE  pending'[c].period = pending[c].period /\ pc'[c] # "lockPeriod"
    <3>1. pc'[c] # "lockPeriod"  BY <2>3 DEF NextTurn
    <3>2. pending'[c].period = pending[c].period  BY <2>3 DEF Writes
    <3> QED  BY <3>1, <3>2
  <2> QED  BY <2>1, <2>2, <2>3
<1>10. CASE ReadPosition(c)  BY <1>10 DEF ReadPosition, NextTurn
<1>11. CASE UpsertBalance(c)
  <2>1. /\ pc[c] = "upsertBalance" /\ UNCHANGED <<periods, req>>
        /\ \E a \in Account :
              \/ EndWith(c, Unknown) \/ EndWith(c, Refused("INSUFFICIENT_FUNDS"))
              \/ /\ pending' = [pending EXCEPT ![c].balances[a] = NewBalance(c, a)]
                 /\ NextTurn(c, a, "readPosition", "insertOutbox")
    BY <1>11 DEF UpsertBalance
  <2>2. CASE EndWith(c, Unknown) \/ EndWith(c, Refused("INSUFFICIENT_FUNDS"))
    BY <1>0, <2>1, <2>2
  <2>3. ASSUME NEW a \in Account,
               pending' = [pending EXCEPT ![c].balances[a] = NewBalance(c, a)],
               NextTurn(c, a, "readPosition", "insertOutbox")
        PROVE  pending'[c].period = pending[c].period /\ pc'[c] # "lockPeriod"
    <3>1. pc'[c] # "lockPeriod"  BY <2>3 DEF NextTurn
    <3>2. pending'[c].period = pending[c].period  BY <2>3 DEF Writes
    <3> QED  BY <3>1, <3>2
  <2> QED  BY <2>1, <2>2, <2>3
<1>12. CASE InsertOutbox(c)  BY <1>12 DEF InsertOutbox
<1>13. CASE Commit(c)  BY <1>0, <1>13 DEF Commit
<1>14. CASE Reply(c)  BY <1>0, <1>14 DEF Reply
<1>15. CASE Fail(c)  BY <1>0, <1>15 DEF Fail
<1> QED
  BY <1>1, <1>2, <1>3, <1>4, <1>5, <1>6, <1>7, <1>8, <1>9, <1>10, <1>11, <1>12, <1>13,
     <1>14, <1>15 DEF CallStep, Post

\* A call that inserts its period, or is about to lock it, has one.
LEMMA PeriodRowType ==
    ASSUME LogInv, PeriodWritten, NEW c \in Call, pending[c].period \/ pc[c] = "lockPeriod"
    PROVE  PeriodRow(c) \in Tenant \X Period
<1>1. pc[c] \in Place \ {"idle", "done"}
  BY DEF PeriodWritten, PastPeriodLock, Place, InTransaction
<1> QED  BY <1>1, AskedRequest DEF LogInv, PeriodRow

\* Every step keeps PeriodsInserted: the insert waits for another of the same row.
LEMMA PeriodsInsertedNext ==
    LogInv /\ PeriodWritten /\ PeriodsInserted /\ [Next]_vars => PeriodsInserted'
<1> SUFFICES ASSUME LogInv, PeriodWritten, PeriodsInserted, [Next]_vars PROVE PeriodsInserted'
  OBVIOUS
<1> DEFINE Absent(d) == pending[d].period => req[d].auto /\ periods[PeriodRow(d)] = "ABSENT"
           Alone(d, e) == pending[d].period /\ pending[e].period /\ PeriodRow(d) = PeriodRow(e) => d = e
           Found(d) == pc[d] = "lockPeriod" /\ req[d].auto /\ ~pending[d].period =>
                          periods[PeriodRow(d)] # "ABSENT"
<1>0. \A d, e \in Call : Absent(d) /\ Alone(d, e) /\ Found(d)
  BY DEF PeriodsInserted
<1>1. ASSUME NEW c \in Call, CallStep(c), NEW d \in Call
      PROVE  Absent(d)' /\ Found(d)' /\ \A e \in Call : Alone(d, e)'
  <2>1. \A e \in Call \ {c} : /\ pc'[e] = pc[e] /\ req'[e] = req[e] /\ pending'[e] = pending[e]
                              /\ PeriodRow(e)' = PeriodRow(e)
    BY <1>1, OthersKeep DEF LogInv, PeriodRow
  <2>2. ASSUME NEW e \in Call \ {c} PROVE Absent(e)' /\ Found(e)'
    <3>1. CASE periods' = periods
      BY <1>0, <2>1, <3>1
    <3>2. CASE pending[c].period /\ periods' = [periods EXCEPT ![PeriodRow(c)] = "OPEN"]
      <4>1. pending[e].period => PeriodRow(e) # PeriodRow(c)
        BY <1>0, <3>2
      <4>2. pending[e].period \/ pc[e] = "lockPeriod" => PeriodRow(e) \in Tenant \X Period
        BY PeriodRowType
      <4>3. periods \in [Tenant \X Period -> PeriodStatus \cup {"ABSENT"}]
        BY DEF LogInv, TypeOK
      <4> QED  BY <1>0, <2>1, <3>2, <4>1, <4>2, <4>3
    <3> QED  BY <1>1, <3>1, <3>2, InsertingSteps DEF LogInv
  <2>3. CASE CreatePeriod(c)
    <3>1. /\ pending'[c].period = (req[c].auto /\ periods[PeriodRow(c)] = "ABSENT")
          /\ UNCHANGED <<req, periods>> /\ (req[c].auto => ~NewPeriodBusy(c))
      BY <2>3 DEF CreatePeriod, PeriodRow, LogInv, TypeOK, tables, Writes
    <3>2. PeriodRow(c)' = PeriodRow(c)
      BY <3>1 DEF PeriodRow
    <3>3. Absent(c)' /\ Found(c)'
      BY <3>1, <3>2
    <3>4. \A e \in Call \ {c} : pending'[c].period => ~(pending[e].period /\ PeriodRow(c) = PeriodRow(e))
      BY <3>1 DEF NewPeriodBusy, HoldsNewPeriod, PeriodRow
    <3> QED  BY <1>0, <2>1, <2>2, <3>2, <3>3, <3>4
  <2>4. CASE pc'[c] # "lockPeriod" /\ pending'[c].period = FALSE
    BY <1>0, <2>1, <2>2, <2>4
  <2>5. CASE /\ pc'[c] # "lockPeriod" /\ pending'[c].period = pending[c].period
             /\ req' = req \/ pc[c] = "idle"
    <3>1. pending[c].period => req' = req
      BY <2>5 DEF PeriodWritten, PastPeriodLock
    <3>2. pending[c].period => PeriodRow(c)' = PeriodRow(c) /\ periods' = periods
      BY <1>1, <2>5, <3>1, InsertingSteps DEF PeriodRow, LogInv
    <3> QED  BY <1>0, <2>1, <2>2, <2>5, <3>1, <3>2
  <2> QED  BY <1>1, <2>3, <2>4, <2>5, InsertingSteps DEF LogInv
<1>2. ASSUME Admin, NEW d \in Call PROVE Absent(d)' /\ Found(d)' /\ \A e \in Call : Alone(d, e)'
  <2>1. UNCHANGED <<pc, req, pending>> /\ \A e \in Call : PeriodRow(e)' = PeriodRow(e)
    BY <1>2, AdminKeeps DEF PeriodRow
  <2>2. pending[d].period \/ pc[d] = "lockPeriod" => PeriodRow(d) \in Tenant \X Period
    BY PeriodRowType
  <2>3. \/ periods' = periods
        \/ \E t \in Tenant, p \in Period, s \in PeriodStatus :
              /\ periods' = [periods EXCEPT ![<<t, p>>] = s]
              /\ ~PeriodInserting(t, p) \/ periods[<<t, p>>] # "ABSENT"
    BY <1>2, InputAssumption
       DEF Admin, CreateAccount, SetAccountStatus, OpenPeriod, SetPeriodStatus, PeriodStatus
  <2>4. ASSUME NEW t \in Tenant, NEW p \in Period, NEW s \in PeriodStatus,
               periods' = [periods EXCEPT ![<<t, p>>] = s],
               ~PeriodInserting(t, p) \/ periods[<<t, p>>] # "ABSENT"
        PROVE  Absent(d)' /\ Found(d)'
    <3>1. pending[d].period => PeriodRow(d) # <<t, p>>
      BY <1>0, <2>4 DEF PeriodInserting, HoldsNewPeriod, PeriodRow
    <3>2. s # "ABSENT" /\ periods \in [Tenant \X Period -> PeriodStatus \cup {"ABSENT"}]
      BY DEF PeriodStatus, LogInv, TypeOK
    <3> QED  BY <1>0, <2>1, <2>2, <2>4, <3>1, <3>2
  <2>5. periods' = periods => Absent(d)' /\ Found(d)'
    BY <1>0, <2>1
  <2>6. \A e \in Call : Alone(d, e)'
    BY <1>0, <2>1
  <2>7. Absent(d)' /\ Found(d)'
    <3> HIDE DEF Absent, Found
    <3> QED  BY <2>3, <2>4, <2>5
  <2> QED  BY <2>6, <2>7
<1>3. ASSUME UNCHANGED vars, NEW d \in Call PROVE Absent(d)' /\ Found(d)' /\ \A e \in Call : Alone(d, e)'
  BY <1>0, <1>3 DEF vars, PeriodRow
<1>4. (\A d \in Call : Absent(d)' /\ Found(d)' /\ \A e \in Call : Alone(d, e)') => PeriodsInserted'
  BY DEF PeriodsInserted
<1> QED  BY <1>1, <1>2, <1>3, <1>4, StepKinds

\* Every step keeps AskedValid: post() validates before it begins.
LEMMA AskedValidNext == LogInv /\ AskedValid /\ [Next]_vars => AskedValid'
<1> SUFFICES ASSUME LogInv, AskedValid, [Next]_vars PROVE AskedValid'
  OBVIOUS
<1> DEFINE AskedWell(d) == /\ pc[d] = "idle" => req[d] = None
                           /\ pc[d] \notin {"idle", "done"} => ValidationError(req[d]) = ""
<1>1. ASSUME NEW c \in Call, CallStep(c), NEW d \in Call PROVE AskedWell(d)'
  <2>1. CASE d # c
    BY <1>1, <2>1, CallsKept DEF AskedValid
  <2>2. ASSUME d = c, NEW r \in Request, Submit(c, r) PROVE AskedWell(d)'
    <3>1. req'[c] = r /\ pc'[c] # "idle" /\ (pc'[c] = "done" \/ ValidationError(r) = "")
      BY <1>1, <2>2, CallsKept DEF Submit, Goto, LogInv, TypeOK
    <3> QED  BY <2>2, <3>1
  <2>3. CASE d = c /\ (Post(c) \/ Fail(c))
    <3>1. pc[c] \notin {"idle", "done"} /\ req' = req
      BY <1>1, <2>3, PostingIsUnderWay, CallsKept, GateSteps DEF LogInv
    <3> QED  BY <1>1, <2>3, <3>1, CallsKept DEF AskedValid
  <2> QED  BY <1>1, <2>1, <2>2, <2>3 DEF CallStep
<1>2. ASSUME NEW c \in Call, CallStep(c) PROVE AskedValid'
  BY <1>1, <1>2 DEF AskedValid
<1>3. CASE Admin  BY <1>3, AdminKeeps DEF AskedValid
<1>4. CASE UNCHANGED vars  BY <1>4 DEF AskedValid, vars
<1> QED  BY <1>2, <1>3, <1>4, StepKinds

\* With none of its errors, the account is in the request's currency.
LEMMA NoCurrencyError ==
    ASSUME NEW c, NEW a, AccountError(c, a) = ""
    PROVE  CurrencyOf[<<req[c].tenant, a>>] = req[c].currency
BY DEF AccountError

\* Every step keeps CurrenciesMatch.
LEMMA CurrenciesMatchNext == LogInv /\ CurrenciesMatch /\ [Next]_vars => CurrenciesMatch'
<1> SUFFICES ASSUME LogInv, CurrenciesMatch, [Next]_vars PROVE CurrenciesMatch'
  OBVIOUS
<1> DEFINE Match(d, a) == CurrencyOf[<<req[d].tenant, a>>] = req[d].currency
           Holds(d, a) == HoldsAccount(d, req[d].tenant, a)
<1>0. \A d \in Call, a \in Account : Holds(d, a) => Match(d, a)
  BY DEF CurrenciesMatch
<1>1. ASSUME NEW c \in Call, CallStep(c), NEW d \in Call, NEW a \in Account, Holds(d, a)'
      PROVE  Match(d, a)'
  <2>1. CASE d # c
    <3>1. pc'[d] = pc[d] /\ req'[d] = req[d] /\ todo'[d] = todo[d]
      BY <1>1, <2>1, OthersKeep DEF LogInv
    <3>2. Holds(d, a)
      BY <1>1, <3>1 DEF HoldsAccount, TouchedBy
    <3> QED  BY <1>0, <3>1, <3>2
  <2>2. CASE d = c
    <3>1. pc'[c] \in PastPeriodLock /\ req' = req
      BY <1>1, <2>2, LockSteps DEF LogInv, HoldsAccount, PastPeriodLock, PastAccountLocks
    <3>2. Holds(c, a) => Match(c, a)'
      BY <1>0, <3>1
    <3>3. CASE pc'[c] = "lockAccounts" /\ todo'[c] = TouchedBy(c)
      BY <1>1, <2>2, <3>1, <3>3 DEF HoldsAccount, TouchedBy, PastPeriodLock, PastAccountLocks
    <3>4. ASSUME pc[c] = "lockAccounts", NEW b \in Account, IsNext(c, b), AccountError(c, b) = "",
                 NextTurn(c, b, "lockAccounts", "readSeq")
          PROVE  Match(c, a)'
      <4>1. CASE a = b
        BY <3>1, <3>4, <4>1, NoCurrencyError
      <4>2. CASE a # b
        <5>1. a \notin todo[c]
          <6>1. pc'[c] = "lockAccounts" => a \notin todo'[c]
            BY <1>1, <2>2 DEF HoldsAccount, PastPeriodLock, PastAccountLocks
          <6>2. \/ todo[c] = {b}
                \/ pc'[c] = "lockAccounts" /\ todo'[c] = todo[c] \ {b}
            BY <3>4, TurnEffect DEF LogInv
          <6> QED  BY <4>2, <6>1, <6>2
        <5>2. Holds(c, a)
          BY <1>1, <2>2, <3>1, <3>4, <5>1 DEF HoldsAccount, TouchedBy
        <5> QED  BY <3>2, <5>2
      <4> QED  BY <4>1, <4>2
    <3>5. CASE pc[c] \in PastAccountLocks
      <4>1. Holds(c, a)
        BY <1>1, <2>2, <3>1, <3>5 DEF HoldsAccount, TouchedBy
      <4> QED  BY <2>2, <3>2, <4>1
    <3> QED  BY <1>1, <2>2, <3>1, <3>3, <3>4, <3>5, LockSteps DEF LogInv
  <2> QED  BY <2>1, <2>2
<1>2. ASSUME NEW c \in Call, CallStep(c) PROVE CurrenciesMatch'
  BY <1>1, <1>2 DEF CurrenciesMatch
<1>3. CASE Admin  BY <1>3, AdminKeeps DEF CurrenciesMatch, HoldsAccount, TouchedBy
<1>4. CASE UNCHANGED vars  BY <1>4 DEF CurrenciesMatch, HoldsAccount, TouchedBy, vars
<1> QED  BY <1>2, <1>3, <1>4, StepKinds

\* Every step keeps UpsertsCovered.
LEMMA UpsertsCoveredNext ==
    LogInv /\ PositionsAdded /\ UpsertsCovered /\ [Next]_vars => UpsertsCovered'
<1> SUFFICES ASSUME LogInv, PositionsAdded, UpsertsCovered, [Next]_vars PROVE UpsertsCovered'
  OBVIOUS
<1> DEFINE Covered(d, a) == pending[d].balances[a] # None =>
               ~Overdrawn(AccountType[<<req[d].tenant, a>>], pending[d].balances[a].amount)
<1>0. \A d \in Call, a \in Account : Covered(d, a)
  BY DEF UpsertsCovered
<1>1. ASSUME NEW c \in Call, CallStep(c), NEW d \in Call, NEW a \in Account PROVE Covered(d, a)'
  <2>1. CASE d # c
    <3>1. pending'[d] = pending[d] /\ req'[d] = req[d]
      BY <1>1, <2>1, OthersKeep DEF LogInv
    <3> QED  BY <1>0, <3>1
  <2>2. CASE d = c
    <3>1. pc[c] \notin PastEntries => pending[c].balances[a] = None
      BY DEF PositionsAdded, Positioned, PastEntries
    <3>2. CASE pending'[c].balances[a] = None
      BY <2>2, <3>2
    <3>3. CASE req' = req /\ pending'[c].balances = pending[c].balances
      BY <1>0, <2>2, <3>3
    <3>4. ASSUME NEW b \in Account, Upserts(c, b), req' = req PROVE Covered(c, a)'
      <4>1. pending[c].balances \in [Account -> BalanceRow \cup {None}]
        BY DEF LogInv, TypeOK, Writes
      <4>2. a # b => pending'[c].balances[a] = pending[c].balances[a]
        BY <3>4, <4>1 DEF Upserts
      <4>3. a = b => pending'[c].balances[a] = NewBalance(c, a)
        BY <3>4, <4>1 DEF Upserts
      <4>4. a = b => ~Overdrawn(AccountType[<<req[c].tenant, a>>], NewBalance(c, a).amount)
        BY <3>4 DEF Upserts
      <4> QED  BY <1>0, <3>4, <4>2, <4>3, <4>4
    <3>5. NoWrites.balances[a] = None
      BY DEF NoWrites
    <3> HIDE DEF Covered
    <3> QED  BY <1>1, <2>2, <3>1, <3>2, <3>3, <3>4, <3>5, PositionSteps DEF LogInv, Skips
  <2> QED  BY <2>1, <2>2
<1>2. ASSUME NEW c \in Call, CallStep(c) PROVE UpsertsCovered'
  BY <1>1, <1>2 DEF UpsertsCovered
<1>3. CASE Admin  BY <1>3, AdminKeeps DEF UpsertsCovered
<1>4. CASE UNCHANGED vars  BY <1>4 DEF UpsertsCovered, vars
<1> QED  BY <1>2, <1>3, <1>4, StepKinds

\* AtomicInv holds in every reachable state.
THEOREM AtomicAlways == Spec => []AtomicInv
<1>1. Init => AtomicInv
  BY DEF Init, AtomicInv, AskedValid, PeriodsInserted, CurrenciesMatch, UpsertsCovered,
         NoWrites, HoldsAccount
<1>2. LogInv /\ OrderInv /\ BalanceInv /\ AtomicInv /\ [Next]_vars => AtomicInv'
  BY AskedValidNext, PeriodsInsertedNext, CurrenciesMatchNext, UpsertsCoveredNext
     DEF AtomicInv, OrderInv, BalanceInv
<1> QED  BY <1>1, <1>2, LogAlways, OrderAlways, BalanceAlways, PTL DEF Spec

-----------------------------------------------------------------------------
(***************************************************************************)
(* What a commit adds, as AtomicLedger says it.                            *)
(***************************************************************************)
LineAmounts(r, L) == [l \in L |-> LineAmount(r, l)]

\* What assertRequestValid adds up is the sum of the lines.
LEMMA LinesAreSummed ==
    ASSUME NEW r, NEW L, IsFiniteSet(L)
    PROVE  MapThenSumSet(LAMBDA l : LineAmount(r, l), L) = SumOver(LineAmounts(r, L), L)
<1> DEFINE g == LineAmounts(r, L)
           F(i) == [s \in SUBSET L |->
                      IF s = {} THEN 0
                      ELSE LineAmount(r, CHOOSE x \in s : TRUE) + i[s \ {CHOOSE x \in s : TRUE}]]
           j == CHOOSE i : i = F(i)
<1>1. ASSUME NEW s \in SUBSET L, s # {}
      PROVE  LineAmount(r, Pick(s)) = g[Pick(s)] /\ Pick(s) = CHOOSE x \in s : TRUE
  BY <1>1, PickOne DEF LineAmounts, Pick
<1>2. ASSUME NEW h PROVE SumsUp(h, g, L) <=> h = F(h)
  <2> DEFINE G == [s \in SUBSET L |-> IF s = {} THEN 0 ELSE g[Pick(s)] + h[s \ {Pick(s)}]]
  <2>1. \A s \in SUBSET L : F(h)[s] = G[s]
    <3> TAKE s \in SUBSET L
    <3>1. CASE s = {}  BY <3>1
    <3>2. CASE s # {}
      <4> DEFINE x == CHOOSE y \in s : TRUE
      <4>1. F(h)[s] = LineAmount(r, x) + h[s \ {x}]
        BY <3>2
      <4>2. G[s] = g[Pick(s)] + h[s \ {Pick(s)}]
        BY <3>2
      <4>3. LineAmount(r, Pick(s)) = g[Pick(s)] /\ Pick(s) = x
        BY <1>1, <3>2
      <4> HIDE DEF F, G, x, g
      <4> QED  BY <4>1, <4>2, <4>3
    <3> QED  BY <3>1, <3>2
  <2>2. F(h) = G
    BY <2>1
  <2> QED  BY <2>2 DEF SumsUp
<1>3. \E i : i = F(i)
  <2>1. PICK h : SumsUp(h, g, L)
    BY SumsExist
  <2>2. h = F(h)
    BY <1>2, <2>1
  <2> QED  BY <2>2
<1>4. j = F(j)
  BY <1>3
<1>5. MapThenSumSet(LAMBDA l : LineAmount(r, l), L) = j[L]
  BY DEF MapThenSumSet, MapThenFoldSet
<1>6. SumsUp(j, g, L)
  BY <1>2, <1>4
<1> HIDE DEF j, g
<1> QED  BY <1>5, <1>6, SumIsSum DEF g

\* The rows of a call that is about to commit, account by account.
LEMMA RowsAtCommit ==
    ASSUME LogInv, WholeSoFar, NEW c \in Call, pc[c] = "commit", NEW a \in TouchedBy(c)
    PROVE  \E m \in Nat : RowsOn(pending[c].entries, c, a) = EntriesAt(c, a, m)
<1>1. a \in Account
  BY AskedRequest DEF LogInv, Place, InTransaction
<1>2. Whole(pending[c].entries, c, a)
  BY <1>1 DEF WholeSoFar, Inserted, PastEntries
<1>3. PICK e \in RowsOn(pending[c].entries, c, a) :
         RowsOn(pending[c].entries, c, a) = EntriesAt(c, a, e.seq - 1)
  BY <1>2 DEF Whole
<1>4. e.seq \in Nat \ {0}
  BY DEF RowsOn, LogInv, TypeOK, Writes, Entry
<1>5. e.seq - 1 \in Nat
  BY <1>4
<1> QED  BY <1>3, <1>5

\* What a call commits adds up to 0, because its request did: the deferred trigger
\* assert_balanced never fires.
LEMMA CommitIsBalanced ==
    ASSUME LogInv, OwnRows, WholeSoFar, RowsFinite, AskedValid, NEW c \in Call, pc[c] = "commit"
    PROVE  Balanced(c)
<1> DEFINE r == req[c]
           P == pending[c].entries
           B == [a \in TouchedBy(c) |-> CHOOSE m \in Nat : RowsOn(P, c, a) = EntriesAt(c, a, m)]
           g == [e \in P |-> <<e.account, e.seq - B[e.account]>>]
<1>1. /\ r \in Request /\ RequestType(r)
      /\ \A a \in TouchedBy(c) : r.legs[a] \in Seq(Int)
  BY AskedRequest DEF LogInv, Place, InTransaction, RequestType, TouchedBy
<1>2. \A a \in TouchedBy(c) : B[a] \in Nat /\ RowsOn(P, c, a) = EntriesAt(c, a, B[a])
  BY RowsAtCommit
<1> HIDE DEF B
<1>3. \A e \in P : /\ e.account \in TouchedBy(c) /\ e \in RowsOn(P, c, e.account)
                   /\ e.amount \in Int /\ e.seq \in Nat
  BY DEF OwnRows, RowOf, RowsOn, LogInv, TypeOK, Writes, Entry
<1>4. ASSUME NEW e \in P
      PROVE  /\ e.seq - B[e.account] \in DOMAIN r.legs[e.account]
             /\ e = [tx |-> c, tenant |-> r.tenant, account |-> e.account,
                     amount |-> r.legs[e.account][e.seq - B[e.account]], seq |-> e.seq]
  <2>1. e \in EntriesAt(c, e.account, B[e.account]) /\ B[e.account] \in Nat
        /\ r.legs[e.account] \in Seq(Int)
    BY <1>1, <1>2, <1>3
  <2>2. PICK i \in DOMAIN r.legs[e.account] :
           e = [tx |-> c, tenant |-> r.tenant, account |-> e.account,
                amount |-> r.legs[e.account][i], seq |-> B[e.account] + i]
    BY <2>1 DEF EntriesAt
  <2>3. i \in Nat /\ e.seq = B[e.account] + i
    BY <2>1, <2>2
  <2>4. e.seq - B[e.account] = i
    BY <2>1, <2>3
  <2> QED  BY <2>2, <2>3, <2>4
<1>5. \A e \in P : g[e] \in Lines(r) /\ LineAmount(r, g[e]) = e.amount
  <2> TAKE e \in P
  <2>1. g[e] = <<e.account, e.seq - B[e.account]>> /\ e.account \in DOMAIN r.legs
    BY <1>3 DEF TouchedBy
  <2>2. e.amount = r.legs[e.account][e.seq - B[e.account]]
    BY <1>4
  <2> HIDE DEF g
  <2> QED  BY <1>4, <2>1, <2>2 DEF Lines, LineAmount
<1>6. \A e, f \in P : g[e] = g[f] => e = f
  <2> TAKE e, f \in P
  <2> HAVE g[e] = g[f]
  <2>1. e.account = f.account /\ e.seq - B[e.account] = f.seq - B[f.account]
    OBVIOUS
  <2>2. e.seq = f.seq
    <3>1. PICK k \in Nat, m \in Nat, n \in Nat : k = B[e.account] /\ m = e.seq /\ n = f.seq
      BY <1>2, <1>3
    <3>2. m - k = n - k
      BY <2>1, <3>1
    <3> QED  BY <3>1, <3>2
  <2> QED  BY <1>4, <2>1, <2>2
<1>7. \A l \in Lines(r) : \E e \in P : l = g[e]
  <2> TAKE l \in Lines(r)
  <2>0. PICK a \in TouchedBy(c) : \E i \in DOMAIN r.legs[a] : l = <<a, i>>
    BY DEF Lines, TouchedBy
  <2>1. PICK i \in DOMAIN r.legs[a] : l = <<a, i>>
    BY <2>0
  <2> DEFINE e == [tx |-> c, tenant |-> r.tenant, account |-> a, amount |-> r.legs[a][i],
                   seq |-> B[a] + i]
  <2>2. e \in P
    BY <1>2, <2>1 DEF EntriesAt, RowsOn
  <2>3. i \in Nat /\ (B[a] + i) - B[a] = i
    <3>1. r.legs[a] \in Seq(Int) /\ B[a] \in Nat
      BY <1>1, <1>2
    <3>2. i \in Nat
      BY <3>1
    <3>3. PICK b \in Nat : b = B[a]
      BY <3>1
    <3>4. (b + i) - b = i
      BY <3>2
    <3> QED  BY <3>2, <3>3, <3>4
  <2>4. g[e] = <<a, i>>
    BY <2>2, <2>3
  <2> QED  BY <2>1, <2>2, <2>4
<1>8. {g[e] : e \in P} = Lines(r)
  <2> HIDE DEF g, P, r
  <2> QED  BY <1>5, <1>7
<1>9. IsFiniteSet(P)
  BY DEF RowsFinite
<1>10. /\ IsFiniteSet(Lines(r))
       /\ SumOver(LineAmounts(r, Lines(r)), Lines(r)) = SumOver(Amounts(P), P)
  <2> DEFINE h == LineAmounts(r, Lines(r))
             k == Amounts(P)
  <2>1. Integral(k, P) /\ \A e \in P : h[g[e]] = k[e]
    BY <1>3, <1>5 DEF Integral, Amounts, LineAmounts
  <2> HIDE DEF g, P, r, h, k
  <2>2. IsFiniteSet({g[e] : e \in P}) /\ SumOver(h, {g[e] : e \in P}) = SumOver(k, P)
    BY <1>6, <1>9, <2>1, SumRenamed
  <2> QED  BY <1>8, <2>2 DEF h, k
<1>11. MapThenSumSet(LAMBDA l : LineAmount(r, l), Lines(r)) = 0
  BY DEF AskedValid, ValidationError
<1>12. Total(P) = 0
  BY <1>9, <1>10, <1>11, LinesAreSummed, TotalIsSum
<1> QED  BY <1>12 DEF Balanced, Total

\* The rows of S by seq.
InOrder(S) ==
    [n \in 1 .. Cardinality(S) |-> <<(CHOOSE e \in S : e.seq = n).tx, (CHOOSE e \in S : e.seq = n).amount>>]

\* A numbered log, read in order, is a sequence of its rows.
LEMMA OrderOfNumbered ==
    ASSUME NEW S, S \subseteq Entry, NEW k \in Nat, NumberedTo(S, k)
    PROVE  /\ InOrder(S) \in Seq(Call \X Int) /\ Len(InOrder(S)) = k
           /\ \A e \in S : e.seq \in 1 .. k /\ InOrder(S)[e.seq] = <<e.tx, e.amount>>
<1> DEFINE at(n) == CHOOSE e \in S : e.seq = n
<1>1. Cardinality(S) = k
  BY NumberedCardinality
<1>2. ASSUME NEW n \in 1 .. k
      PROVE  at(n) \in S /\ at(n).seq = n /\ at(n).tx \in Call /\ at(n).amount \in Int
  <2>1. \E e \in S : e.seq = n
    BY DEF NumberedTo
  <2>2. at(n) \in S /\ at(n).seq = n
    BY <2>1
  <2> HIDE DEF at
  <2> QED  BY <2>2 DEF Entry
<1>3. InOrder(S) = [n \in 1 .. k |-> <<at(n).tx, at(n).amount>>]
  BY <1>1 DEF InOrder
<1> HIDE DEF at
<1>4. InOrder(S) \in Seq(Call \X Int) /\ Len(InOrder(S)) = k
  BY <1>2, <1>3
<1>5. \A e \in S : e.seq \in 1 .. k /\ at(e.seq) = e
  BY <1>2 DEF NumberedTo
<1> QED  BY <1>3, <1>4, <1>5

\* Rows that continue one numbering to another start where it ends.
LEMMA ContinuesAt ==
    ASSUME NEW S, NEW k \in Nat, NumberedTo(S, k), NEW R, NEW n \in Nat, NumberedTo(S \cup R, n),
           S \cap R = {}, NEW m \in Nat, NEW len \in Nat \ {0},
           \A e \in R : e.seq \in m + 1 .. m + len,
           \A i \in 1 .. len : \E e \in R : e.seq = m + i
    PROVE  m = k /\ n = k + len
<1>1. PICK e \in R : e.seq = m + 1
  OBVIOUS
<1>2. PICK l \in R : l.seq = m + len
  OBVIOUS
<1>3. \A j \in 1 .. k : \A f \in R : f.seq # j
  BY DEF NumberedTo
<1>4. m + 1 \in 1 .. n /\ m + len \in 1 .. n
  BY <1>1, <1>2 DEF NumberedTo
<1>5. k <= m
  <2>1. m + 1 \notin 1 .. k
    BY <1>1, <1>3
  <2> QED  BY <2>1
<1>6. m <= k
  <2> SUFFICES ASSUME k < m PROVE FALSE
    OBVIOUS
  <2>1. k + 1 \in 1 .. n
    BY <1>4
  <2>2. PICK f \in S \cup R : f.seq = k + 1
    BY <2>1 DEF NumberedTo
  <2>3. f \notin S
    BY <2>2 DEF NumberedTo
  <2>4. f.seq \in m + 1 .. m + len
    BY <2>2, <2>3
  <2> QED  BY <2>2, <2>4
<1>7. n <= k + len
  <2>1. PICK f \in S \cup R : f.seq = n
    BY <1>4 DEF NumberedTo
  <2>2. CASE f \in S  BY <2>1, <2>2 DEF NumberedTo
  <2>3. CASE f \in R
    <3>1. f.seq \in m + 1 .. m + len
      BY <2>3
    <3> QED  BY <1>5, <1>6, <2>1, <3>1
  <2> QED  BY <2>2, <2>3
<1> QED  BY <1>4, <1>5, <1>6, <1>7

\* A commit appends the lines of its request to the log of each account, in order.
LEMMA CommitExtendsLog ==
    ASSUME LogInv, LogInv', OwnRows, WholeSoFar, NEW c \in Call, Commits(c), NEW a \in Account
    PROVE  LogOrder(a)' =
              IF a \in TouchedBy(c)
              THEN LogOrder(a) \o [i \in DOMAIN req[c].legs[a] |-> <<c, req[c].legs[a][i]>>]
              ELSE LogOrder(a)
<1> DEFINE S == LogOf(a)
           R == RowsOn(pending[c].entries, c, a)
           T == LogOf(a)'
           lines == req[c].legs[a]
           new == [i \in DOMAIN lines |-> <<c, lines[i]>>]
<1>1. T = S \cup R /\ LogSeen(c, a) = S \cup R
  BY DEF Commits, LogOf, LogSeen, RowsOn, LogInv, Written, WrittenOf
<1>2. S \cap R = {}
  BY RowsApart DEF LogOf, RowsOn
<1>3. S \subseteq Entry /\ T \subseteq Entry
  BY DEF LogInv, TypeOK, LogOf
<1>4. LogOrder(a) = InOrder(S) /\ LogOrder(a)' = InOrder(T)
  BY DEF LogOrder, EntryAt, InOrder
<1>5. PICK k \in Nat : NumberedTo(S, k)
  BY DEF LogInv, LogsNumbered, Numbered
<1>6. PICK n \in Nat : NumberedTo(T, n)
  BY <1>1 DEF LogInv, LogsNumbered, Numbered
<1>7. CASE a \notin TouchedBy(c)
  <2>1. R = {}
    BY <1>7 DEF OwnRows, RowOf, RowsOn
  <2>2. T = S
    BY <1>1, <2>1
  <2> QED  BY <1>4, <1>7, <2>2
<1>8. CASE a \in TouchedBy(c)
  <2>1. lines \in Seq(Int) \ {<<>>} /\ c \in Call
    BY <1>8, AskedRequest DEF Commits, LogInv, Place, InTransaction, RequestType, TouchedBy
  <2>2. PICK m \in Nat : R = EntriesAt(c, a, m)
    BY <1>8, RowsAtCommit DEF Commits
  <2> DEFINE len == Len(lines)
  <2>3. len \in Nat \ {0} /\ DOMAIN lines = 1 .. len /\ \A i \in 1 .. len : lines[i] \in Int
    BY <2>1
  <2> HIDE DEF S, T, lines, len
  <2>4. \A i \in 1 .. len : \E e \in R : e.seq = m + i /\ e.tx = c /\ e.amount = lines[i]
    <3> TAKE i \in 1 .. len
    <3> DEFINE e == [tx |-> c, tenant |-> req[c].tenant, account |-> a, amount |-> lines[i],
                     seq |-> m + i]
    <3>1. e \in R
      BY <2>2, <2>3 DEF EntriesAt, lines
    <3>2. e.seq = m + i /\ e.tx = c /\ e.amount = lines[i]
      OBVIOUS
    <3> QED  BY <3>1, <3>2
  <2>5. \A e \in R : \E i \in 1 .. len : e.seq = m + i
    BY <2>2, <2>3 DEF EntriesAt, lines
  <2> HIDE DEF R
  <2>6. m = k /\ n = k + len
    <3>1. \A e \in R : e.seq \in m + 1 .. m + len
      BY <2>3, <2>5
    <3>2. NumberedTo(S \cup R, n)
      BY <1>1, <1>6
    <3>3. \A i \in 1 .. len : \E e \in R : e.seq = m + i
      BY <2>4
    <3>4. NumberedTo(S, k) /\ S \cap R = {} /\ len \in Nat \ {0}
      BY <1>2, <1>5, <2>3
    <3> HIDE DEF NumberedTo
    <3> QED  BY <3>1, <3>2, <3>3, <3>4, ContinuesAt
  <2>7. /\ InOrder(S) \in Seq(Call \X Int) /\ Len(InOrder(S)) = k
        /\ \A e \in S : e.seq \in 1 .. k /\ InOrder(S)[e.seq] = <<e.tx, e.amount>>
    BY <1>3, <1>5, OrderOfNumbered
  <2>8. /\ InOrder(T) \in Seq(Call \X Int) /\ Len(InOrder(T)) = n
        /\ \A e \in T : e.seq \in 1 .. n /\ InOrder(T)[e.seq] = <<e.tx, e.amount>>
    BY <1>3, <1>6, OrderOfNumbered
  <2>9. new \in Seq(Call \X Int) /\ Len(new) = len /\ \A i \in 1 .. len : new[i] = <<c, lines[i]>>
    BY <2>1, <2>3
  <2> HIDE DEF new
  <2> DEFINE all == InOrder(S) \o new
  <2>10. /\ all \in Seq(Call \X Int) /\ Len(all) = k + len
         /\ \A j \in 1 .. k + len : all[j] = IF j <= k THEN InOrder(S)[j] ELSE new[j - k]
    BY <2>7, <2>9, ConcatProperties
  <2> HIDE DEF all
  <2>11. ASSUME NEW j \in 1 .. k + len PROVE InOrder(T)[j] = all[j]
    <3>1. CASE j <= k
      <4>1. PICK e \in S : e.seq = j
        BY <1>5, <3>1 DEF NumberedTo
      <4> QED  BY <1>1, <2>7, <2>8, <2>10, <3>1, <4>1 DEF T
    <3>2. CASE ~(j <= k)
      <4>1. j - k \in 1 .. len /\ k + (j - k) = j
        BY <2>3, <3>2
      <4>2. PICK e \in R : e.seq = j /\ e.tx = c /\ e.amount = lines[j - k]
        BY <2>4, <2>6, <4>1
      <4>3. InOrder(T)[j] = <<c, lines[j - k]>>
        BY <1>1, <2>8, <4>2
      <4> QED  BY <2>9, <2>10, <3>2, <4>1, <4>3
    <3> QED  BY <3>1, <3>2
  <2>12. InOrder(T) = all
    BY <2>6, <2>8, <2>10, <2>11
  <2> QED  BY <1>4, <1>8, <2>12 DEF all, new, lines
<1> QED  BY <1>7, <1>8

-----------------------------------------------------------------------------
(***************************************************************************)
(* The steps.                                                              *)
(***************************************************************************)
\* The log and the balances, as AtomicLedger has them.
Logs == [a \in Account |-> LogOrder(a)]
Books == [a \in Account |-> Booked(a)]

\* They are read off two tables.
LEMMA MappedTables ==
    UNCHANGED <<entries, balances>> => UNCHANGED <<Logs, Books>>
BY DEF Logs, Books, LogOrder, EntryAt, LogOf, Booked

\* A call inside its transaction was asked something, is told nothing yet, and is not in
\* the ledger.
LEMMA UnderWay ==
    ASSUME LogInv, GateInv, NEW c \in Call, pc[c] \in Place \ {"idle", "done"}
    PROVE  /\ req[c] \in Request /\ req[c] # None /\ answer[c] = NoAnswer
           /\ TouchedBy(c) \subseteq Account /\ req[c].tenant \in Tenant
           /\ PeriodRow(c) \in Tenant \X Period
           /\ c \in transactions <=> pc[c] = "reply"
BY AskedRequest, RequestAssumption DEF LogInv, Asked, AskedOf, GateInv, AnsweredLast, PeriodRow

\* Calling post() is asking: a request that is not valid is refused at once.
LEMMA SubmitAsks ==
    ASSUME LogInv, AskedValid, NEW c \in Call, NEW r \in Request, Submit(c, r)
    PROVE  Atomic!Ask(c, r)
<1>1. /\ req[c] = None /\ req' = [req EXCEPT ![c] = r]
      /\ UNCHANGED <<accounts, periods, transactions, entries, balances>>
  BY DEF Submit, AskedValid, tables
<1>2. UNCHANGED <<Logs, Books>>
  BY <1>1, MappedTables
<1>3. \/ ValidationError(r) = "" /\ answer' = answer
      \/ /\ ValidationError(r) \in {"VALIDATION_FAILED", "UNBALANCED_ENTRY"}
         /\ ValidationError(r) # ""
         /\ answer' = [answer EXCEPT ![c] = Refused(ValidationError(r))]
  BY ValidationErrors DEF Submit, Goto
<1> QED  BY <1>1, <1>2, <1>3 DEF Atomic!Ask, Logs, Books, Booked, Refused

\* COMMIT is the instant of the posting.
LEMMA CommitPosts ==
    ASSUME LogInv, LogInv', HoldInv, WholeInv, BalanceInv, GateInv, LockInv, AtomicInv,
           NEW c \in Call, CallStep(c), Commits(c)
    PROVE  Atomic!Post(c)
<1>0. pc[c] = "commit" /\ req' = req /\ transactions' = transactions \cup {c}
  BY DEF Commits
<1>1. /\ req[c] # None /\ answer[c] = NoAnswer /\ c \notin transactions
      /\ PeriodRow(c) \in Tenant \X Period /\ TouchedBy(c) \subseteq Account
      /\ req[c] \in Request
  BY <1>0, UnderWay DEF Place, InTransaction
<1>2. ASSUME NEW d \in transactions, SameKey(req[c], req[d]) PROVE FALSE
  <2>1. d \in Call /\ Claims(c) /\ Claims(d)
    BY <1>0 DEF Claims, PastGate, PastPeriodLock, LogInv, TypeOK
  <2> QED  BY <1>1, <1>2, <2>1 DEF GateInv, OneClaim
<1>3. /\ pending[c].period => req[c].auto /\ periods[PeriodRow(c)] = "ABSENT"
      /\ ~pending[c].period => periods[PeriodRow(c)] = "OPEN"
  <2>1. PeriodSeen(c) = "OPEN"
    BY <1>0 DEF LockInv, PeriodStaysOpen, PastPeriodLock
  <2> QED  BY <2>1 DEF AtomicInv, PeriodsInserted, PeriodSeen, PeriodRow
<1>4. accounts' = accounts /\ answer' = answer /\ periods' = [periods EXCEPT ![PeriodRow(c)] = "OPEN"]
  <2>1. /\ accounts' = accounts /\ answer' = answer
        /\ periods' = IF pending[c].period THEN [periods EXCEPT ![PeriodRow(c)] = "OPEN"] ELSE periods
    BY DEF Commits, Commit, Goto, PeriodRow
  <2>2. periods \in [Tenant \X Period -> PeriodStatus \cup {"ABSENT"}]
    BY DEF LogInv, TypeOK
  <2> QED  BY <1>3, <2>1, <2>2
<1>5. ASSUME NEW a \in TouchedBy(c)
      PROVE  /\ accounts[<<req[c].tenant, a>>] = "ACTIVE"
             /\ CurrencyOf[<<req[c].tenant, a>>] = req[c].currency
             /\ Net(req[c], a) # 0 =>
                   ~(AccountType[<<req[c].tenant, a>>] = "asset" /\ Booked(a) + Net(req[c], a) < 0)
  <2>1. HoldsAccount(c, req[c].tenant, a) /\ a \in Account /\ pc[c] \in PastPeriodLock
    BY <1>0, <1>1 DEF HoldsAccount, PastAccountLocks, PastPeriodLock
  <2>2. Positioned(c, a)
    BY <1>0 DEF Positioned
  <2>3. Net(req[c], a) # 0 =>
           ~Overdrawn(AccountType[<<req[c].tenant, a>>], Booked(a) + Net(req[c], a))
    BY <2>1, <2>2 DEF BalanceInv, PositionsAdded, AtomicInv, UpsertsCovered
  <2> QED  BY <2>1, <2>3 DEF LockInv, AccountsStayActive, AtomicInv, CurrenciesMatch, Overdrawn
<1>6. ASSUME NEW a \in Account
      PROVE  Booked(a)' = IF a \in TouchedBy(c) THEN Booked(a) + Net(req[c], a) ELSE Booked(a)
  <2>1. Booked(a) \in Int
    BY DEF Booked, LogInv, TypeOK, BalanceRow
  <2>2. CASE pending[c].balances[a] = None
    <3>1. Booked(a)' = Booked(a)
      BY <2>2 DEF Booked, Commits
    <3>2. a \in TouchedBy(c) => Net(req[c], a) = 0
      BY <1>0, <2>2 DEF BalanceInv, PositionsAdded, Positioned
    <3> QED  BY <2>1, <3>1, <3>2
  <2>3. CASE pending[c].balances[a] # None
    <3>1. Booked(a)' = pending[c].balances[a].amount
      BY <2>3 DEF Booked, Commits
    <3>2. a \in TouchedBy(c) /\ pending[c].balances[a].amount = Booked(a) + Net(req[c], a)
      BY <2>3 DEF BalanceInv, PositionsAdded, Positioned
    <3> QED  BY <3>1, <3>2
  <2> QED  BY <2>2, <2>3
<1>7. Books' = [a \in Account |-> IF a \in TouchedBy(c) THEN Books[a] + Net(req[c], a) ELSE Books[a]]
  BY <1>6 DEF Books
<1>8. Logs' = [a \in Account |->
                  IF a \in TouchedBy(c)
                  THEN Logs[a] \o [i \in DOMAIN req[c].legs[a] |-> <<c, req[c].legs[a][i]>>]
                  ELSE Logs[a]]
  <2>1. \A a \in Account : LogOrder(a)' =
           IF a \in TouchedBy(c)
           THEN LogOrder(a) \o [i \in DOMAIN req[c].legs[a] |-> <<c, req[c].legs[a][i]>>]
           ELSE LogOrder(a)
    BY CommitExtendsLog DEF HoldInv, WholeInv
  <2> QED  BY <2>1 DEF Logs
<1>9. \A a \in TouchedBy(c) : Books[a] = Booked(a)
  BY <1>1 DEF Books
<1> QED
  BY <1>0, <1>1, <1>2, <1>3, <1>4, <1>5, <1>7, <1>8, <1>9
     DEF Atomic!Post, Atomic!PeriodFor, Atomic!AccountFor, Atomic!TouchedBy, Atomic!SameKey,
         Atomic!Overdraws, Atomic!NoAnswer, NoAnswer, Logs, Books, Booked, PeriodRow,
         PostingPeriod, TouchedBy, SameKey

\* Ending a call is telling its caller, if what it is told is true.
LEMMA EndTells ==
    ASSUME LogInv, GateInv, NEW c \in Call, pc[c] \in Place \ {"idle", "done"},
           UNCHANGED <<accounts, periods, transactions, entries, balances, req>>,
           NEW ans, EndWith(c, ans),
           \/ ans = Unknown
           \/ ans = Returned("posted", c) /\ pc[c] = "reply"
           \/ /\ pc[c] # "reply"
              /\ \E d \in transactions : /\ ans = Returned("duplicate", d)
                                         /\ SameKey(req[d], req[c]) /\ Payload(req[d]) = Payload(req[c])
           \/ pc[c] # "reply" /\ \E code : ans = Refused(code) /\ Atomic!Reason(c, code)
    PROVE  Atomic!Tell(c, answer'[c])
<1>1. req[c] # None /\ answer[c] = NoAnswer /\ (c \in transactions <=> pc[c] = "reply")
  BY UnderWay
<1>2. answer' = [answer EXCEPT ![c] = ans] /\ answer'[c] = ans
  BY DEF EndWith, LogInv, TypeOK
<1>3. UNCHANGED <<Logs, Books>>
  BY MappedTables
<1>4. \/ ans.kind = "posted" /\ ans.tx = c /\ c \in transactions
      \/ /\ ans.kind = "duplicate" /\ c \notin transactions /\ ans.tx \in transactions
         /\ Atomic!SameKey(c, ans.tx) /\ Payload(req[c]) = Payload(req[ans.tx])
      \/ ans.kind = "refused" /\ c \notin transactions /\ Atomic!Reason(c, ans.code)
      \/ ans.kind = "unknown"
  <2>1. CASE ans = Unknown  BY <2>1 DEF Unknown
  <2>2. CASE ans = Returned("posted", c) /\ pc[c] = "reply"  BY <1>1, <2>2 DEF Returned
  <2>3. ASSUME pc[c] # "reply", NEW d \in transactions, ans = Returned("duplicate", d),
               SameKey(req[d], req[c]), Payload(req[d]) = Payload(req[c])
        PROVE  /\ ans.kind = "duplicate" /\ c \notin transactions /\ ans.tx \in transactions
               /\ Atomic!SameKey(c, ans.tx) /\ Payload(req[c]) = Payload(req[ans.tx])
    <3>1. ans.kind = "duplicate" /\ ans.tx = d
      BY <2>3 DEF Returned
    <3> QED  BY <1>1, <2>3, <3>1 DEF Atomic!SameKey, SameKey
  <2>4. ASSUME pc[c] # "reply", NEW code, ans = Refused(code), Atomic!Reason(c, code)
        PROVE  ans.kind = "refused" /\ c \notin transactions /\ Atomic!Reason(c, ans.code)
    <3>1. ans.kind = "refused" /\ ans.code = code
      BY <2>4 DEF Refused
    <3> QED  BY <1>1, <2>4, <3>1
  <2> QED  BY <2>1, <2>2, <2>3, <2>4
<1> QED
  BY <1>1, <1>2, <1>3, <1>4 DEF Atomic!Tell, Atomic!NoAnswer, NoAnswer, Logs, Books, Booked

\* A period that is not there when it is locked was not to be created; any other status
\* but OPEN is the one in the table.
LEMMA PeriodReasons ==
    ASSUME LogInv, GateInv, AtomicInv, NEW c \in Call, pc[c] = "lockPeriod", PeriodSeen(c) # "OPEN"
    PROVE  Atomic!Reason(c, IF PeriodSeen(c) = "ABSENT" THEN "PERIOD_NOT_FOUND" ELSE "PERIOD_NOT_OPEN")
<1>1. PeriodRow(c) \in Tenant \X Period
  BY UnderWay DEF Place, InTransaction
<1>2. PeriodSeen(c) = periods[PeriodRow(c)] /\ ~pending[c].period
  BY DEF PeriodSeen, PeriodRow
<1>3. Atomic!PeriodFor(c) = PeriodRow(c)
  BY DEF Atomic!PeriodFor, PeriodRow, PostingPeriod
<1>4. CASE PeriodSeen(c) = "ABSENT"
  <2>1. ~req[c].auto
    BY <1>2, <1>4 DEF AtomicInv, PeriodsInserted
  <2> QED  BY <1>2, <1>3, <1>4, <2>1 DEF Atomic!Reason
<1>5. CASE PeriodSeen(c) # "ABSENT"
  <2>1. periods[PeriodRow(c)] \in {"PRECLOSED", "CLOSED", "LOCKED"}
    BY <1>1, <1>2, <1>5 DEF LogInv, TypeOK, PeriodStatus
  <2> QED  BY <1>3, <1>5, <2>1 DEF Atomic!Reason
<1> QED  BY <1>4, <1>5

\* What is wrong with an account when it is locked is wrong in the table.
LEMMA AccountReasons ==
    ASSUME LogInv, GateInv, NEW c \in Call, pc[c] = "lockAccounts", NEW a \in Account, IsNext(c, a),
           AccountError(c, a) # ""
    PROVE  Atomic!Reason(c, AccountError(c, a))
<1>1. a \in TouchedBy(c)
  BY DEF IsNext, LogInv, Asked, AskedOf, PastPeriodLock
<1>2. req[c].tenant \in Tenant
  BY UnderWay DEF Place, InTransaction
<1>3. accounts[<<req[c].tenant, a>>] \in {"ABSENT", "ACTIVE", "FROZEN", "CLOSED"}
  BY <1>2 DEF LogInv, TypeOK, AccountStatus
<1>4. \/ AccountError(c, a) = "ACCOUNT_NOT_FOUND" /\ accounts[<<req[c].tenant, a>>] = "ABSENT"
      \/ AccountError(c, a) = "ACCOUNT_NOT_ACTIVE"
         /\ accounts[<<req[c].tenant, a>>] \in {"FROZEN", "CLOSED"}
      \/ AccountError(c, a) = "CURRENCY_MISMATCH"
         /\ CurrencyOf[<<req[c].tenant, a>>] # req[c].currency
  BY <1>3 DEF AccountError
<1> HIDE DEF AccountError
<1> QED  BY <1>1, <1>4 DEF Atomic!Reason, Atomic!TouchedBy, Atomic!AccountFor, TouchedBy

\* Too little on an account is too little there for some tenant's type of it.
LEMMA FundsReasons ==
    ASSUME NEW c \in Call, NEW a \in TouchedBy(c), a \in Account, NEW t \in Tenant, NEW amount,
           Overdrawn(AccountType[<<t, a>>], amount), amount = Booked(a) + Net(req[c], a)
    PROVE  Atomic!Reason(c, "INSUFFICIENT_FUNDS")
<1>1. Books[a] = Booked(a)
  BY DEF Books
<1> QED
  BY <1>1 DEF Atomic!Reason, Atomic!Overdraws, Atomic!TouchedBy, Overdrawn, TouchedBy, Books, Booked

\* The trigger of the commit finds what the guard of the upsert found, or what it could
\* not see: the balance row of another tenant.
LEMMA SpendableReasons ==
    ASSUME LogInv, PositionsAdded, NEW c \in Call, pc[c] = "commit", ~Spendable(c)
    PROVE  Atomic!Reason(c, "INSUFFICIENT_FUNDS")
<1>1. PICK a \in Account :
         /\ pending[c].balances[a] # None
         /\ Overdrawn(AccountType[<<pending[c].balances[a].tenant, a>>], pending[c].balances[a].amount)
  BY DEF Spendable
<1>2. a \in TouchedBy(c) /\ pending[c].balances[a].amount = Booked(a) + Net(req[c], a)
  BY <1>1 DEF PositionsAdded, Positioned
<1>3. pending[c].balances[a] \in BalanceRow
  BY <1>1 DEF LogInv, TypeOK, Writes
<1>4. pending[c].balances[a].tenant \in Tenant
  BY <1>3 DEF BalanceRow
<1> QED  BY <1>1, <1>2, <1>4, FundsReasons

\* Whatever else a call does is the posting, an answer, or nothing.
LEMMA StepMaps ==
    ASSUME LogInv, LogInv', HoldInv, WholeInv, BalanceInv, GateInv, LockInv, AtomicInv,
           NEW c \in Call, Post(c) \/ Fail(c)
    PROVE  Atomic!Post(c) \/ Atomic!Tell(c, answer'[c]) \/ UNCHANGED Atomic!vars
<1> DEFINE Kept == UNCHANGED <<accounts, periods, transactions, entries, balances, req>>
<1>0. /\ CallStep(c) /\ pc[c] \in Place \ {"idle", "done"}
  BY PostingIsUnderWay, GateSteps DEF CallStep, LogInv, TypeOK
<1>1. Kept /\ answer' = answer => UNCHANGED Atomic!vars
  BY MappedTables DEF Atomic!vars, Logs, Books, Booked
<1>2. CASE Begin(c) \/ IdempotencyGate(c) \/ CreatePeriod(c) \/ ReadSeq(c) \/ ReadPosition(c)
           \/ InsertOutbox(c)
  BY <1>1, <1>2 DEF Begin, IdempotencyGate, CreatePeriod, ReadSeq, ReadPosition, InsertOutbox,
                    NextTurn, Goto, tables
<1>3. CASE ResolveDuplicate(c)
  <2>1. PICK ans : EndWith(c, ans) /\ Kept
    BY <1>3 DEF ResolveDuplicate, tables
  <2>2. ans = answer'[c] /\ pc[c] = "resolve"
    BY <1>3, <2>1 DEF ResolveDuplicate, EndWith, LogInv, TypeOK
  <2>3. PICK d \in transactions :
           /\ SameKey(req[d], req[c])
           /\ \/ Payload(req[d]) = Payload(req[c]) /\ ans = Returned("duplicate", d)
              \/ Payload(req[d]) # Payload(req[c]) /\ ans = Refused("IDEMPOTENCY_CONFLICT")
    BY <1>3, <2>2, ResolveAnswers DEF GateInv
  <2>4. Payload(req[d]) # Payload(req[c]) => Atomic!Reason(c, "IDEMPOTENCY_CONFLICT")
    BY <2>3 DEF Atomic!Reason, Atomic!SameKey, SameKey
  <2> QED  BY <1>0, <2>1, <2>2, <2>3, <2>4, EndTells
<1>4. CASE LockPeriod(c)
  <2>1. pc[c] = "lockPeriod" /\ Kept
    BY <1>4 DEF LockPeriod, tables
  <2>2. CASE PeriodSeen(c) = "OPEN"
    BY <1>1, <1>4, <2>1, <2>2 DEF LockPeriod, Goto
  <2>3. CASE PeriodSeen(c) # "OPEN"
    <3>1. EndWith(c, Refused(IF PeriodSeen(c) = "ABSENT" THEN "PERIOD_NOT_FOUND" ELSE "PERIOD_NOT_OPEN"))
      BY <1>4, <2>3 DEF LockPeriod, Refuse
    <3> QED  BY <1>0, <2>1, <2>3, <3>1, PeriodReasons, EndTells
  <2> QED  BY <2>2, <2>3
<1>5. CASE LockAccount(c)
  <2>1. PICK a \in Account :
           /\ IsNext(c, a)
           /\ \/ AccountError(c, a) = "" /\ NextTurn(c, a, "lockAccounts", "readSeq")
              \/ AccountError(c, a) # "" /\ EndWith(c, Refused(AccountError(c, a)))
    BY <1>5 DEF LockAccount, Refuse
  <2>2. pc[c] = "lockAccounts" /\ Kept
    BY <1>5 DEF LockAccount, tables
  <2>3. CASE NextTurn(c, a, "lockAccounts", "readSeq")
    BY <1>1, <2>2, <2>3 DEF NextTurn, Goto
  <2>4. CASE AccountError(c, a) # "" /\ EndWith(c, Refused(AccountError(c, a)))
    BY <1>0, <2>1, <2>2, <2>4, AccountReasons, EndTells
  <2> QED  BY <2>1, <2>3, <2>4
<1>6. CASE InsertEntries(c)
  <2>1. pc[c] = "insertEntries" /\ Kept
    BY <1>6 DEF InsertEntries, tables
  <2>2. EndWith(c, Unknown) \/ answer' = answer
    BY <1>6 DEF InsertEntries, NextTurn, Goto
  <2> QED  BY <1>0, <1>1, <2>1, <2>2, EndTells
<1>7. CASE UpsertBalance(c)
  <2>1. PICK a \in Account :
           /\ IsNext(c, a)
           /\ \/ EndWith(c, Unknown)
              \/ /\ Overdrawn(AccountType[<<req[c].tenant, a>>], NewBalance(c, a).amount)
                 /\ EndWith(c, Refused("INSUFFICIENT_FUNDS"))
              \/ answer' = answer
    BY <1>7 DEF UpsertBalance, NextTurn, Goto, Refuse
  <2>2. pc[c] = "upsertBalance" /\ Kept
    BY <1>7 DEF UpsertBalance, tables
  <2>3. Overdrawn(AccountType[<<req[c].tenant, a>>], NewBalance(c, a).amount)
           => Atomic!Reason(c, "INSUFFICIENT_FUNDS")
    <3>1. a \in TouchedBy(c)
      BY <2>1, <2>2 DEF IsNext, LogInv, Asked, AskedOf, PastPeriodLock
    <3>2. NewBalance(c, a).amount = Booked(a) + Net(req[c], a) /\ req[c].tenant \in Tenant
      BY <1>0, <2>2, <3>1, UpsertAdds, UnderWay DEF LogInv
    <3> QED  BY <3>1, <3>2, FundsReasons
  <2> QED  BY <1>0, <1>1, <2>1, <2>2, <2>3, EndTells
<1>8. CASE Commit(c)
  <2>1. pc[c] = "commit" /\ req' = req /\ Balanced(c)
    BY <1>8, CommitIsBalanced DEF Commit, HoldInv, WholeInv, BalanceInv, AtomicInv
  <2>2. CASE Spendable(c)
    <3>1. Commits(c)
      BY <1>8, <2>1, <2>2 DEF Commit, Commits, Goto, LogInv, TypeOK
    <3> QED  BY <1>0, <3>1, CommitPosts
  <2>3. CASE ~Spendable(c)
    <3>1. EndWith(c, Refused("INSUFFICIENT_FUNDS")) /\ Kept
      BY <1>8, <2>1, <2>3 DEF Commit, Refuse
    <3>2. Atomic!Reason(c, "INSUFFICIENT_FUNDS")
      BY <2>1, <2>3, SpendableReasons DEF BalanceInv
    <3> QED  BY <1>0, <2>1, <3>1, <3>2, EndTells
  <2> QED  BY <2>2, <2>3
<1>9. CASE Reply(c)
  <2>1. pc[c] = "reply" /\ Kept /\ EndWith(c, Returned("posted", c))
    BY <1>9 DEF Reply, tables
  <2> QED  BY <1>0, <2>1, EndTells
<1>10. CASE Fail(c)
  <2>1. Kept /\ EndWith(c, Unknown)
    BY <1>10 DEF Fail, tables
  <2> QED  BY <1>0, <2>1, EndTells
<1> QED
  BY <1>2, <1>3, <1>4, <1>5, <1>6, <1>7, <1>8, <1>9, <1>10 DEF Post

\* An administrator changes one status in both.
LEMMA AdminMaps == Admin => Atomic!Administer
<1> SUFFICES ASSUME Admin PROVE Atomic!Administer
  OBVIOUS
<1>1. UNCHANGED <<transactions, entries, balances, req, answer>> /\ UNCHANGED <<Logs, Books>>
  BY AdminKeeps, MappedTables
<1>2. \/ /\ periods' = periods
         /\ \E t \in Tenant, a \in Account, s \in AccountStatus :
               accounts' = [accounts EXCEPT ![<<t, a>>] = s]
      \/ /\ accounts' = accounts
         /\ \E t \in Tenant, p \in Period, s \in PeriodStatus :
               periods' = [periods EXCEPT ![<<t, p>>] = s]
  BY InputAssumption
     DEF Admin, CreateAccount, SetAccountStatus, OpenPeriod, SetPeriodStatus, AccountStatus, PeriodStatus
<1>3. \A S, T : \A s \in S, t \in T : <<s, t>> \in S \X T
  OBVIOUS
<1> QED
  BY <1>1, <1>2, <1>3 DEF Atomic!Administer, AccountStatus, PeriodStatus, Logs, Books, Booked

\* However its statements interleave with those of other calls and of administrators, and
\* wherever it fails, a posting happens at one instant, its COMMIT, with all its effects,
\* or not at all, and whatever a caller is told is true when it is told (post.ts:78-246).
THEOREM PostingsAreAtomic == Spec => ImplementsAtomicLedger
<1>1. Init => Atomic!Init
  <2> SUFFICES ASSUME Init PROVE Atomic!Init
    OBVIOUS
  <2>1. \A a \in Account : LogOrder(a) = <<>>
    <3>1. \A a \in Account : LogOf(a) = {}
      BY DEF Init, LogOf
    <3>2. InOrder({}) \in Seq(Call \X Int) /\ Len(InOrder({})) = 0
      <4>1. NumberedTo({}, 0)
        BY DEF NumberedTo
      <4> QED  BY <4>1, OrderOfNumbered
    <3>3. InOrder({}) = <<>>
      BY <3>2, EmptySeq
    <3>4. \A a \in Account : LogOrder(a) = InOrder(LogOf(a))
      BY DEF LogOrder, EntryAt, InOrder
    <3> QED  BY <3>1, <3>3, <3>4
  <2>2. accounts \in [Tenant \X Account -> {"ABSENT", "ACTIVE", "FROZEN", "CLOSED"}]
    BY ChartAssumption DEF Init, AccountStatus
  <2> QED  BY <2>1, <2>2 DEF Init, Atomic!Init, Atomic!NoAnswer, NoAnswer
<1>2. /\ LogInv /\ HoldInv /\ WholeInv /\ BalanceInv /\ GateInv /\ LockInv /\ AtomicInv
      /\ [Next]_vars /\ LogInv'
      => [Atomic!Next]_(Atomic!vars)
  <2> SUFFICES ASSUME LogInv, HoldInv, WholeInv, BalanceInv, GateInv, LockInv, AtomicInv,
                      [Next]_vars, LogInv'
               PROVE  Atomic!Next \/ UNCHANGED Atomic!vars
    OBVIOUS
  <2>1. ASSUME NEW c \in Call, NEW r \in Request, Submit(c, r) PROVE Atomic!Next
    BY <2>1, SubmitAsks DEF Atomic!Next, AtomicInv
  <2>2. ASSUME NEW c \in Call, Post(c) \/ Fail(c) PROVE Atomic!Next \/ UNCHANGED Atomic!vars
    BY <2>2, StepMaps DEF Atomic!Next
  <2>3. CASE Admin
    BY <2>3, AdminMaps DEF Atomic!Next
  <2>4. CASE UNCHANGED vars
    <3>1. UNCHANGED <<Logs, Books>>
      BY <2>4, MappedTables DEF vars
    <3> QED  BY <2>4, <3>1 DEF vars, Atomic!vars, Logs, Books, Booked
  <2> QED  BY <2>1, <2>2, <2>3, <2>4 DEF Next
<1> QED
  BY <1>1, <1>2, LogAlways, HoldAlways, WholeAlways, BalanceAlways, GateAlways, LockAlways,
     AtomicAlways, PTL DEF Spec, ImplementsAtomicLedger, Atomic!Spec
=============================================================================
