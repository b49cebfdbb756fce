-------------------------- MODULE WritePath_proofs --------------------------
(***************************************************************************)
(* Theorems about the write path, for every set of calls, tenants,         *)
(* accounts and requests.                                                  *)
(*                                                                         *)
(* Two inductive invariants carry them.  LogInv is about the log: which    *)
(* rows a call has written at each place, and that what a call sees of an  *)
(* account's log is numbered without a gap.  GateInv is about the locks:   *)
(* whoever is past the gate owns its key, whoever is past a FOR UPDATE     *)
(* still sees the status it read.                                          *)
(***************************************************************************)
EXTENDS WritePath, NumberTheorems

(***************************************************************************)
(* The log.                                                                *)
(***************************************************************************)
\* The rows of S are numbered 1 to m.
NumberedTo(S, m) ==
    /\ \A e \in S : e.seq \in 1 .. m
    /\ \A n \in 1 .. m : \E e \in S : e.seq = n
    /\ \A e, f \in S : e.seq = f.seq => e = f
Numbered(S) == \E m \in Nat : NumberedTo(S, m)

\* What a call was asked for, and where a committed one can be.
AskedOf(c) ==
    /\ pc[c] \in Place \ {"idle", "done"} \/ c \in transactions => req[c] \in Request
    /\ c \in transactions => pc[c] \in {"reply", "done"}
    /\ pc[c] = "reply" => c \in transactions
    /\ pc[c] \in PastPeriodLock \ {"insertOutbox", "commit"} => todo[c] \subseteq TouchedBy(c)
Asked == \A c \in Call : AskedOf(c)

\* The entries a call has written at each place.
WrittenOf(c) ==
    /\ pc[c] \notin PastAccountLocks => pending[c].entries = {}
    /\ \A e \in pending[c].entries :
          /\ e.tx = c
          /\ pc[c] \in {"readSeq", "insertEntries"} => e.account \notin todo[c]
Written == \A c \in Call : WrittenOf(c)

CommittedRows == \A e \in entries : e.tx \in transactions

\* Whatever a call sees of a log is numbered without a gap, and only one call
\* at a time has uncommitted entries in it.
LogsNumbered ==
    /\ \A a \in Account : Numbered(LogOf(a))
    /\ \A c \in Call, a \in Account : Numbered(LogSeen(c, a))
    /\ \A c, d \in Call : \A e \in pending[c].entries, f \in pending[d].entries :
          e.account = f.account => c = d

\* The MAX(seq) a call has read is the seq of an entry that is still there.
BaseOf(c) ==
    \A a \in Account : pc[c] = "insertEntries" /\ IsNext(c, a) =>
        base[c] = 0 \/ \E e \in LogOf(a) : e.seq = base[c]
BaseInLog == \A c \in Call : BaseOf(c)

LogInv == TypeOK /\ Asked /\ Written /\ CommittedRows /\ LogsNumbered /\ BaseInLog

(***************************************************************************)
(* The gate and the locks.                                                 *)
(***************************************************************************)
\* c's row of ledger_transaction exists, committed or not.
Claims(c) == pc[c] \in PastGate \/ c \in transactions

OneClaim == \A c, d \in Call : Claims(c) /\ Claims(d) /\ SameKey(req[c], req[d]) => c = d

ResolveFinds == \A c \in Call : pc[c] = "resolve" => KeyRow(c) # {}

AnsweredLast == \A c \in Call : pc[c] # "done" => answer[c] = NoAnswer

PeriodStaysOpen == \A c \in Call : pc[c] \in PastPeriodLock => PeriodSeen(c) = "OPEN"

AccountsStayActive ==
    \A c \in Call, a \in Account :
        pc[c] \in PastPeriodLock /\ HoldsAccount(c, req[c].tenant, a) =>
            accounts[<<req[c].tenant, a>>] = "ACTIVE"

GateInv ==
    OneClaim /\ ResolveFinds /\ AnsweredLast /\ IdempotencyOnce /\ ConflictIsReal
LockInv == PeriodStaysOpen /\ AccountsStayActive

-----------------------------------------------------------------------------
(***************************************************************************)
(* Lemmas about the operators of the model.                                *)
(***************************************************************************)
\* assertRequestValid gives one of three answers.
LEMMA ValidationErrors ==
    \A r : ValidationError(r) \in {"", "VALIDATION_FAILED", "UNBALANCED_ENTRY"}
BY DEF ValidationError

\* The check of an account gives one of four answers.
LEMMA AccountErrors ==
    ASSUME NEW c, NEW a
    PROVE  AccountError(c, a) \in {"", "ACCOUNT_NOT_FOUND", "ACCOUNT_NOT_ACTIVE", "CURRENCY_MISMATCH"}
BY DEF AccountError

\* With none of its errors, the account is ACTIVE.
LEMMA NoAccountError ==
    ASSUME NEW c, NEW a, AccountError(c, a) = ""
    PROVE  accounts[<<req[c].tenant, a>>] = "ACTIVE"
BY DEF AccountError

\* COALESCE(MAX(seq), 0) of a numbered log is its last number.
LEMMA HighestOfNumbered ==
    ASSUME NEW S, NEW m \in Nat, NumberedTo(S, m)
    PROVE  HighestSeq(S) = m
<1> DEFINE T == {e.seq : e \in S}
<1>1. CASE S = {}
  <2>1. m = 0  BY <1>1 DEF NumberedTo
  <2> QED  BY <1>1, <2>1 DEF HighestSeq
<1>2. CASE S # {}
  <2>1. m \in T /\ \A x \in T : x \in 1 .. m
    BY <1>2 DEF NumberedTo
  <2>2. \A x \in T : (\A y \in T : x >= y) => x = m
    BY <2>1
  <2>3. m \in T /\ \A y \in T : m >= y
    BY <2>1
  <2>4. Max(T) = m
    BY <2>2, <2>3 DEF Max
  <2> QED  BY <1>2, <2>4 DEF HighestSeq
<1> QED  BY <1>1, <1>2

\* The smallest account of a loop is one account.
LEMMA OneNext ==
    ASSUME NEW c, todo[c] \subseteq Account, NEW a, NEW b, IsNext(c, a), IsNext(c, b)
    PROVE  a = b
<1>1. a \in Nat /\ b \in Nat
  BY AccountAssumption DEF IsNext
<1>2. a <= b /\ b <= a
  BY DEF IsNext
<1> QED  BY <1>1, <1>2

\* The initial states have the types.
LEMMA TypeInit == Init => TypeOK
<1> SUFFICES ASSUME Init PROVE TypeOK
  OBVIOUS
<1>1. accounts \in [Tenant \X Account -> AccountStatus \cup {"ABSENT"}]
  BY ChartAssumption DEF Init
<1>2. periods \in [Tenant \X Period -> PeriodStatus \cup {"ABSENT"}]
  BY DEF Init
<1>3. transactions \subseteq Call /\ entries \subseteq Entry
      /\ outbox \subseteq [event : Nat, tx : Call] /\ nextEvent \in Nat
  BY DEF Init
<1>4. balances \in [Account -> BalanceRow \cup {None}]
  BY DEF Init
<1>5. pc \in [Call -> Place]
  BY DEF Init, Place
<1>6. req \in [Call -> Request \cup {None}] /\ todo \in [Call -> SUBSET Account]
      /\ base \in [Call -> Nat]
  BY DEF Init
<1>7. NoWrites \in Writes
  BY DEF NoWrites, Writes
<1>8. NoAnswer \in Answer
  BY DEF NoAnswer, Answer, Code
<1>9. pending \in [Call -> Writes] /\ answer \in [Call -> Answer]
  BY <1>7, <1>8 DEF Init
<1> QED  BY <1>1, <1>2, <1>3, <1>4, <1>5, <1>6, <1>9 DEF TypeOK

\* Answers are answers.
LEMMA AnswerTypes ==
    ASSUME NEW code \in Code, NEW d \in Call
    PROVE  /\ Refused(code) \in Answer /\ Unknown \in Answer
           /\ Returned("posted", d) \in Answer /\ Returned("duplicate", d) \in Answer
<1>1. Refused(code) \in Answer  BY DEF Refused, Answer, Code
<1>2. Unknown \in Answer  BY DEF Unknown, Answer, Code
<1>3. Returned("posted", d) \in Answer  BY DEF Returned, Answer, Code
<1>4. Returned("duplicate", d) \in Answer  BY DEF Returned, Answer, Code
<1> QED  BY <1>1, <1>2, <1>3, <1>4

\* So is a transaction that has written nothing.
LEMMA NoWritesType == NoWrites \in Writes
BY DEF NoWrites, Writes

\* The ways a call goes on or ends keep the types.
LEMMA GotoType ==
    ASSUME TypeOK, NEW c \in Call, NEW p \in Place, Goto(c, p)
    PROVE  pc' \in [Call -> Place] /\ answer' \in [Call -> Answer]
BY DEF TypeOK, Goto

\* So does ending.
LEMMA EndWithType ==
    ASSUME TypeOK, NEW c \in Call, NEW ans \in Answer, EndWith(c, ans)
    PROVE  /\ pc' \in [Call -> Place] /\ answer' \in [Call -> Answer]
           /\ pending' \in [Call -> Writes]
BY NoWritesType DEF TypeOK, EndWith, Place

\* So does leaving an account.
LEMMA NextTurnType ==
    ASSUME TypeOK, NEW c \in Call, NEW a, NEW stay \in Place, NEW p \in Place,
           NextTurn(c, a, stay, p), TouchedBy(c) \subseteq Account
    PROVE  /\ pc' \in [Call -> Place] /\ answer' \in [Call -> Answer]
           /\ todo' \in [Call -> SUBSET Account]
<1>1. pc' \in [Call -> Place]
  BY DEF TypeOK, Goto, NextTurn
<1>2. answer' \in [Call -> Answer]
  BY DEF TypeOK, Goto, NextTurn
<1>3. todo[c] \in SUBSET Account
  BY DEF TypeOK
<1>4. todo' \in [Call -> SUBSET Account]
  BY <1>3 DEF TypeOK, NextTurn
<1> QED  BY <1>1, <1>2, <1>4

\* A call that has been made was asked a request.
LEMMA AskedRequest ==
    ASSUME TypeOK, Asked, NEW c \in Call, pc[c] \in Place \ {"idle", "done"}
    PROVE  /\ req[c] \in Request /\ RequestType(req[c])
           /\ TouchedBy(c) \subseteq Account /\ req[c].tenant \in Tenant
           /\ PostingPeriod(req[c]) \in Period
<1>1. req[c] \in Request
  BY DEF Asked, AskedOf
<1>2. RequestType(req[c])
  BY <1>1, RequestAssumption
<1> QED  BY <1>1, <1>2, PeriodAssumption DEF RequestType, TouchedBy, PostingPeriod

\* The rows a call inserts for an account are rows of the log.
LEMMA EntriesType ==
    ASSUME TypeOK, Asked, NEW c \in Call, pc[c] \in Place \ {"idle", "done"},
           NEW a \in TouchedBy(c), NEW m \in Nat
    PROVE  /\ EntriesAt(c, a, m) \subseteq Entry
           /\ \A e \in EntriesAt(c, a, m) : e.account = a /\ e.tx = c
<1>1. a \in Account /\ a \in DOMAIN req[c].legs /\ req[c].tenant \in Tenant
      /\ req[c].legs[a] \in Seq(Int)
  BY AskedRequest DEF RequestType, TouchedBy
<1>2. \A i \in DOMAIN req[c].legs[a] : req[c].legs[a][i] \in Int /\ i \in Nat \ {0}
  BY <1>1
<1>3. \A i \in DOMAIN req[c].legs[a] : m + i \in Nat \ {0}
  BY <1>2
<1> QED  BY <1>1, <1>2, <1>3 DEF EntriesAt, Entry

\* What a request adds to a balance is an integer.
LEMMA NetType ==
    ASSUME NEW r, RequestType(r), NEW a \in DOMAIN r.legs
    PROVE  Net(r, a) \in Int
<1> DEFINE lines == r.legs[a]
<1>1. lines \in Seq(Int)
  BY DEF RequestType
<1>2. IsFiniteSet(DOMAIN lines)
  <2>1. Len(lines) \in Nat /\ DOMAIN lines = 1 .. Len(lines)
    BY <1>1
  <2> QED  BY <2>1, FS_Interval
<1>3. Integral(lines, DOMAIN lines)
  BY <1>1 DEF Integral
<1>4. Net(r, a) = SumOver(lines, DOMAIN lines)
  BY <1>2, LibrarySum DEF Net
<1> QED  BY <1>2, <1>3, <1>4, SumType

\* The balance row an upsert writes is one.
LEMMA BalanceType ==
    ASSUME TypeOK, Asked, NEW c \in Call, pc[c] \in Place \ {"idle", "done"},
           NEW a \in TouchedBy(c)
    PROVE  NewBalance(c, a) \in BalanceRow
<1>1. a \in Account /\ req[c].tenant \in Tenant /\ Net(req[c], a) \in Int
  <2>1. RequestType(req[c]) /\ a \in DOMAIN req[c].legs
    BY AskedRequest DEF TouchedBy
  <2> QED  BY <2>1, NetType DEF RequestType
<1>2. base[c] \in Nat /\ balances[a] \in BalanceRow \cup {None}
  BY <1>1 DEF TypeOK
<1>3. CASE balances[a] = None
  BY <1>1, <1>2, <1>3 DEF NewBalance, BalanceRow
<1>4. CASE balances[a] # None
  <2>1. balances[a].tenant \in Tenant /\ balances[a].amount \in Int
    BY <1>2, <1>4 DEF BalanceRow
  <2> QED  BY <1>1, <1>2, <1>4, <2>1 DEF NewBalance, BalanceRow
<1> QED  BY <1>3, <1>4

\* The MAX(seq) a call reads is a natural number.
LEMMA HighestType ==
    ASSUME LogsNumbered, NEW c \in Call, NEW a \in Account
    PROVE  HighestSeq(LogSeen(c, a)) \in Nat
BY HighestOfNumbered DEF LogsNumbered, Numbered

\* Every step keeps the types.
LEMMA TypeNext == LogInv /\ [Next]_vars => TypeOK'
<1> SUFFICES ASSUME LogInv, [Next]_vars PROVE TypeOK'
  OBVIOUS
<1> USE DEF LogInv
<1>1. ASSUME NEW c \in Call, NEW r \in Request, Submit(c, r) PROVE TypeOK'
  <2>1. pc' \in [Call -> Place]
    <3>1. PICK p \in {"begin", "done"} : pc' = [pc EXCEPT ![c] = p]
      BY <1>1 DEF Submit, Goto
    <3>2. p \in Place
      BY DEF Place
    <3> QED  BY <3>1, <3>2 DEF TypeOK
  <2>2. answer' \in [Call -> Answer]
    <3>1. Refused(ValidationError(r)) \in Answer
      BY AnswerTypes, ValidationErrors DEF Code
    <3> QED  BY <1>1, <3>1 DEF TypeOK, Submit, Goto
  <2> QED  BY <1>1, <2>1, <2>2 DEF TypeOK, Submit, tables
<1>2. ASSUME NEW c \in Call, Begin(c) PROVE TypeOK'
  <2>1. pc' \in [Call -> Place] /\ answer' \in [Call -> Answer]
    BY <1>2, GotoType DEF Begin, Place, InTransaction
  <2> QED  BY <1>2, <2>1 DEF TypeOK, Begin, tables
<1>3. ASSUME NEW c \in Call, IdempotencyGate(c) PROVE TypeOK'
  <2>1. pc' \in [Call -> Place] /\ answer' \in [Call -> Answer]
    BY <1>3, GotoType DEF IdempotencyGate, Place, InTransaction
  <2> QED  BY <1>3, <2>1 DEF TypeOK, IdempotencyGate, tables
<1>4. ASSUME NEW c \in Call, ResolveDuplicate(c) PROVE TypeOK'
  <2>1. \A d \in Call : Returned("duplicate", d) \in Answer
    BY AnswerTypes DEF Code
  <2>2. Refused("IDEMPOTENCY_CONFLICT") \in Answer
    BY AnswerTypes DEF Code
  <2>3. (\E d \in KeyRow(c) : Payload(req[d]) = Payload(req[c]))
           => (CHOOSE d \in KeyRow(c) : TRUE) \in Call
    BY DEF KeyRow, TypeOK
  <2>4. PICK ans \in Answer : EndWith(c, ans)
    BY <1>4, <2>1, <2>2, <2>3 DEF ResolveDuplicate
  <2>5. pc' \in [Call -> Place] /\ answer' \in [Call -> Answer] /\ pending' \in [Call -> Writes]
    BY <2>4, EndWithType
  <2> QED  BY <1>4, <2>5 DEF TypeOK, ResolveDuplicate, tables
<1>5. ASSUME NEW c \in Call, CreatePeriod(c) PROVE TypeOK'
  <2>1. pc' \in [Call -> Place] /\ answer' \in [Call -> Answer]
    BY <1>5, GotoType DEF CreatePeriod, Place, InTransaction
  <2>2. req[c].auto \in BOOLEAN
    BY <1>5, AskedRequest DEF CreatePeriod, Place, InTransaction, RequestType
  <2>3. pending[c] \in Writes
    BY DEF TypeOK
  <2>4. [pending[c] EXCEPT !.period = req[c].auto
            /\ periods[<<req[c].tenant, PostingPeriod(req[c])>>] = "ABSENT"] \in Writes
    BY <2>2, <2>3 DEF Writes
  <2>5. pending' \in [Call -> Writes]
    BY <1>5, <2>4 DEF TypeOK, CreatePeriod
  <2> QED  BY <1>5, <2>1, <2>5 DEF TypeOK, CreatePeriod, tables
<1>6. ASSUME NEW c \in Call, LockPeriod(c) PROVE TypeOK'
  <2>1. TouchedBy(c) \subseteq Account
    BY <1>6, AskedRequest DEF LockPeriod, Place, InTransaction
  <2>2. CASE PeriodSeen(c) = "OPEN"
    <3>1. pc' \in [Call -> Place] /\ answer' \in [Call -> Answer]
      BY <1>6, <2>2, GotoType DEF LockPeriod, Place, InTransaction
    <3>2. todo' \in [Call -> SUBSET Account]
      BY <1>6, <2>1, <2>2 DEF TypeOK, LockPeriod
    <3> QED  BY <1>6, <2>2, <3>1, <3>2 DEF TypeOK, LockPeriod, tables
  <2>3. CASE PeriodSeen(c) # "OPEN"
    <3>1. PICK ans \in Answer : EndWith(c, ans)
      BY <1>6, <2>3, AnswerTypes DEF LockPeriod, Refuse, Code
    <3>2. pc' \in [Call -> Place] /\ answer' \in [Call -> Answer] /\ pending' \in [Call -> Writes]
      BY <3>1, EndWithType
    <3> QED  BY <1>6, <2>3, <3>2 DEF TypeOK, LockPeriod, tables
  <2> QED  BY <2>2, <2>3
<1>7. ASSUME NEW c \in Call, LockAccount(c) PROVE TypeOK'
  <2>1. TouchedBy(c) \subseteq Account
    BY <1>7, AskedRequest DEF LockAccount, Place, InTransaction
  <2>2. PICK a \in Account :
           IF AccountError(c, a) = ""
           THEN NextTurn(c, a, "lockAccounts", "readSeq") /\ UNCHANGED pending
           ELSE Refuse(c, AccountError(c, a)) /\ UNCHANGED todo
    BY <1>7 DEF LockAccount
  <2>3. CASE AccountError(c, a) = ""
    <3>1. pc' \in [Call -> Place] /\ answer' \in [Call -> Answer] /\ todo' \in [Call -> SUBSET Account]
      BY <2>1, <2>2, <2>3, NextTurnType DEF Place, InTransaction
    <3> QED  BY <1>7, <2>2, <2>3, <3>1 DEF TypeOK, LockAccount, tables
  <2>4. CASE AccountError(c, a) # ""
    <3>1. Refused(AccountError(c, a)) \in Answer
      BY AnswerTypes, AccountErrors DEF Code
    <3>2. pc' \in [Call -> Place] /\ answer' \in [Call -> Answer] /\ pending' \in [Call -> Writes]
      BY <2>2, <2>4, <3>1, EndWithType DEF Refuse
    <3> QED  BY <1>7, <2>2, <2>4, <3>2 DEF TypeOK, LockAccount, tables
  <2> QED  BY <2>3, <2>4
<1>8. ASSUME NEW c \in Call, ReadSeq(c) PROVE TypeOK'
  <2>1. pc' \in [Call -> Place] /\ answer' \in [Call -> Answer]
    BY <1>8, GotoType DEF ReadSeq, Place, InTransaction
  <2>2. base' \in [Call -> Nat]
    BY <1>8, HighestType DEF TypeOK, ReadSeq
  <2> QED  BY <1>8, <2>1, <2>2 DEF TypeOK, ReadSeq, tables
<1>9. ASSUME NEW c \in Call, InsertEntries(c) PROVE TypeOK'
  <2>1. TouchedBy(c) \subseteq Account
    BY <1>9, AskedRequest DEF InsertEntries, Place, InTransaction
  <2>2. PICK a \in Account :
           /\ IsNext(c, a)
           /\ IF Collides(NewEntries(c, a), entries)
              THEN EndWith(c, Unknown) /\ UNCHANGED todo
              ELSE /\ pending' = [pending EXCEPT ![c].entries = @ \cup NewEntries(c, a)]
                   /\ NextTurn(c, a, "readSeq", "readPosition")
    BY <1>9 DEF InsertEntries
  <2>3. CASE Collides(NewEntries(c, a), entries)
    <3>1. pc' \in [Call -> Place] /\ answer' \in [Call -> Answer] /\ pending' \in [Call -> Writes]
      BY <2>2, <2>3, AnswerTypes, EndWithType DEF Code
    <3> QED  BY <1>9, <2>2, <2>3, <3>1 DEF TypeOK, InsertEntries, tables
  <2>4. CASE ~Collides(NewEntries(c, a), entries)
    <3>1. pc' \in [Call -> Place] /\ answer' \in [Call -> Answer] /\ todo' \in [Call -> SUBSET Account]
      BY <2>1, <2>2, <2>4, NextTurnType DEF Place, InTransaction
    <3>2. a \in TouchedBy(c) /\ base[c] \in Nat
      BY <1>9, <2>2 DEF Asked, AskedOf, TypeOK, InsertEntries, IsNext, PastPeriodLock
    <3>3. NewEntries(c, a) \subseteq Entry
      BY <1>9, <3>2, EntriesType DEF NewEntries, InsertEntries, Place, InTransaction
    <3>4. pending[c] \in Writes
      BY DEF TypeOK
    <3>5. [pending[c] EXCEPT !.entries = @ \cup NewEntries(c, a)] \in Writes
      BY <3>3, <3>4 DEF Writes
    <3>6. pending' \in [Call -> Writes]
      BY <2>2, <2>4, <3>5 DEF TypeOK
    <3> QED  BY <1>9, <3>1, <3>6 DEF TypeOK, InsertEntries, tables
  <2> QED  BY <2>3, <2>4
<1>10. ASSUME NEW c \in Call, ReadPosition(c) PROVE TypeOK'
  <2>1. TouchedBy(c) \subseteq Account
    BY <1>10, AskedRequest DEF ReadPosition, Place, InTransaction
  <2>2. PICK a \in Account :
           IF Net(req[c], a) = 0
           THEN NextTurn(c, a, "readPosition", "insertOutbox") /\ UNCHANGED base
           ELSE /\ base' = [base EXCEPT ![c] = HighestSeq(LogSeen(c, a))]
                /\ Goto(c, "upsertBalance") /\ UNCHANGED todo
    BY <1>10 DEF ReadPosition
  <2>3. CASE Net(req[c], a) = 0
    <3>1. pc' \in [Call -> Place] /\ answer' \in [Call -> Answer] /\ todo' \in [Call -> SUBSET Account]
      BY <2>1, <2>2, <2>3, NextTurnType DEF Place, InTransaction
    <3> QED  BY <1>10, <2>2, <2>3, <3>1 DEF TypeOK, ReadPosition, tables
  <2>4. CASE Net(req[c], a) # 0
    <3>1. pc' \in [Call -> Place] /\ answer' \in [Call -> Answer]
      BY <2>2, <2>4, GotoType DEF Place, InTransaction
    <3>2. base' \in [Call -> Nat]
      BY <2>2, <2>4, HighestType DEF TypeOK
    <3> QED  BY <1>10, <2>2, <2>4, <3>1, <3>2 DEF TypeOK, ReadPosition, tables
  <2> QED  BY <2>3, <2>4
<1>11. ASSUME NEW c \in Call, UpsertBalance(c) PROVE TypeOK'
  <2>1. TouchedBy(c) \subseteq Account
    BY <1>11, AskedRequest DEF UpsertBalance, Place, InTransaction
  <2>2. PICK a \in Account :
           /\ IsNext(c, a)
           /\ \/ EndWith(c, Unknown) /\ UNCHANGED todo
              \/ Refuse(c, "INSUFFICIENT_FUNDS") /\ UNCHANGED todo
              \/ /\ pending' = [pending EXCEPT ![c].balances[a] = NewBalance(c, a)]
                 /\ NextTurn(c, a, "readPosition", "insertOutbox")
    BY <1>11 DEF UpsertBalance
  <2>3. CASE (EndWith(c, Unknown) \/ Refuse(c, "INSUFFICIENT_FUNDS")) /\ UNCHANGED todo
    <3>1. Refused("INSUFFICIENT_FUNDS") \in Answer /\ Unknown \in Answer
      BY AnswerTypes DEF Code
    <3>2. pc' \in [Call -> Place] /\ answer' \in [Call -> Answer] /\ pending' \in [Call -> Writes]
      BY <2>3, <3>1, EndWithType DEF Refuse
    <3> QED  BY <1>11, <2>3, <3>2 DEF TypeOK, UpsertBalance, tables
  <2>4. CASE /\ pending' = [pending EXCEPT ![c].balances[a] = NewBalance(c, a)]
             /\ NextTurn(c, a, "readPosition", "insertOutbox")
    <3>1. pc' \in [Call -> Place] /\ answer' \in [Call -> Answer] /\ todo' \in [Call -> SUBSET Account]
      BY <2>1, <2>2, <2>4, NextTurnType DEF Place, InTransaction
    <3>2. a \in TouchedBy(c)
      BY <1>11, <2>2 DEF Asked, AskedOf, UpsertBalance, IsNext, PastPeriodLock
    <3>3. NewBalance(c, a) \in BalanceRow
      BY <1>11, <3>2, BalanceType DEF UpsertBalance, Place, InTransaction
    <3>4. pending[c] \in Writes
      BY DEF TypeOK
    <3>5. [pending[c] EXCEPT !.balances[a] = NewBalance(c, a)] \in Writes
      BY <3>3, <3>4 DEF Writes
    <3>6. pending' \in [Call -> Writes]
      BY <2>2, <2>4, <3>5 DEF TypeOK
    <3> QED  BY <1>11, <3>1, <3>6 DEF TypeOK, UpsertBalance, tables
  <2> QED  BY <2>2, <2>3, <2>4
<1>12. ASSUME NEW c \in Call, InsertOutbox(c) PROVE TypeOK'
  <2>1. pc' \in [Call -> Place] /\ answer' \in [Call -> Answer]
    BY <1>12, GotoType DEF InsertOutbox, Place, InTransaction
  <2>2. nextEvent' \in Nat
    BY <1>12 DEF TypeOK, InsertOutbox
  <2>3. [pending[c] EXCEPT !.event = nextEvent] \in Writes
    <3>1. pending[c] \in Writes /\ nextEvent \in Nat
      BY DEF TypeOK
    <3> QED  BY <3>1 DEF Writes
  <2>4. pending' \in [Call -> Writes]
    BY <1>12, <2>3 DEF TypeOK, InsertOutbox
  <2> QED  BY <1>12, <2>1, <2>2, <2>4 DEF TypeOK, InsertOutbox, tables
<1>13. ASSUME NEW c \in Call, Commit(c) PROVE TypeOK'
  <2>1. CASE Balanced(c) /\ Spendable(c)
    <3>1. pc' \in [Call -> Place] /\ answer' \in [Call -> Answer]
      BY <1>13, <2>1, GotoType DEF Commit, Place, InTransaction
    <3>2. pending[c] \in Writes
      BY DEF TypeOK
    <3>3. transactions' \subseteq Call /\ entries' \subseteq Entry
      BY <1>13, <2>1, <3>2 DEF TypeOK, Commit, Writes
    <3>4. outbox' \subseteq [event : Nat, tx : Call]
      BY <1>13, <2>1, <3>2 DEF TypeOK, Commit, Writes
    <3>5. balances' \in [Account -> BalanceRow \cup {None}]
      <4>1. pending[c].balances \in [Account -> BalanceRow \cup {None}]
        BY <3>2 DEF Writes
      <4>2. balances' = [a \in Account |-> IF pending[c].balances[a] = None
                                          THEN balances[a] ELSE pending[c].balances[a]]
        BY <1>13, <2>1 DEF Commit
      <4>3. \A a \in Account : balances[a] \in BalanceRow \cup {None}
        BY DEF TypeOK
      <4> QED  BY <4>1, <4>2, <4>3
    <3>6. periods' \in [Tenant \X Period -> PeriodStatus \cup {"ABSENT"}]
      BY <1>13, <2>1 DEF TypeOK, Commit, PeriodStatus
    <3>7. pending' \in [Call -> Writes]
      BY <1>13, <2>1, NoWritesType DEF TypeOK, Commit
    <3> QED  BY <1>13, <3>1, <3>3, <3>4, <3>5, <3>6, <3>7 DEF TypeOK, Commit
  <2>2. CASE ~(Balanced(c) /\ Spendable(c))
    <3>1. PICK ans \in Answer : EndWith(c, ans)
      BY <1>13, <2>2, AnswerTypes DEF Commit, Refuse, Code
    <3>2. pc' \in [Call -> Place] /\ answer' \in [Call -> Answer] /\ pending' \in [Call -> Writes]
      BY <3>1, EndWithType
    <3> QED  BY <1>13, <2>2, <3>2 DEF TypeOK, Commit
  <2> QED  BY <2>1, <2>2
<1>14. ASSUME NEW c \in Call, Reply(c) PROVE TypeOK'
  <2>1. Returned("posted", c) \in Answer
    BY AnswerTypes DEF Code
  <2>2. pc' \in [Call -> Place] /\ answer' \in [Call -> Answer] /\ pending' \in [Call -> Writes]
    BY <1>14, <2>1, EndWithType DEF Reply
  <2> QED  BY <1>14, <2>2 DEF TypeOK, Reply, tables
<1>15. ASSUME NEW c \in Call, Fail(c) PROVE TypeOK'
  <2>1. Unknown \in Answer
    BY <1>15, AnswerTypes DEF Code
  <2>2. pc' \in [Call -> Place] /\ answer' \in [Call -> Answer] /\ pending' \in [Call -> Writes]
    BY <1>15, <2>1, EndWithType DEF Fail
  <2> QED  BY <1>15, <2>2 DEF TypeOK, Fail, tables
<1>16. ASSUME NEW t \in Tenant, NEW a \in Account, CreateAccount(t, a) PROVE TypeOK'
  BY <1>16 DEF TypeOK, CreateAccount, AdminUnchanged, AccountStatus
<1>17. ASSUME NEW t \in Tenant, NEW a \in Account, NEW s \in AccountInput, SetAccountStatus(t, a, s)
       PROVE TypeOK'
  BY <1>17, InputAssumption DEF TypeOK, SetAccountStatus, AdminUnchanged
<1>18. ASSUME NEW t \in Tenant, NEW p \in Period, OpenPeriod(t, p) PROVE TypeOK'
  BY <1>18 DEF TypeOK, OpenPeriod, AdminUnchanged, PeriodStatus
<1>19. ASSUME NEW t \in Tenant, NEW p \in Period, NEW s \in PeriodInput, SetPeriodStatus(t, p, s)
       PROVE TypeOK'
  BY <1>19, InputAssumption DEF TypeOK, SetPeriodStatus, AdminUnchanged
<1>20. CASE UNCHANGED vars
  BY <1>20 DEF TypeOK, vars
<1> QED
  BY <1>1, <1>2, <1>3, <1>4, <1>5, <1>6, <1>7, <1>8, <1>9, <1>10, <1>11, <1>12, <1>13,
     <1>14, <1>15, <1>16, <1>17, <1>18, <1>19, <1>20 DEF Next, Post, Admin

\* The steps of a call.
CallStep(c) == (\E r \in Request : Submit(c, r)) \/ Post(c) \/ Fail(c)

\* What Submit does to the call.
LEMMA SubmitEffect ==
    ASSUME TypeOK, NEW c \in Call, NEW r \in Request, Submit(c, r)
    PROVE  /\ pc[c] = "idle" /\ req' = [req EXCEPT ![c] = r]
           /\ \E p \in {"begin", "done"} : pc' = [pc EXCEPT ![c] = p]
           /\ \/ answer' = answer /\ pc'[c] = "begin"
              \/ answer' = [answer EXCEPT ![c] = Refused(ValidationError(r))] /\ pc'[c] = "done"
           /\ UNCHANGED <<tables, nextEvent, todo, base, pending>>
BY DEF Submit, Goto, TypeOK

\* The step of a call leaves the other calls where they are.
LEMMA OthersKeep ==
    ASSUME TypeOK, NEW c \in Call, CallStep(c), NEW d \in Call \ {c}
    PROVE  /\ pc'[d] = pc[d] /\ req'[d] = req[d] /\ todo'[d] = todo[d] /\ base'[d] = base[d]
           /\ pending'[d] = pending[d] /\ answer'[d] = answer[d]
           /\ (d \in transactions' <=> d \in transactions)
<1> DEFINE Kept == /\ pc'[d] = pc[d] /\ req'[d] = req[d] /\ todo'[d] = todo[d] /\ base'[d] = base[d]
                   /\ pending'[d] = pending[d] /\ answer'[d] = answer[d]
                   /\ (d \in transactions' <=> d \in transactions)
<1> USE DEF TypeOK, tables, Goto, EndWith, Refuse, NextTurn
<1>1. CASE \E r \in Request : Submit(c, r)  BY <1>1, SubmitEffect
<1>2. CASE Begin(c)  BY <1>2 DEF Begin
<1>3. CASE IdempotencyGate(c)  BY <1>3 DEF IdempotencyGate
<1>4. CASE ResolveDuplicate(c)  BY <1>4 DEF ResolveDuplicate
<1>5. CASE CreatePeriod(c)  BY <1>5 DEF CreatePeriod
<1>6. CASE LockPeriod(c)  BY <1>6 DEF LockPeriod
<1>7. CASE LockAccount(c)  BY <1>7 DEF LockAccount
<1>8. CASE ReadSeq(c)  BY <1>8 DEF ReadSeq
<1>9. CASE InsertEntries(c)  BY <1>9 DEF InsertEntries
<1>10. CASE ReadPosition(c)  BY <1>10 DEF ReadPosition
<1>11. CASE UpsertBalance(c)  BY <1>11 DEF UpsertBalance
<1>12. CASE InsertOutbox(c)  BY <1>12 DEF InsertOutbox
<1>13. CASE Commit(c)  BY <1>13 DEF Commit
<1>14. CASE Reply(c)  BY <1>14 DEF Reply
<1>15. CASE Fail(c)  BY <1>15 DEF Fail
<1> QED
  BY <1>1, <1>2, <1>3, <1>4, <1>5, <1>6, <1>7, <1>8, <1>9, <1>10, <1>11, <1>12, <1>13,
     <1>14, <1>15 DEF CallStep, Post

\* An administrator's statement leaves all calls and the log where they are.
LEMMA AdminKeeps ==
    ASSUME Admin
    PROVE  UNCHANGED <<transactions, entries, balances, outbox, nextEvent,
                       pc, req, todo, base, pending, answer>>
BY DEF Admin, CreateAccount, SetAccountStatus, OpenPeriod, SetPeriodStatus, AdminUnchanged

\* A step is one of a call, an administrator's, or none.
LEMMA StepKinds ==
    [Next]_vars => (\E c \in Call : CallStep(c)) \/ Admin \/ UNCHANGED vars
BY DEF Next, CallStep

\* Every step keeps Asked.
LEMMA AskedNext == LogInv /\ [Next]_vars => Asked'
<1> SUFFICES ASSUME LogInv, [Next]_vars PROVE Asked'
  OBVIOUS
<1>1. ASSUME NEW c \in Call, CallStep(c) PROVE Asked'
  <2>1. \A d \in Call \ {c} : AskedOf(d)'
    BY <1>1, OthersKeep DEF LogInv, Asked, AskedOf, TouchedBy
  <2>2. AskedOf(c)'
    <3> USE DEF LogInv, TypeOK, Asked, AskedOf, TouchedBy, tables, Place, InTransaction, PastPeriodLock,
                Goto, EndWith, Refuse, NextTurn
    <3>1. CASE \E r \in Request : Submit(c, r)  BY <3>1, SubmitEffect
    <3>2. CASE Begin(c)  BY <3>2 DEF Begin
    <3>3. CASE IdempotencyGate(c)  BY <3>3 DEF IdempotencyGate
    <3>4. CASE ResolveDuplicate(c)  BY <3>4 DEF ResolveDuplicate
    <3>5. CASE CreatePeriod(c)  BY <3>5 DEF CreatePeriod
    <3>6. CASE LockPeriod(c)  BY <3>6 DEF LockPeriod
    <3>7. CASE LockAccount(c)
      <4>1. PICK a \in Account :
               NextTurn(c, a, "lockAccounts", "readSeq") \/ Refuse(c, AccountError(c, a))
        BY <3>7 DEF LockAccount
      <4>2. pc[c] = "lockAccounts" /\ UNCHANGED <<transactions, req>>
        BY <3>7 DEF LockAccount
      <4>3. CASE NextTurn(c, a, "lockAccounts", "readSeq")
        <5>1. CASE todo[c] = {a}  BY <4>2, <4>3, <5>1
        <5>2. CASE todo[c] # {a}
          <6>1. todo[c] \subseteq TouchedBy(c) /\ req[c] \in Request /\ c \notin transactions
            BY <4>2
          <6>2. todo'[c] = todo[c] \ {a} /\ pc'[c] = "lockAccounts"
            BY <4>3, <5>2
          <6> QED  BY <4>2, <6>1, <6>2
        <5> QED  BY <5>1, <5>2
      <4>4. CASE Refuse(c, AccountError(c, a))  BY <4>2, <4>4
      <4> QED  BY <4>1, <4>3, <4>4
    <3>8. CASE ReadSeq(c)  BY <3>8 DEF ReadSeq
    <3>9. CASE InsertEntries(c)  BY <3>9 DEF InsertEntries
    <3>10. CASE ReadPosition(c)  BY <3>10 DEF ReadPosition
    <3>11. CASE UpsertBalance(c)  BY <3>11 DEF UpsertBalance
    <3>12. CASE InsertOutbox(c)  BY <3>12 DEF InsertOutbox
    <3>13. CASE Commit(c)  BY <3>13 DEF Commit
    <3>14. CASE Reply(c)  BY <3>14 DEF Reply
    <3>15. CASE Fail(c)  BY <3>15 DEF Fail
    <3> QED
      BY <1>1, <3>1, <3>2, <3>3, <3>4, <3>5, <3>6, <3>7, <3>8, <3>9, <3>10, <3>11, <3>12, <3>13,
         <3>14, <3>15 DEF CallStep, Post
  <2> QED  BY <2>1, <2>2 DEF Asked
<1>2. CASE Admin
  BY <1>2, AdminKeeps DEF LogInv, Asked, AskedOf, TouchedBy
<1>3. CASE UNCHANGED vars
  BY <1>3 DEF LogInv, Asked, AskedOf, TouchedBy, vars
<1> QED  BY <1>1, <1>2, <1>3, StepKinds

(***************************************************************************)
(* The three things a call does to the log.                                *)
(***************************************************************************)
KeepsLog(c) ==
    /\ entries' = entries /\ transactions' = transactions
    /\ pending'[c].entries \in {pending[c].entries, {}}
Appends(c, a) ==
    /\ pc[c] = "insertEntries" /\ IsNext(c, a)
    /\ ~EntryBusy(c, NewEntries(c, a)) /\ ~Collides(NewEntries(c, a), entries)
    /\ entries' = entries /\ transactions' = transactions
    /\ pending'[c].entries = pending[c].entries \cup NewEntries(c, a)
    /\ NextTurn(c, a, "readSeq", "readPosition")
CommitsLog(c) ==
    /\ pc[c] = "commit" /\ pc'[c] = "reply"
    /\ entries' = entries \cup pending[c].entries /\ transactions' = transactions \cup {c}
    /\ pending'[c].entries = {}

\* An insert fails, or appends.
LEMMA InsertSteps ==
    ASSUME TypeOK, NEW c \in Call, InsertEntries(c)
    PROVE  \/ UNCHANGED <<entries, transactions, todo>> /\ EndWith(c, Unknown)
           \/ \E a \in Account : Appends(c, a)
<1>1. UNCHANGED <<entries, transactions>> /\ pc[c] = "insertEntries"
  BY DEF InsertEntries, tables
<1>2. PICK a \in Account :
         /\ IsNext(c, a) /\ ~EntryBusy(c, NewEntries(c, a))
         /\ IF Collides(NewEntries(c, a), entries)
            THEN EndWith(c, Unknown) /\ UNCHANGED todo
            ELSE /\ pending' = [pending EXCEPT ![c].entries = @ \cup NewEntries(c, a)]
                 /\ NextTurn(c, a, "readSeq", "readPosition")
  BY DEF InsertEntries
<1>3. CASE Collides(NewEntries(c, a), entries)
  BY <1>1, <1>2, <1>3
<1>4. CASE ~Collides(NewEntries(c, a), entries)
  <2>1. pending[c] \in Writes /\ pending' = [pending EXCEPT ![c].entries = @ \cup NewEntries(c, a)]
    BY <1>2, <1>4 DEF TypeOK
  <2>2. pending'[c].entries = pending[c].entries \cup NewEntries(c, a)
    BY <2>1 DEF TypeOK, Writes
  <2> QED  BY <1>1, <1>2, <1>4, <2>2 DEF Appends
<1> QED  BY <1>3, <1>4

\* A step of a call keeps the log, appends to its own entries, or commits them.
LEMMA LogSteps ==
    ASSUME TypeOK, NEW c \in Call, CallStep(c)
    PROVE  KeepsLog(c) \/ (\E a \in Account : Appends(c, a)) \/ CommitsLog(c)
<1> USE DEF TypeOK, tables, KeepsLog
<1>0. NoWrites.entries = {}
  BY DEF NoWrites
<1>1. CASE \E r \in Request : Submit(c, r)  BY <1>1 DEF Submit
<1>2. CASE Begin(c)  BY <1>2 DEF Begin
<1>3. CASE IdempotencyGate(c)  BY <1>3 DEF IdempotencyGate
<1>4. CASE ResolveDuplicate(c)  BY <1>0, <1>4 DEF ResolveDuplicate, EndWith
<1>5. CASE CreatePeriod(c)  BY <1>5 DEF CreatePeriod, Writes
<1>6. CASE LockPeriod(c)  BY <1>0, <1>6 DEF LockPeriod, Refuse, EndWith
<1>7. CASE LockAccount(c)  BY <1>0, <1>7 DEF LockAccount, Refuse, EndWith
<1>8. CASE ReadSeq(c)  BY <1>8 DEF ReadSeq
<1>9. CASE InsertEntries(c)  BY <1>0, <1>9, InsertSteps DEF EndWith
<1>10. CASE ReadPosition(c)  BY <1>10 DEF ReadPosition
<1>11. CASE UpsertBalance(c)
  <2>1. UNCHANGED <<entries, transactions>>
    BY <1>11 DEF UpsertBalance
  <2>2. \/ EndWith(c, Unknown) \/ EndWith(c, Refused("INSUFFICIENT_FUNDS"))
        \/ \E a \in Account : pending' = [pending EXCEPT ![c].balances[a] = NewBalance(c, a)]
    BY <1>11 DEF UpsertBalance, Refuse
  <2>3. pending[c] \in Writes
    OBVIOUS
  <2>4. pending'[c].entries \in {pending[c].entries, {}}
    BY <1>0, <2>2, <2>3 DEF EndWith, Writes
  <2> QED  BY <2>1, <2>4
<1>12. CASE InsertOutbox(c)  BY <1>12 DEF InsertOutbox, Writes
<1>13. CASE Commit(c)
  <2>1. CASE Balanced(c) /\ Spendable(c)
    BY <1>0, <1>13, <2>1 DEF Commit, CommitsLog, Goto
  <2>2. CASE ~(Balanced(c) /\ Spendable(c))
    BY <1>0, <1>13, <2>2 DEF Commit, Refuse, EndWith
  <2> QED  BY <2>1, <2>2
<1>14. CASE Reply(c)  BY <1>0, <1>14 DEF Reply, EndWith
<1>15. CASE Fail(c)  BY <1>0, <1>15 DEF Fail, EndWith
<1> QED
  BY <1>1, <1>2, <1>3, <1>4, <1>5, <1>6, <1>7, <1>8, <1>9, <1>10, <1>11, <1>12, <1>13,
     <1>14, <1>15 DEF CallStep, Post

\* Every step keeps CommittedRows.
LEMMA CommittedRowsNext == LogInv /\ [Next]_vars => CommittedRows'
<1> SUFFICES ASSUME LogInv, [Next]_vars PROVE CommittedRows'
  OBVIOUS
<1>1. ASSUME NEW c \in Call, CallStep(c) PROVE CommittedRows'
  <2>1. CASE KeepsLog(c)  BY <2>1 DEF LogInv, CommittedRows, KeepsLog
  <2>2. CASE \E a \in Account : Appends(c, a)  BY <2>2 DEF LogInv, CommittedRows, Appends
  <2>3. CASE CommitsLog(c)
    BY <2>3 DEF LogInv, CommittedRows, Written, WrittenOf, CommitsLog
  <2> QED  BY <1>1, <2>1, <2>2, <2>3, LogSteps DEF LogInv
<1>2. CASE Admin  BY <1>2, AdminKeeps DEF LogInv, CommittedRows
<1>3. CASE UNCHANGED vars  BY <1>3 DEF LogInv, CommittedRows, vars
<1> QED  BY <1>1, <1>2, <1>3, StepKinds

\* Every step keeps Written.
LEMMA WrittenNext == LogInv /\ [Next]_vars => Written'
<1> SUFFICES ASSUME LogInv, [Next]_vars PROVE Written'
  OBVIOUS
<1>1. ASSUME NEW c \in Call, CallStep(c) PROVE Written'
  <2>1. \A d \in Call \ {c} : WrittenOf(d)'
    BY <1>1, OthersKeep DEF LogInv, Written, WrittenOf
  <2>2. WrittenOf(c)'
    <3> USE DEF LogInv, TypeOK, Written, WrittenOf, tables, PastPeriodLock, PastAccountLocks, Goto
    <3>0. NoWrites.entries = {}
      BY DEF NoWrites
    <3>1. CASE \E r \in Request : Submit(c, r)  BY <3>1, SubmitEffect
    <3>2. CASE Begin(c)  BY <3>2 DEF Begin
    <3>3. CASE IdempotencyGate(c)  BY <3>3 DEF IdempotencyGate
    <3>4. CASE ResolveDuplicate(c)  BY <3>0, <3>4 DEF ResolveDuplicate, EndWith
    <3>5. CASE CreatePeriod(c)
      <4>1. pending'[c].entries = pending[c].entries
        BY <3>5 DEF CreatePeriod, Writes
      <4>2. pc[c] = "createPeriod" /\ pc'[c] = "lockPeriod"
        BY <3>5 DEF CreatePeriod
      <4> QED  BY <4>1, <4>2
    <3>6. CASE LockPeriod(c)  BY <3>0, <3>6 DEF LockPeriod, Refuse, EndWith
    <3>7. CASE LockAccount(c)
      BY <3>0, <3>7 DEF LockAccount, Refuse, EndWith, NextTurn
    <3>8. CASE ReadSeq(c)  BY <3>8 DEF ReadSeq
    <3>9. CASE InsertEntries(c)
      <4>1. CASE EndWith(c, Unknown)
        BY <3>0, <4>1 DEF EndWith
      <4>2. ASSUME NEW a \in Account, Appends(c, a) PROVE WrittenOf(c)'
        <5>1. a \in TouchedBy(c) /\ base[c] \in Nat
          BY <4>2 DEF Asked, AskedOf, Appends, IsNext
        <5>2. \A e \in NewEntries(c, a) : e.account = a /\ e.tx = c
          BY <4>2, <5>1, EntriesType DEF NewEntries, Appends, Place, InTransaction
        <5>3. \A e \in pending'[c].entries :
                 e.tx = c /\ (e.account = a \/ e.account \notin todo[c])
          BY <4>2, <5>2 DEF Appends
        <5>4. CASE todo[c] = {a}
          <6>1. pc'[c] = "readPosition"
            BY <4>2, <5>4 DEF Appends, NextTurn
          <6> QED  BY <5>3, <6>1
        <5>5. CASE todo[c] # {a}
          <6>1. pc'[c] = "readSeq" /\ todo'[c] = todo[c] \ {a}
            BY <4>2, <5>5 DEF Appends, NextTurn
          <6> QED  BY <5>3, <6>1
        <5> QED  BY <5>4, <5>5
      <4> QED  BY <3>9, <4>1, <4>2, InsertSteps
    <3>10. CASE ReadPosition(c)
      BY <3>10 DEF ReadPosition, NextTurn
    <3>11. CASE UpsertBalance(c)
      <4>1. pc[c] = "upsertBalance"
        BY <3>11 DEF UpsertBalance
      <4>2. CASE EndWith(c, Unknown) \/ EndWith(c, Refused("INSUFFICIENT_FUNDS"))
        BY <3>0, <4>2 DEF EndWith
      <4>3. CASE \E a \in Account : NextTurn(c, a, "readPosition", "insertOutbox")
        <5>1. pc'[c] \in {"readPosition", "insertOutbox"}
          BY <4>3 DEF NextTurn
        <5>2. KeepsLog(c)
          BY <1>1, <4>1, LogSteps DEF Appends, CommitsLog
        <5> QED  BY <4>1, <5>1, <5>2 DEF KeepsLog
      <4> QED  BY <3>11, <4>2, <4>3 DEF UpsertBalance, Refuse
    <3>12. CASE InsertOutbox(c)  BY <3>12 DEF InsertOutbox, Writes
    <3>13. CASE Commit(c)  BY <3>0, <3>13 DEF Commit, Refuse, EndWith
    <3>14. CASE Reply(c)  BY <3>0, <3>14 DEF Reply, EndWith
    <3>15. CASE Fail(c)  BY <3>0, <3>15 DEF Fail, EndWith
    <3> QED
      BY <1>1, <3>1, <3>2, <3>3, <3>4, <3>5, <3>6, <3>7, <3>8, <3>9, <3>10, <3>11, <3>12, <3>13,
         <3>14, <3>15 DEF CallStep, Post
  <2> QED  BY <2>1, <2>2 DEF Written
<1>2. CASE Admin  BY <1>2, AdminKeeps DEF LogInv, Written, WrittenOf
<1>3. CASE UNCHANGED vars  BY <1>3 DEF LogInv, Written, WrittenOf, vars
<1> QED  BY <1>1, <1>2, <1>3, StepKinds

\* Only ReadSeq leads to the insert.
LEMMA ComesFromRead ==
    ASSUME TypeOK, NEW c \in Call, CallStep(c), pc'[c] = "insertEntries"
    PROVE  ReadSeq(c)
<1> USE DEF TypeOK, Goto, EndWith, Refuse, NextTurn
<1>1. ~\E r \in Request : Submit(c, r)  BY SubmitEffect
<1>2. ~Begin(c) /\ ~IdempotencyGate(c) /\ ~ResolveDuplicate(c) /\ ~CreatePeriod(c)
  BY DEF Begin, IdempotencyGate, ResolveDuplicate, CreatePeriod
<1>3. ~LockPeriod(c)  BY DEF LockPeriod
<1>4. ~LockAccount(c)  BY DEF LockAccount
<1>5. ~InsertEntries(c)  BY DEF InsertEntries
<1>6. ~ReadPosition(c)  BY DEF ReadPosition
<1>7. ~UpsertBalance(c)  BY DEF UpsertBalance
<1>8. ~InsertOutbox(c) /\ ~Commit(c) /\ ~Reply(c) /\ ~Fail(c)
  BY DEF InsertOutbox, Commit, Reply, Fail
<1> QED  BY <1>1, <1>2, <1>3, <1>4, <1>5, <1>6, <1>7, <1>8 DEF CallStep, Post

\* The log only grows.
LEMMA LogGrows ==
    ASSUME TypeOK, [Next]_vars
    PROVE  entries \subseteq entries' /\ \A a : LogOf(a) \subseteq LogOf(a)'
<1>1. ASSUME NEW c \in Call, CallStep(c) PROVE entries \subseteq entries'
  BY <1>1, LogSteps DEF KeepsLog, Appends, CommitsLog
<1>2. Admin => entries \subseteq entries'  BY AdminKeeps
<1>3. UNCHANGED vars => entries \subseteq entries'  BY DEF vars
<1>4. entries \subseteq entries'  BY <1>1, <1>2, <1>3, StepKinds
<1> QED  BY <1>4 DEF LogOf

\* Every step keeps BaseInLog.
LEMMA BaseNext == LogInv /\ [Next]_vars => BaseInLog'
<1> SUFFICES ASSUME LogInv, [Next]_vars PROVE BaseInLog'
  OBVIOUS
<1>0. \A a : LogOf(a) \subseteq LogOf(a)'
  BY LogGrows DEF LogInv
<1>1. ASSUME NEW c \in Call, CallStep(c) PROVE BaseInLog'
  <2>1. \A d \in Call \ {c} : BaseOf(d)'
    BY <1>0, <1>1, OthersKeep DEF LogInv, BaseInLog, BaseOf, IsNext
  <2>2. BaseOf(c)'
    <3> SUFFICES ASSUME pc'[c] = "insertEntries", NEW b \in Account, IsNext(c, b)'
                 PROVE  base'[c] = 0 \/ \E e \in LogOf(b)' : e.seq = base'[c]
      BY DEF BaseOf
    <3>1. ReadSeq(c)
      BY <1>1, ComesFromRead DEF LogInv
    <3>2. PICK a \in Account : IsNext(c, a) /\ base' = [base EXCEPT ![c] = HighestSeq(LogSeen(c, a))]
      BY <3>1 DEF ReadSeq
    <3>3. todo'[c] = todo[c] /\ pc[c] = "readSeq"
      BY <3>1 DEF ReadSeq
    <3>4. b = a
      BY <3>2, <3>3, OneNext DEF IsNext, LogInv, TypeOK
    <3>5. LogSeen(c, a) = LogOf(a)
      BY <3>2, <3>3 DEF LogInv, Written, WrittenOf, LogSeen, LogOf, IsNext
    <3>6. PICK m \in Nat : NumberedTo(LogOf(a), m)
      BY DEF LogInv, LogsNumbered, Numbered
    <3>7. base'[c] = m
      BY <3>2, <3>5, <3>6, HighestOfNumbered DEF LogInv, TypeOK
    <3>8. m = 0 \/ \E e \in LogOf(a) : e.seq = m
      BY <3>6 DEF NumberedTo
    <3> QED  BY <1>0, <3>4, <3>7, <3>8
  <2> QED  BY <2>1, <2>2 DEF BaseInLog
<1>2. CASE Admin  BY <1>2, AdminKeeps DEF LogInv, BaseInLog, BaseOf, IsNext, LogOf
<1>3. CASE UNCHANGED vars  BY <1>3 DEF LogInv, BaseInLog, BaseOf, IsNext, LogOf, vars
<1> QED  BY <1>1, <1>2, <1>3, StepKinds

\* A numbered log with k rows more, numbered on from its end, is numbered.
LEMMA NumberedOn ==
    ASSUME TypeOK, Asked, NEW c \in Call, pc[c] \in Place \ {"idle", "done"},
           NEW a \in TouchedBy(c), NEW m \in Nat, NEW S, NumberedTo(S, m)
    PROVE  Numbered(S \cup EntriesAt(c, a, m))
<1>1. req[c].legs[a] \in Seq(Int)
  BY AskedRequest DEF RequestType, TouchedBy
<1>2. PICK k \in Nat : DOMAIN req[c].legs[a] = 1 .. k
  BY <1>1
<1> DEFINE T == EntriesAt(c, a, m)
<1>3. \A e \in T : e.seq \in m + 1 .. m + k
  BY <1>2 DEF EntriesAt
<1>4. \A n \in m + 1 .. m + k : \E e \in T : e.seq = n
  <2> TAKE n \in m + 1 .. m + k
  <2> DEFINE i == n - m
  <2>1. i \in 1 .. k /\ m + i = n
    OBVIOUS
  <2> DEFINE e == [tx |-> c, tenant |-> req[c].tenant, account |-> a,
                   amount |-> req[c].legs[a][i], seq |-> m + i]
  <2>2. e \in T
    BY <1>2, <2>1 DEF EntriesAt
  <2>3. e.seq = n
    BY <2>1
  <2> HIDE DEF e
  <2> QED  BY <2>2, <2>3
<1>5. \A e, f \in T : e.seq = f.seq => e = f
  BY <1>2 DEF EntriesAt
<1>6. NumberedTo(S \cup T, m + k)
  <2>1. \A e \in S \cup T : e.seq \in 1 .. m + k
    BY <1>3 DEF NumberedTo
  <2>2. \A n \in 1 .. m + k : \E e \in S \cup T : e.seq = n
    BY <1>4 DEF NumberedTo
  <2>3. \A e, f \in S \cup T : e.seq = f.seq => e = f
    <3> SUFFICES ASSUME NEW e \in S \cup T, NEW f \in S \cup T, e.seq = f.seq PROVE e = f
      OBVIOUS
    <3>1. CASE e \in S /\ f \in S  BY <3>1 DEF NumberedTo
    <3>2. CASE e \in T /\ f \in T  BY <1>5, <3>2
    <3>3. ~(e \in S /\ f \in T) /\ ~(e \in T /\ f \in S)
      BY <1>3 DEF NumberedTo
    <3> QED  BY <3>1, <3>2, <3>3
  <2> QED  BY <2>1, <2>2, <2>3 DEF NumberedTo
<1> QED  BY <1>6 DEF Numbered

\* An uncommitted row is not in the committed log.
LEMMA RowsApart ==
    ASSUME LogInv, NEW d \in Call, NEW e \in pending[d].entries
    PROVE  e \notin entries
<1>1. e.tx = d /\ pc[d] \in PastAccountLocks
  BY DEF LogInv, Written, WrittenOf
<1>2. d \notin transactions
  BY <1>1 DEF LogInv, Asked, AskedOf, PastAccountLocks, PastPeriodLock
<1> QED  BY <1>1, <1>2 DEF LogInv, CommittedRows

\* Nobody else has uncommitted entries on the account a call appends to, and the
\* rows it appends continue the log: this is where the UNIQUE index is needed.
LEMMA AppendContinues ==
    ASSUME LogInv, NEW c \in Call, NEW a \in Account, Appends(c, a)
    PROVE  /\ \A d \in Call : \A e \in pending[d].entries : e.account # a
           /\ NumberedTo(LogOf(a), base[c])
<1>1. pc[c] = "insertEntries" /\ a \in todo[c] /\ a \in TouchedBy(c) /\ base[c] \in Nat
  BY DEF LogInv, Appends, IsNext, Asked, AskedOf, PastPeriodLock, TypeOK
<1>2. \A e \in pending[c].entries : e.account # a
  BY <1>1 DEF LogInv, Written, WrittenOf
<1>3. PICK m \in Nat : NumberedTo(LogOf(a), m)
  BY DEF LogInv, LogsNumbered, Numbered
<1> DEFINE first == [tx |-> c, tenant |-> req[c].tenant, account |-> a,
                     amount |-> req[c].legs[a][1], seq |-> base[c] + 1]
<1>4. first \in NewEntries(c, a)
  <2>1. RequestType(req[c])
    BY <1>1, AskedRequest DEF LogInv, Place, InTransaction
  <2>2. req[c].legs[a] \in Seq(Int) \ {<<>>}
    BY <1>1, <2>1 DEF RequestType, TouchedBy
  <2>3. 1 \in DOMAIN req[c].legs[a]
    BY <2>2
  <2> QED  BY <2>3 DEF NewEntries, EntriesAt
<1>5. first.account = a /\ first.seq = base[c] + 1
  OBVIOUS
<1> HIDE DEF first
<1>6. base[c] = m
  <2>1. base[c] = 0 \/ \E e \in LogOf(a) : e.seq = base[c]
    BY <1>1 DEF LogInv, BaseInLog, BaseOf, Appends
  <2>2. base[c] <= m
    BY <1>1, <1>3, <2>1 DEF NumberedTo
  <2>3. ~\E f \in LogOf(a) : f.seq = base[c] + 1
    BY <1>4, <1>5 DEF Appends, Collides, LogOf
  <2>4. ~(base[c] < m)
    <3> SUFFICES ASSUME base[c] < m PROVE FALSE
      OBVIOUS
    <3>1. base[c] + 1 \in 1 .. m
      BY <1>1
    <3> QED  BY <1>3, <2>3, <3>1 DEF NumberedTo
  <2> QED  BY <1>1, <2>2, <2>4
<1>7. ASSUME NEW d \in Call \ {c}, NEW e \in pending[d].entries, e.account = a PROVE FALSE
  <2>1. PICK n \in Nat : NumberedTo(LogSeen(d, a), n)
    BY DEF LogInv, LogsNumbered, Numbered
  <2>2. e \in LogSeen(d, a) /\ e \notin LogOf(a)
    BY <1>7, RowsApart DEF LogSeen, LogOf
  <2>3. LogOf(a) \subseteq LogSeen(d, a)
    BY DEF LogSeen, LogOf
  <2>4. e.seq \in 1 .. n
    BY <2>1, <2>2 DEF NumberedTo
  <2>5. e.seq \notin 1 .. m
    BY <1>3, <2>1, <2>2, <2>3 DEF NumberedTo
  <2>6. m + 1 \in 1 .. n
    BY <2>4, <2>5
  <2>7. PICK f \in LogSeen(d, a) : f.seq = m + 1
    BY <2>1, <2>6 DEF NumberedTo
  <2>8. f \notin LogOf(a)
    BY <1>3, <2>7 DEF NumberedTo
  <2>9. f \in pending[d].entries /\ f.account = a
    BY <2>7, <2>8 DEF LogSeen, LogOf
  <2>10. Collides(NewEntries(c, a), pending[d].entries)
    BY <1>4, <1>5, <1>6, <2>7, <2>9 DEF Collides
  <2> QED  BY <2>10 DEF Appends, EntryBusy
<1> QED  BY <1>2, <1>3, <1>6, <1>7

\* Every step keeps LogsNumbered.
LEMMA LogsNext == LogInv /\ [Next]_vars => LogsNumbered'
<1> SUFFICES ASSUME LogInv, [Next]_vars PROVE LogsNumbered'
  OBVIOUS
<1>0. /\ \A b \in Account : Numbered(LogOf(b))
      /\ \A d \in Call, b \in Account : Numbered(LogSeen(d, b))
      /\ \A d1, d2 \in Call : \A e \in pending[d1].entries, f \in pending[d2].entries :
            e.account = f.account => d1 = d2
  BY DEF LogInv, LogsNumbered
<1>1. ASSUME NEW c \in Call, CallStep(c) PROVE LogsNumbered'
  <2>0. \A d \in Call \ {c} : pending'[d].entries = pending[d].entries
    BY <1>1, OthersKeep DEF LogInv
  <2>1. CASE KeepsLog(c)
    <3>1. \A b \in Account : LogOf(b)' = LogOf(b)
      BY <2>1 DEF KeepsLog, LogOf
    <3>2. \A d \in Call, b \in Account : LogSeen(d, b)' \in {LogSeen(d, b), LogOf(b)}
      BY <2>0, <2>1 DEF KeepsLog, LogSeen, LogOf
    <3>3. \A d \in Call : pending'[d].entries \subseteq pending[d].entries
      BY <2>0, <2>1 DEF KeepsLog
    <3>4. \A d \in Call, b \in Account : Numbered(LogSeen(d, b)')
      BY <1>0, <3>2
    <3>5. \A b \in Account : Numbered(LogOf(b)')
      BY <1>0, <3>1
    <3> QED  BY <1>0, <3>3, <3>4, <3>5 DEF LogsNumbered, Numbered, NumberedTo
  <2>2. ASSUME NEW a \in Account, Appends(c, a) PROVE LogsNumbered'
    <3>0. pc[c] = "insertEntries" /\ a \in TouchedBy(c) /\ base[c] \in Nat
      BY <2>2 DEF LogInv, Appends, IsNext, Asked, AskedOf, PastPeriodLock, TypeOK
    <3>1. /\ \A d \in Call : \A e \in pending[d].entries : e.account # a
          /\ NumberedTo(LogOf(a), base[c])
      BY <2>2, AppendContinues
    <3>2. \A e \in NewEntries(c, a) : e.account = a
      BY DEF NewEntries, EntriesAt
    <3>3. entries' = entries /\ pending'[c].entries = pending[c].entries \cup NewEntries(c, a)
      BY <2>2 DEF Appends
    <3>4. \A b \in Account : LogOf(b)' = LogOf(b)
      BY <3>3 DEF LogOf
    <3>5. \A d \in Call, b \in Account : ~(d = c /\ b = a) => LogSeen(d, b)' = LogSeen(d, b)
      <4> SUFFICES ASSUME NEW d \in Call, NEW b \in Account, ~(d = c /\ b = a)
                   PROVE  LogSeen(d, b)' = LogSeen(d, b)
        OBVIOUS
      <4>1. CASE d # c  BY <2>0, <3>3, <4>1 DEF LogSeen
      <4>2. CASE d = c
        <5>1. LogSeen(c, b)' = {e \in entries \cup pending'[c].entries : e.account = b}
          BY <3>3 DEF LogSeen
        <5>2. \A e \in NewEntries(c, a) : e.account # b
          BY <3>2, <4>2
        <5> QED  BY <3>3, <4>2, <5>1, <5>2 DEF LogSeen
      <4> QED  BY <4>1, <4>2
    <3>6. LogSeen(c, a)' = LogOf(a) \cup EntriesAt(c, a, base[c])
      <4>1. LogSeen(c, a)' = {e \in entries \cup pending'[c].entries : e.account = a}
        BY <3>3 DEF LogSeen
      <4> QED  BY <3>1, <3>2, <3>3, <4>1 DEF LogOf, NewEntries
    <3>7. Numbered(LogOf(a) \cup EntriesAt(c, a, base[c]))
      BY <3>0, <3>1, NumberedOn DEF LogInv, Place, InTransaction
    <3>8. \A d \in Call, b \in Account : Numbered(LogSeen(d, b)')
      BY <1>0, <3>5, <3>6, <3>7
    <3>9. \A b \in Account : Numbered(LogOf(b)')
      BY <1>0, <3>4
    <3>10. \A d \in Call : \A e \in pending'[d].entries :
              e \in pending[d].entries \/ (d = c /\ e.account = a)
      BY <2>0, <3>2, <3>3
    <3>11. \A d1, d2 \in Call : \A e \in pending'[d1].entries, f \in pending'[d2].entries :
              e.account = f.account => d1 = d2
      BY <1>0, <3>1, <3>10
    <3> QED  BY <3>8, <3>9, <3>11 DEF LogsNumbered, Numbered, NumberedTo
  <2>3. CASE CommitsLog(c)
    <3>1. entries' = entries \cup pending[c].entries /\ pending'[c].entries = {}
      BY <2>3 DEF CommitsLog
    <3>2. \A b \in Account : LogOf(b)' = LogSeen(c, b)
      BY <3>1 DEF LogOf, LogSeen
    <3>3. \A b \in Account : LogSeen(c, b)' = LogSeen(c, b)
      BY <3>1 DEF LogSeen
    <3>4. ASSUME NEW d \in Call \ {c}, NEW b \in Account
          PROVE  LogSeen(d, b)' \in {LogSeen(c, b), LogSeen(d, b)}
      <4>1. LogSeen(d, b)' =
              {e \in entries \cup pending[c].entries \cup pending[d].entries : e.account = b}
        BY <2>0, <3>1 DEF LogSeen
      <4>2. CASE \E e \in pending[d].entries : e.account = b
        <5>1. \A f \in pending[c].entries : f.account # b
          BY <1>0, <4>2
        <5> QED  BY <4>1, <5>1 DEF LogSeen
      <4>3. CASE ~\E e \in pending[d].entries : e.account = b
        BY <4>1, <4>3 DEF LogSeen
      <4> QED  BY <4>2, <4>3
    <3>5. \A d \in Call, b \in Account : Numbered(LogSeen(d, b)')
      BY <1>0, <3>3, <3>4
    <3>6. \A b \in Account : Numbered(LogOf(b)')
      BY <1>0, <3>2
    <3>7. \A d \in Call : pending'[d].entries \subseteq pending[d].entries
      BY <2>0, <3>1
    <3> QED  BY <1>0, <3>5, <3>6, <3>7 DEF LogsNumbered, Numbered, NumberedTo
  <2> QED  BY <1>1, <2>1, <2>2, <2>3, LogSteps DEF LogInv
<1>2. CASE Admin
  <2>1. entries' = entries /\ pending' = pending
    BY <1>2, AdminKeeps
  <2>2. \A d \in Call, b \in Account : LogSeen(d, b)' = LogSeen(d, b)
    BY <2>1 DEF LogSeen
  <2>3. \A b \in Account : LogOf(b)' = LogOf(b)
    BY <2>1 DEF LogOf
  <2> QED  BY <2>1, <2>2, <2>3 DEF LogInv, LogsNumbered, Numbered, NumberedTo
<1>3. CASE UNCHANGED vars
  BY <1>3 DEF LogInv, LogsNumbered, LogOf, LogSeen, Numbered, NumberedTo, vars
<1> QED  BY <1>1, <1>2, <1>3, StepKinds

\* The initial states satisfy LogInv.
LEMMA LogInit == Init => LogInv
<1> SUFFICES ASSUME Init PROVE LogInv
  OBVIOUS
<1>1. TypeOK
  BY TypeInit
<1>2. Asked
  BY DEF Init, Asked, AskedOf, Place, InTransaction, PastPeriodLock
<1>3. \A c \in Call : pending[c].entries = {}
  BY DEF Init, NoWrites
<1>4. Written /\ CommittedRows
  BY <1>3 DEF Init, Written, WrittenOf, CommittedRows
<1>5. NumberedTo({}, 0)
  BY DEF NumberedTo
<1>6. \A a \in Account : LogOf(a) = {}
  BY DEF Init, LogOf
<1>7. \A c \in Call, a \in Account : LogSeen(c, a) = {}
  BY <1>3 DEF Init, LogSeen
<1>8. LogsNumbered
  BY <1>3, <1>5, <1>6, <1>7 DEF LogsNumbered, Numbered
<1>9. BaseInLog
  BY DEF Init, BaseInLog, BaseOf
<1> QED  BY <1>1, <1>2, <1>4, <1>8, <1>9 DEF LogInv

\* LogInv is inductive.
LEMMA LogNext == LogInv /\ [Next]_vars => LogInv'
BY TypeNext, AskedNext, WrittenNext, CommittedRowsNext, LogsNext, BaseNext DEF LogInv

\* LogInv holds in every reachable state.
THEOREM LogAlways == Spec => []LogInv
BY LogInit, LogNext, PTL DEF Spec

\* The tables, the calls and the answers of the write path (post.ts, the DDL of
\* migration 001) never leave the values their types allow.
THEOREM TypeCorrect == Spec => []TypeOK
<1>1. LogInv => TypeOK
  BY DEF LogInv
<1> QED  BY <1>1, LogAlways, PTL

\* However many calls, tenants and administrators there are, and wherever they
\* fail, the log of an account id is 1, 2, ... without a gap or a repetition
\* (MAX(seq) + 1 and UNIQUE (account_id, seq), post.ts:165-179).
THEOREM LogIsDense == Spec => []SeqDense
<1>1. LogInv => SeqDense
  <2> SUFFICES ASSUME LogInv, NEW a \in Account
               PROVE  /\ \A e \in LogOf(a) : \A n \in 1 .. e.seq : \E f \in LogOf(a) : f.seq = n
                      /\ \A e, f \in LogOf(a) : e.seq = f.seq => e = f
    BY DEF SeqDense
  <2>1. PICK m \in Nat : NumberedTo(LogOf(a), m)
    BY DEF LogInv, LogsNumbered, Numbered
  <2>2. ASSUME NEW e \in LogOf(a), NEW n \in 1 .. e.seq PROVE \E f \in LogOf(a) : f.seq = n
    <3>1. e.seq \in 1 .. m
      BY <2>1 DEF NumberedTo
    <3>2. n \in 1 .. m
      BY <3>1
    <3> QED  BY <2>1, <3>2 DEF NumberedTo
  <2> QED  BY <2>1, <2>2 DEF NumberedTo
<1> QED  BY <1>1, LogAlways, PTL

-----------------------------------------------------------------------------
(***************************************************************************)
(* The gate.                                                               *)
(***************************************************************************)
\* What a step of a call does to its answer, its request and its key.
LEMMA GateSteps ==
    ASSUME TypeOK, NEW c \in Call, CallStep(c)
    PROVE  /\ pc[c] # "done"
           /\ pc[c] = "idle" \/ req' = req
           /\ \/ answer'[c] = answer[c] /\ pc'[c] # "done"
              \/ /\ pc'[c] = "done" /\ answer'[c].kind \in {"refused", "unknown"}
                 /\ answer'[c].code # "IDEMPOTENCY_CONFLICT"
              \/ ResolveDuplicate(c) \/ Reply(c)
           /\ (pc'[c] \in PastGate => pc[c] \in PastGate) \/ IdempotencyGate(c)
           /\ c \in transactions' => c \in transactions \/ pc[c] \in PastGate
           /\ pc'[c] = "resolve" => IdempotencyGate(c)
<1> USE DEF TypeOK, tables, Goto, EndWith, Refuse, NextTurn, PastGate, PastPeriodLock, Refused, Unknown
<1>1. CASE \E r \in Request : Submit(c, r)
  <2>1. PICK r \in Request : Submit(c, r)
    BY <1>1
  <2>2. /\ pc[c] = "idle" /\ pc'[c] \in {"begin", "done"} /\ transactions' = transactions
        /\ \/ answer' = answer /\ pc'[c] = "begin"
           \/ answer'[c] = Refused(ValidationError(r)) /\ pc'[c] = "done"
    BY <2>1, SubmitEffect
  <2>3. ValidationError(r) # "IDEMPOTENCY_CONFLICT"
    BY ValidationErrors
  <2> QED  BY <2>2, <2>3
<1>2. CASE Begin(c)  BY <1>2 DEF Begin
<1>3. CASE IdempotencyGate(c)  BY <1>3 DEF IdempotencyGate
<1>4. CASE ResolveDuplicate(c)  BY <1>4 DEF ResolveDuplicate
<1>5. CASE CreatePeriod(c)  BY <1>5 DEF CreatePeriod
<1>6. CASE LockPeriod(c)  BY <1>6 DEF LockPeriod
<1>7. CASE LockAccount(c)
  <2>1. PICK a \in Account :
           \/ NextTurn(c, a, "lockAccounts", "readSeq")
           \/ Refuse(c, AccountError(c, a))
    BY <1>7 DEF LockAccount
  <2>2. pc[c] = "lockAccounts" /\ UNCHANGED <<transactions, req>>
    BY <1>7 DEF LockAccount
  <2>3. AccountError(c, a) # "IDEMPOTENCY_CONFLICT"
    BY AccountErrors
  <2>4. CASE NextTurn(c, a, "lockAccounts", "readSeq")
    <3>1. pc'[c] \in {"lockAccounts", "readSeq"} /\ answer' = answer
      BY <2>4
    <3> QED  BY <2>2, <3>1
  <2>5. CASE Refuse(c, AccountError(c, a))
    <3>1. pc'[c] = "done" /\ answer'[c] = Refused(AccountError(c, a))
      BY <2>5
    <3> QED  BY <2>2, <2>3, <3>1
  <2> QED  BY <2>1, <2>4, <2>5
<1>8. CASE ReadSeq(c)  BY <1>8 DEF ReadSeq
<1>9. CASE InsertEntries(c)
  <2>1. pc[c] = "insertEntries" /\ UNCHANGED <<transactions, req>>
    BY <1>9 DEF InsertEntries
  <2>2. CASE EndWith(c, Unknown)  BY <2>1, <2>2
  <2>3. ASSUME NEW a \in Account, Appends(c, a)
        PROVE  pc'[c] \in {"readSeq", "readPosition"} /\ answer' = answer
    BY <2>3 DEF Appends
  <2>4. CASE \E a \in Account : Appends(c, a)
    <3>1. pc'[c] \in {"readSeq", "readPosition"} /\ answer' = answer
      BY <2>3, <2>4
    <3> QED  BY <2>1, <3>1
  <2> QED  BY <1>9, <2>2, <2>4, InsertSteps
<1>10. CASE ReadPosition(c)  BY <1>10 DEF ReadPosition
<1>11. CASE UpsertBalance(c)
  <2>1. pc[c] = "upsertBalance" /\ UNCHANGED <<transactions, req>>
    BY <1>11 DEF UpsertBalance
  <2>2. \/ EndWith(c, Unknown) \/ Refuse(c, "INSUFFICIENT_FUNDS")
        \/ \E a \in Account : NextTurn(c, a, "readPosition", "insertOutbox")
    BY <1>11 DEF UpsertBalance
  <2>3. CASE EndWith(c, Unknown)  BY <2>1, <2>3
  <2>4. CASE Refuse(c, "INSUFFICIENT_FUNDS")  BY <2>1, <2>4
  <2>5. CASE \E a \in Account : NextTurn(c, a, "readPosition", "insertOutbox")
    <3>1. pc'[c] \in {"readPosition", "insertOutbox"} /\ answer' = answer
      BY <2>5
    <3> QED  BY <2>1, <3>1
  <2> QED  BY <2>2, <2>3, <2>4, <2>5
<1>12. CASE InsertOutbox(c)  BY <1>12 DEF InsertOutbox
<1>13. CASE Commit(c)  BY <1>13 DEF Commit
<1>14. CASE Reply(c)  BY <1>14 DEF Reply
<1>15. CASE Fail(c)  BY <1>15 DEF Fail, InTransaction
<1> QED
  BY <1>1, <1>2, <1>3, <1>4, <1>5, <1>6, <1>7, <1>8, <1>9, <1>10, <1>11, <1>12, <1>13,
     <1>14, <1>15 DEF CallStep, Post

\* Committed transactions stay, and the request of a call that has been made too.
LEMMA RequestsStay ==
    ASSUME LogInv, NEW c \in Call, CallStep(c)
    PROVE  /\ transactions \subseteq transactions'
           /\ \A d \in Call : pc[d] # "idle" => req'[d] = req[d]
           /\ \A d \in transactions : d \in Call /\ req'[d] = req[d]
<1>1. transactions \subseteq transactions'
  BY LogSteps DEF LogInv, KeepsLog, Appends, CommitsLog
<1>2. \A d \in Call : pc[d] # "idle" => req'[d] = req[d]
  BY GateSteps, OthersKeep DEF LogInv
<1>3. \A d \in transactions : d \in Call /\ pc[d] # "idle"
  BY DEF LogInv, TypeOK, Asked, AskedOf
<1> QED  BY <1>1, <1>2, <1>3

\* A statement of a posting, and its failure, come after it was submitted.
LEMMA PostingIsUnderWay ==
    ASSUME NEW c \in Call, Post(c) \/ Fail(c)
    PROVE  pc[c] # "idle"
BY DEF Post, Begin, IdempotencyGate, ResolveDuplicate, CreatePeriod, LockPeriod, LockAccount,
       ReadSeq, InsertEntries, ReadPosition, UpsertBalance, InsertOutbox, Commit, Reply, Fail,
       InTransaction

\* A call that takes a step is no longer idle; what is committed stays as it was asked.
LEMMA CallsKept ==
    ASSUME LogInv, NEW c \in Call, CallStep(c)
    PROVE  /\ pc'[c] # "idle"
           /\ \A d \in Call \ {c} : pc'[d] = pc[d] /\ req'[d] = req[d]
           /\ \A d \in transactions : req'[d] = req[d] /\ d \in transactions' /\ d \in Call
           /\ pc[c] # "idle" => req' = req
<1>1. pc[c] = "idle" => pc'[c] # "idle"
  <2>1. pc[c] = "idle" => \E r \in Request : Submit(c, r)
    BY PostingIsUnderWay DEF CallStep
  <2> QED  BY <2>1, SubmitEffect DEF LogInv, TypeOK
<1>2. pc[c] # "idle" => pc'[c] # "idle"
  <2> USE DEF LogInv, TypeOK, Goto, EndWith, Refuse, NextTurn
  <2>1. CASE \E r \in Request : Submit(c, r)  BY <2>1 DEF Submit
  <2>2. CASE Begin(c)  BY <2>2 DEF Begin
  <2>3. CASE IdempotencyGate(c)  BY <2>3 DEF IdempotencyGate
  <2>4. CASE ResolveDuplicate(c)  BY <2>4 DEF ResolveDuplicate
  <2>5. CASE CreatePeriod(c)  BY <2>5 DEF CreatePeriod
  <2>6. CASE LockPeriod(c)  BY <2>6 DEF LockPeriod
  <2>7. CASE LockAccount(c)  BY <2>7 DEF LockAccount
  <2>8. CASE ReadSeq(c)  BY <2>8 DEF ReadSeq
  <2>9. CASE InsertEntries(c)  BY <2>9 DEF InsertEntries
  <2>10. CASE ReadPosition(c)  BY <2>10 DEF ReadPosition
  <2>11. CASE UpsertBalance(c)  BY <2>11 DEF UpsertBalance
  <2>12. CASE InsertOutbox(c)  BY <2>12 DEF InsertOutbox
  <2>13. CASE Commit(c)  BY <2>13 DEF Commit
  <2>14. CASE Reply(c)  BY <2>14 DEF Reply
  <2>15. CASE Fail(c)  BY <2>15 DEF Fail
  <2> QED
    BY <2>1, <2>2, <2>3, <2>4, <2>5, <2>6, <2>7, <2>8, <2>9, <2>10, <2>11, <2>12, <2>13,
       <2>14, <2>15 DEF CallStep, Post
<1>3. \A e \in Call \ {c} : pc'[e] = pc[e] /\ req'[e] = req[e]
  BY OthersKeep DEF LogInv
<1>4. \A e \in transactions : req'[e] = req[e] /\ e \in transactions' /\ e \in Call
  BY RequestsStay
<1>5. pc[c] # "idle" => req' = req
  BY GateSteps DEF LogInv
<1> QED  BY <1>1, <1>2, <1>3, <1>4, <1>5

\* Every step keeps OneClaim: the key was free when the insert went through.
LEMMA OneClaimNext == LogInv /\ OneClaim /\ [Next]_vars => OneClaim'
<1> SUFFICES ASSUME LogInv, OneClaim, [Next]_vars PROVE OneClaim'
  OBVIOUS
<1>1. ASSUME NEW c \in Call, CallStep(c) PROVE OneClaim'
  <2>1. \A d \in Call : Claims(d) => req'[d] = req[d]
    BY <1>1, RequestsStay DEF Claims, PastGate, PastPeriodLock
  <2>2. \A d \in Call \ {c} : Claims(d)' <=> Claims(d)
    BY <1>1, OthersKeep DEF LogInv, Claims
  <2>3. CASE Claims(c)' => Claims(c)
    BY <2>1, <2>2, <2>3 DEF OneClaim, SameKey
  <2>4. CASE ~(Claims(c)' => Claims(c))
    <3>1. IdempotencyGate(c) /\ pc'[c] \in PastGate
      BY <1>1, <2>4, GateSteps DEF LogInv, Claims
    <3>2. KeyRow(c) = {} /\ ~KeyBusy(c) /\ req' = req
      BY <3>1 DEF IdempotencyGate, Goto, LogInv, TypeOK, PastGate, PastPeriodLock
    <3>3. \A d \in Call \ {c} : Claims(d) => ~SameKey(req[d], req[c])
      BY <3>2 DEF KeyRow, KeyBusy, HoldsKey, Claims
    <3> QED  BY <2>2, <3>2, <3>3 DEF OneClaim, SameKey
  <2> QED  BY <2>3, <2>4
<1>2. CASE Admin  BY <1>2, AdminKeeps DEF OneClaim, Claims, SameKey
<1>3. CASE UNCHANGED vars  BY <1>3 DEF OneClaim, Claims, SameKey, vars
<1> QED  BY <1>1, <1>2, <1>3, StepKinds

\* Every step keeps ResolveFinds and AnsweredLast.
LEMMA GatePlacesNext ==
    LogInv /\ ResolveFinds /\ AnsweredLast /\ [Next]_vars => ResolveFinds' /\ AnsweredLast'
<1> SUFFICES ASSUME LogInv, ResolveFinds, AnsweredLast, [Next]_vars PROVE ResolveFinds' /\ AnsweredLast'
  OBVIOUS
<1>1. ASSUME NEW c \in Call, CallStep(c) PROVE ResolveFinds' /\ AnsweredLast'
  <2>1. ASSUME NEW d \in Call, pc'[d] = "resolve" PROVE KeyRow(d)' # {}
    <3>1. KeyRow(d) # {} /\ pc[d] # "idle"
      <4>1. CASE d = c
        <5>1. IdempotencyGate(c)
          BY <1>1, <2>1, <4>1, GateSteps DEF LogInv
        <5> QED  BY <2>1, <4>1, <5>1 DEF IdempotencyGate, Goto, LogInv, TypeOK
      <4>2. CASE d # c
        <5>1. pc[d] = "resolve"
          BY <1>1, <2>1, <4>2, OthersKeep DEF LogInv
        <5> QED  BY <5>1 DEF ResolveFinds
      <4> QED  BY <4>1, <4>2
    <3>2. PICK e \in transactions : SameKey(req[e], req[d])
      BY <3>1 DEF KeyRow
    <3>3. e \in transactions' /\ req'[e] = req[e] /\ req'[d] = req[d]
      BY <1>1, <3>1, RequestsStay
    <3> QED  BY <3>2, <3>3 DEF KeyRow, SameKey
  <2>2. ASSUME NEW d \in Call, pc'[d] # "done" PROVE answer'[d] = NoAnswer
    <3>1. pc[d] # "done" /\ answer'[d] = answer[d]
      <4>1. CASE d = c
        <5>1. ~ResolveDuplicate(c) /\ ~Reply(c)
          BY <2>2, <4>1 DEF ResolveDuplicate, Reply, EndWith, LogInv, TypeOK
        <5> QED  BY <1>1, <2>2, <4>1, <5>1, GateSteps DEF LogInv
      <4>2. CASE d # c
        BY <1>1, <2>2, <4>2, OthersKeep DEF LogInv
      <4> QED  BY <4>1, <4>2
    <3> QED  BY <3>1 DEF AnsweredLast
  <2> QED  BY <2>1, <2>2 DEF ResolveFinds, AnsweredLast, NoAnswer
<1>2. ASSUME UNCHANGED <<pc, req, transactions, answer>> PROVE ResolveFinds' /\ AnsweredLast'
  BY <1>2 DEF ResolveFinds, AnsweredLast, KeyRow, SameKey, NoAnswer
<1>3. CASE Admin  BY <1>2, <1>3, AdminKeeps
<1>4. CASE UNCHANGED vars  BY <1>2, <1>4 DEF vars
<1> QED  BY <1>1, <1>3, <1>4, StepKinds

\* What a call is told when its key is found taken: the row under its key, of
\* which there is one, or a conflict with it.
LEMMA ResolveAnswers ==
    ASSUME LogInv, OneClaim, ResolveFinds, NEW c \in Call, ResolveDuplicate(c)
    PROVE  \E d \in transactions :
              /\ SameKey(req[d], req[c])
              /\ \/ /\ Payload(req[d]) = Payload(req[c])
                    /\ answer'[c] = Returned("duplicate", d)
                 \/ /\ Payload(req[d]) # Payload(req[c])
                    /\ answer'[c] = Refused("IDEMPOTENCY_CONFLICT")
<1>1. PICK d \in KeyRow(c) : TRUE
  BY DEF ResolveFinds, ResolveDuplicate
<1>2. \A e \in KeyRow(c) : e = d
  BY <1>1 DEF OneClaim, Claims, KeyRow, SameKey, LogInv, TypeOK
<1>3. d \in transactions /\ SameKey(req[d], req[c])
  BY <1>1 DEF KeyRow
<1>4. (CHOOSE e \in KeyRow(c) : TRUE) = d
  BY <1>1, <1>2
<1>5. CASE Payload(req[d]) = Payload(req[c])
  <2>1. \E e \in KeyRow(c) : Payload(req[e]) = Payload(req[c])
    BY <1>1, <1>5
  <2>2. answer'[c] = Returned("duplicate", d)
    BY <1>4, <2>1 DEF ResolveDuplicate, EndWith, LogInv, TypeOK
  <2> QED  BY <1>3, <1>5, <2>2
<1>6. CASE Payload(req[d]) # Payload(req[c])
  <2>1. ~\E e \in KeyRow(c) : Payload(req[e]) = Payload(req[c])
    BY <1>2, <1>6
  <2>2. answer'[c] = Refused("IDEMPOTENCY_CONFLICT")
    BY <2>1 DEF ResolveDuplicate, EndWith, LogInv, TypeOK
  <2> QED  BY <1>3, <1>6, <2>2
<1> QED  BY <1>5, <1>6

\* The fields of an answer.
LEMMA AnswerFields ==
    /\ NoAnswer.kind = "none" /\ NoAnswer.code = ""
    /\ \A code : Refused(code).kind = "refused" /\ Refused(code).code = code
    /\ \A tx : Returned("posted", tx).tx = tx /\ Returned("posted", tx).code = ""
    /\ \A tx : Returned("duplicate", tx).tx = tx /\ Returned("duplicate", tx).code = ""
BY DEF NoAnswer, Refused, Returned

\* A call whose answer the step leaves alone has been answered before, or not at all.
LEMMA OldAnswer ==
    ASSUME LogInv, AnsweredLast, NEW c \in Call, CallStep(c), NEW d \in Call, answer'[d] # NoAnswer
    PROVE  \/ answer'[d] = answer[d] /\ req'[d] = req[d]
           \/ /\ d = c /\ req'[d] = req[d]
              /\ ResolveDuplicate(c) \/ Reply(c)
           \/ /\ answer'[d].kind \in {"refused", "unknown"}
              /\ answer'[d].code # "IDEMPOTENCY_CONFLICT"
<1>1. CASE d # c
  BY <1>1, OthersKeep DEF LogInv
<1>2. CASE d = c
  <2>1. pc[c] # "done"
    BY GateSteps DEF LogInv
  <2>2. answer[c] = NoAnswer
    BY <2>1 DEF AnsweredLast
  <2>3. ResolveDuplicate(c) \/ Reply(c) => req' = req
    BY DEF ResolveDuplicate, Reply
  <2> QED  BY <1>2, <2>2, <2>3, GateSteps DEF LogInv
<1> QED  BY <1>1, <1>2

\* A committed transaction under the key, and the body it was asked for, stay.
LEMMA CommittedStays ==
    ASSUME LogInv, NEW c \in Call, CallStep(c), NEW d \in Call, NEW e \in transactions,
           req'[d] = req[d]
    PROVE  /\ e \in transactions'
           /\ SameKey(req[e], req[d]) <=> SameKey(req'[e], req'[d])
           /\ SameKey(req[d], req[e]) <=> SameKey(req'[d], req'[e])
           /\ Payload(req[e]) = Payload(req[d]) <=> Payload(req'[e]) = Payload(req'[d])
BY RequestsStay

\* Every step keeps IdempotencyOnce.
LEMMA OnceNext == LogInv /\ GateInv /\ [Next]_vars => IdempotencyOnce'
<1> SUFFICES ASSUME LogInv, GateInv, [Next]_vars PROVE IdempotencyOnce'
  OBVIOUS
<1>0. OneClaim' /\ transactions' \subseteq Call
  BY OneClaimNext, TypeNext DEF GateInv, LogInv, TypeOK
<1>1. \A c, d \in transactions' : SameKey(req'[c], req'[d]) => c = d
  BY <1>0 DEF OneClaim, Claims, SameKey
<1>2. ASSUME NEW c \in Call, CallStep(c), NEW d \in Call, answer'[d].kind \in {"posted", "duplicate"}
      PROVE  /\ answer'[d].tx \in transactions'
             /\ SameKey(req'[answer'[d].tx], req'[d])
             /\ Payload(req'[answer'[d].tx]) = Payload(req'[d])
  <2>0. answer'[d] # NoAnswer
    BY <1>2, AnswerFields
  <2>1. CASE answer'[d] = answer[d] /\ req'[d] = req[d]
    <3> DEFINE e == answer[d].tx
    <3>1. e \in transactions /\ SameKey(req[e], req[d]) /\ Payload(req[e]) = Payload(req[d])
      BY <1>2, <2>1 DEF GateInv, IdempotencyOnce, Settled
    <3>2. /\ e \in transactions' /\ SameKey(req'[e], req'[d])
          /\ Payload(req'[e]) = Payload(req'[d])
      BY <1>2, <2>1, <3>1, CommittedStays
    <3> QED  BY <2>1, <3>2
  <2>2. CASE d = c /\ req'[d] = req[d] /\ ResolveDuplicate(c)
    <3>1. PICK e \in transactions :
             /\ SameKey(req[e], req[c])
             /\ \/ Payload(req[e]) = Payload(req[c]) /\ answer'[c] = Returned("duplicate", e)
                \/ answer'[c] = Refused("IDEMPOTENCY_CONFLICT")
      BY <2>2, ResolveAnswers DEF GateInv
    <3>2. answer'[c] # Refused("IDEMPOTENCY_CONFLICT")
      BY <1>2, <2>2, AnswerFields
    <3>3. answer'[c].tx = e
      BY <3>1, <3>2, AnswerFields
    <3>4. /\ e \in transactions' /\ SameKey(req'[e], req'[c])
          /\ Payload(req'[e]) = Payload(req'[c])
      BY <1>2, <2>2, <3>1, <3>2, CommittedStays
    <3> QED  BY <2>2, <3>3, <3>4
  <2>3. CASE d = c /\ req'[d] = req[d] /\ Reply(c)
    <3>0. pc[c] = "reply" /\ answer'[c] = Returned("posted", c)
      BY <2>3 DEF Reply, EndWith, LogInv, TypeOK
    <3>1. answer'[c].tx = c /\ pc[c] = "reply"
      BY <3>0, AnswerFields
    <3>2. c \in transactions
      BY <3>1 DEF LogInv, Asked, AskedOf
    <3>3. c \in transactions'
      BY <1>2, <3>2, RequestsStay
    <3> QED  BY <2>3, <3>1, <3>3 DEF SameKey
  <2>4. answer'[d].kind \notin {"refused", "unknown"}
    BY <1>2
  <2> QED  BY <1>2, <2>0, <2>1, <2>2, <2>3, <2>4, OldAnswer DEF GateInv
<1>3. ASSUME NEW c \in Call, CallStep(c) PROVE IdempotencyOnce'
  BY <1>1, <1>2, <1>3 DEF IdempotencyOnce, Settled
<1>4. CASE Admin
  BY <1>4, AdminKeeps DEF GateInv, IdempotencyOnce, Settled
<1>5. CASE UNCHANGED vars
  BY <1>5 DEF GateInv, IdempotencyOnce, Settled, vars
<1> QED  BY <1>3, <1>4, <1>5, StepKinds

\* Every step keeps ConflictIsReal.
LEMMA ConflictNext == LogInv /\ GateInv /\ [Next]_vars => ConflictIsReal'
<1> SUFFICES ASSUME LogInv, GateInv, [Next]_vars PROVE ConflictIsReal'
  OBVIOUS
<1>1. ASSUME NEW c \in Call, CallStep(c), NEW d \in Call,
             answer'[d] = Refused("IDEMPOTENCY_CONFLICT")
      PROVE  \E e \in transactions' : /\ SameKey(req'[d], req'[e])
                                      /\ Payload(req'[d]) # Payload(req'[e])
  <2>0. answer'[d] # NoAnswer /\ answer'[d].code = "IDEMPOTENCY_CONFLICT"
    BY <1>1, AnswerFields
  <2>1. CASE answer'[d] = answer[d] /\ req'[d] = req[d]
    <3>1. PICK e \in transactions : SameKey(req[d], req[e]) /\ Payload(req[d]) # Payload(req[e])
      BY <1>1, <2>1 DEF GateInv, ConflictIsReal
    <3> QED  BY <1>1, <2>1, <3>1, CommittedStays
  <2>2. CASE d = c /\ req'[d] = req[d] /\ ResolveDuplicate(c)
    <3>1. PICK e \in transactions :
             /\ SameKey(req[e], req[c])
             /\ \/ answer'[c] = Returned("duplicate", e)
                \/ /\ Payload(req[e]) # Payload(req[c])
                   /\ answer'[c] = Refused("IDEMPOTENCY_CONFLICT")
      BY <2>2, ResolveAnswers DEF GateInv
    <3>2. answer'[c] # Returned("duplicate", e)
      BY <2>0, <2>2, AnswerFields
    <3>3. SameKey(req[c], req[e])
      BY <3>1 DEF SameKey
    <3> QED  BY <1>1, <2>2, <3>1, <3>2, <3>3, CommittedStays
  <2>3. CASE d = c /\ Reply(c)
    <3>1. answer'[c] = Returned("posted", c)
      BY <2>3 DEF Reply, EndWith, LogInv, TypeOK
    <3> QED  BY <2>0, <2>3, <3>1, AnswerFields
  <2> QED  BY <1>1, <2>0, <2>1, <2>2, <2>3, OldAnswer DEF GateInv
<1>2. ASSUME NEW c \in Call, CallStep(c) PROVE ConflictIsReal'
  BY <1>1, <1>2 DEF ConflictIsReal, Refused
<1>3. CASE Admin
  BY <1>3, AdminKeeps DEF GateInv, ConflictIsReal, Refused
<1>4. CASE UNCHANGED vars
  BY <1>4 DEF GateInv, ConflictIsReal, Refused, vars
<1> QED  BY <1>2, <1>3, <1>4, StepKinds

\* The initial states satisfy GateInv.
LEMMA GateInit == Init => GateInv
<1> SUFFICES ASSUME Init PROVE GateInv
  OBVIOUS
<1>1. OneClaim /\ ResolveFinds /\ AnsweredLast
  BY DEF Init, OneClaim, Claims, PastGate, PastPeriodLock, ResolveFinds, AnsweredLast
<1>2. \A c \in Call : answer[c].kind = "none" /\ answer[c].code = ""
  BY AnswerFields DEF Init
<1>3. IdempotencyOnce
  BY <1>2 DEF Init, IdempotencyOnce, Settled
<1>4. ConflictIsReal
  BY <1>2, AnswerFields DEF ConflictIsReal
<1> QED  BY <1>1, <1>3, <1>4 DEF GateInv

\* GateInv holds in every reachable state.
THEOREM GateAlways == Spec => []GateInv
<1>1. LogInv /\ GateInv /\ [Next]_vars => GateInv'
  BY OneClaimNext, GatePlacesNext, OnceNext, ConflictNext DEF GateInv
<1> QED  BY <1>1, GateInit, LogAlways, PTL DEF Spec

\* However retries with one key overlap, fail or lose their reply, at most one of
\* them is committed, and all that are told a transaction are told that one, with
\* the body they asked for (the gate of post.ts:79-103 and resolveDuplicate).
THEOREM OnceForEachKey == Spec => []IdempotencyOnce
<1>1. GateInv => IdempotencyOnce
  BY DEF GateInv
<1> QED  BY <1>1, GateAlways, PTL

\* A conflict is reported only against a committed transaction with another body,
\* so the "idempotency race" branch of resolveDuplicate (post.ts:267-271) is dead.
THEOREM ConflictsAreReal == Spec => []ConflictIsReal
<1>1. GateInv => ConflictIsReal
  BY DEF GateInv
<1> QED  BY <1>1, GateAlways, PTL

-----------------------------------------------------------------------------
(***************************************************************************)
(* The row locks.                                                          *)
(***************************************************************************)
\* What a step of a call does to the statuses, and to what it knows of them.
LEMMA LockSteps ==
    ASSUME TypeOK, NEW c \in Call, CallStep(c)
    PROVE  /\ accounts' = accounts
           /\ \/ periods' = periods
              \/ /\ Commit(c)
                 /\ periods' = [periods EXCEPT ![<<req[c].tenant, PostingPeriod(req[c])>>] = "OPEN"]
           /\ pc'[c] \in PastPeriodLock =>
                 /\ req' = req /\ periods' = periods /\ pending'[c].period = pending[c].period
                 /\ \/ pc[c] = "lockPeriod" /\ pc'[c] = "lockAccounts"
                       /\ PeriodSeen(c) = "OPEN" /\ todo'[c] = TouchedBy(c)
                    \/ pc[c] = "lockAccounts"
                       /\ \E a \in Account : IsNext(c, a) /\ AccountError(c, a) = ""
                                             /\ NextTurn(c, a, "lockAccounts", "readSeq")
                    \/ pc[c] \in PastAccountLocks /\ pc'[c] \in PastAccountLocks
<1> USE DEF TypeOK, tables, Goto, EndWith, Refuse, PastPeriodLock, PastAccountLocks
<1>1. CASE \E r \in Request : Submit(c, r)  BY <1>1, SubmitEffect
<1>2. CASE Begin(c)  BY <1>2 DEF Begin
<1>3. CASE IdempotencyGate(c)  BY <1>3 DEF IdempotencyGate
<1>4. CASE ResolveDuplicate(c)  BY <1>4 DEF ResolveDuplicate
<1>5. CASE CreatePeriod(c)  BY <1>5 DEF CreatePeriod
<1>6. CASE LockPeriod(c)  BY <1>6 DEF LockPeriod
<1>7. CASE LockAccount(c)  BY <1>7 DEF LockAccount
<1>8. CASE ReadSeq(c)  BY <1>8 DEF ReadSeq
<1>9. CASE InsertEntries(c)
  <2>1. /\ pc[c] = "insertEntries" /\ UNCHANGED <<accounts, periods, req>>
        /\ \E a \in Account :
              \/ EndWith(c, Unknown)
              \/ /\ pending' = [pending EXCEPT ![c].entries = @ \cup NewEntries(c, a)]
                 /\ NextTurn(c, a, "readSeq", "readPosition")
    BY <1>9 DEF InsertEntries
  <2>2. CASE EndWith(c, Unknown)  BY <2>1, <2>2
  <2>3. ASSUME NEW a \in Account,
               pending' = [pending EXCEPT ![c].entries = @ \cup NewEntries(c, a)],
               NextTurn(c, a, "readSeq", "readPosition")
        PROVE  pending'[c].period = pending[c].period /\ pc'[c] \in {"readSeq", "readPosition"}
    BY <2>3 DEF NextTurn, Writes
  <2> QED  BY <2>1, <2>2, <2>3
<1>10. CASE ReadPosition(c)  BY <1>10 DEF ReadPosition, NextTurn
<1>11. CASE UpsertBalance(c)
  <2>1. /\ pc[c] = "upsertBalance" /\ UNCHANGED <<accounts, periods, req>>
        /\ \E a \in Account :
              \/ EndWith(c, Unknown) \/ EndWith(c, Refused("INSUFFICIENT_FUNDS"))
              \/ /\ pending' = [pending EXCEPT ![c].balances[a] = NewBalance(c, a)]
                 /\ NextTurn(c, a, "readPosition", "insertOutbox")
    BY <1>11 DEF UpsertBalance
  <2>2. CASE EndWith(c, Unknown) \/ EndWith(c, Refused("INSUFFICIENT_FUNDS"))  BY <2>1, <2>2
  <2>3. ASSUME NEW a \in Account,
               pending' = [pending EXCEPT ![c].balances[a] = NewBalance(c, a)],
               NextTurn(c, a, "readPosition", "insertOutbox")
        PROVE  pending'[c].period = pending[c].period /\ pc'[c] \in {"readPosition", "insertOutbox"}
    BY <2>3 DEF NextTurn, Writes
  <2> QED  BY <2>1, <2>2, <2>3
<1>12. CASE InsertOutbox(c)  BY <1>12 DEF InsertOutbox, Writes
<1>13. CASE Commit(c)  BY <1>13 DEF Commit
<1>14. CASE Reply(c)  BY <1>14 DEF Reply
<1>15. CASE Fail(c)  BY <1>15 DEF Fail
<1> QED
  BY <1>1, <1>2, <1>3, <1>4, <1>5, <1>6, <1>7, <1>8, <1>9, <1>10, <1>11, <1>12, <1>13,
     <1>14, <1>15 DEF CallStep, Post

\* A period that is OPEN stays so for a call that is past its lock, unless an
\* administrator's statement could have the row.
LEMMA PeriodNext == LogInv /\ LockInv /\ [Next]_vars => PeriodStaysOpen'
<1> SUFFICES ASSUME LogInv, LockInv, [Next]_vars PROVE PeriodStaysOpen'
  OBVIOUS
<1> DEFINE Row(d) == <<req[d].tenant, PostingPeriod(req[d])>>
<1>0. ASSUME NEW d \in Call, pc[d] \in PastPeriodLock PROVE Row(d) \in Tenant \X Period
  BY <1>0, AskedRequest DEF LogInv, PastPeriodLock, Place, InTransaction
<1>1. ASSUME NEW c \in Call, CallStep(c) PROVE PeriodStaysOpen'
  <2>1. ASSUME NEW d \in Call, pc'[d] \in PastPeriodLock PROVE PeriodSeen(d)' = "OPEN"
    <3>1. /\ req'[d] = req[d] /\ pending'[d].period = pending[d].period /\ PeriodSeen(d) = "OPEN"
          /\ d = c => periods' = periods
      <4>1. CASE d = c
        BY <1>1, <2>1, <4>1, LockSteps DEF LogInv, LockInv, PeriodStaysOpen, PastPeriodLock, PastAccountLocks
      <4>2. CASE d # c
        BY <1>1, <2>1, <4>2, OthersKeep DEF LogInv, LockInv, PeriodStaysOpen
      <4> QED  BY <4>1, <4>2
    <3>2. CASE periods' = periods
      BY <3>1, <3>2 DEF PeriodSeen
    <3>3. CASE d # c /\ \E x : periods' = [periods EXCEPT ![x] = "OPEN"]
      <4>1. pc[d] \in PastPeriodLock
        BY <1>1, <2>1, <3>3, OthersKeep DEF LogInv
      <4>2. Row(d) \in Tenant \X Period
        BY <1>0, <4>1
      <4>3. periods[Row(d)] = "OPEN" => periods'[Row(d)] = "OPEN"
        BY <3>3, <4>2 DEF LogInv, TypeOK
      <4> QED  BY <3>1, <4>3 DEF PeriodSeen
    <3> QED  BY <1>1, <3>1, <3>2, <3>3, LockSteps DEF LogInv
  <2> QED  BY <2>1 DEF PeriodStaysOpen
<1>2. CASE Admin
  <2>1. ASSUME NEW d \in Call, pc[d] \in PastPeriodLock, periods[Row(d)] = "OPEN"
        PROVE  periods'[Row(d)] = "OPEN"
    <3>1. Row(d) \in Tenant \X Period
      BY <1>0, <2>1
    <3>2. \/ periods' = periods
          \/ \E t \in Tenant, p \in Period : periods' = [periods EXCEPT ![<<t, p>>] = "OPEN"]
          \/ \E t \in Tenant, p \in Period, s \in PeriodInput :
                ~PeriodLocked(t, p) /\ periods' = [periods EXCEPT ![<<t, p>>] = s]
      BY <1>2 DEF Admin, CreateAccount, SetAccountStatus, OpenPeriod, SetPeriodStatus
    <3>3. ASSUME NEW t \in Tenant, NEW p \in Period, NEW s \in PeriodInput,
                 ~PeriodLocked(t, p), periods' = [periods EXCEPT ![<<t, p>>] = s]
          PROVE  periods'[Row(d)] = "OPEN"
      <4>1. Row(d) # <<t, p>>
        BY <2>1, <3>3 DEF PeriodLocked, HoldsPeriod
      <4> QED  BY <2>1, <3>1, <3>3, <4>1 DEF LogInv, TypeOK
    <3>4. ASSUME NEW t \in Tenant, NEW p \in Period, periods' = [periods EXCEPT ![<<t, p>>] = "OPEN"]
          PROVE  periods'[Row(d)] = "OPEN"
      BY <2>1, <3>1, <3>4 DEF LogInv, TypeOK
    <3> QED  BY <2>1, <3>2, <3>3, <3>4
  <2>2. UNCHANGED <<pc, req, pending>>
    BY <1>2, AdminKeeps
  <2> QED  BY <2>1, <2>2 DEF LockInv, PeriodStaysOpen, PeriodSeen
<1>3. CASE UNCHANGED vars
  BY <1>3 DEF LockInv, PeriodStaysOpen, PeriodSeen, vars
<1> QED  BY <1>1, <1>2, <1>3, StepKinds

\* An account that was found ACTIVE stays so for the call that has it locked.
LEMMA AccountsNext == LogInv /\ LockInv /\ [Next]_vars => AccountsStayActive'
<1> SUFFICES ASSUME LogInv, LockInv, [Next]_vars PROVE AccountsStayActive'
  OBVIOUS
<1> DEFINE Locked(d, a) == a \in TouchedBy(d) /\ (pc[d] \in PastAccountLocks \/ a \notin todo[d])
           Row(d, a) == <<req[d].tenant, a>>
<1>0. ASSUME NEW d \in Call, pc[d] \in PastPeriodLock
      PROVE  req[d] # None /\ req[d].tenant \in Tenant
  BY <1>0, AskedRequest, RequestAssumption DEF LogInv, PastPeriodLock, Place, InTransaction
<1>1. ASSUME NEW d \in Call, NEW a \in Account, pc[d] \in PastPeriodLock, Locked(d, a)
      PROVE  HoldsAccount(d, req[d].tenant, a) /\ accounts[Row(d, a)] = "ACTIVE"
  <2>1. HoldsAccount(d, req[d].tenant, a)
    BY <1>0, <1>1 DEF HoldsAccount, PastAccountLocks
  <2> QED  BY <1>1, <2>1 DEF LockInv, AccountsStayActive
<1>2. ASSUME NEW c \in Call, CallStep(c), NEW d \in Call, NEW a \in Account,
             pc'[d] \in PastPeriodLock, Locked(d, a)'
      PROVE  accounts'[Row(d, a)'] = "ACTIVE"
  <2>0. accounts' = accounts
    BY <1>2, LockSteps DEF LogInv
  <2>1. CASE d # c
    <3>1. pc[d] \in PastPeriodLock /\ Locked(d, a) /\ Row(d, a)' = Row(d, a)
      BY <1>2, <2>1, OthersKeep DEF LogInv, TouchedBy
    <3> QED  BY <1>1, <2>0, <3>1
  <2>2. CASE d = c
    <3>1. req' = req
      BY <1>2, <2>2, LockSteps DEF LogInv
    <3>2. TouchedBy(c)' = TouchedBy(c) /\ Row(c, a)' = Row(c, a)
      BY <3>1 DEF TouchedBy
    <3>3. CASE pc'[c] = "lockAccounts" /\ todo'[c] = TouchedBy(c)
      BY <1>2, <2>2, <3>2, <3>3 DEF PastAccountLocks, PastPeriodLock
    <3>4. ASSUME pc[c] = "lockAccounts", NEW b \in Account, IsNext(c, b), AccountError(c, b) = "",
                 NextTurn(c, b, "lockAccounts", "readSeq")
          PROVE  accounts'[Row(c, a)'] = "ACTIVE"
      <4>1. CASE a = b
        BY <2>0, <3>2, <3>4, <4>1, NoAccountError
      <4>2. CASE a # b
        <5>1. a \notin todo[c]
          <6>1. CASE todo[c] = {b}  BY <4>2, <6>1
          <6>2. CASE todo[c] # {b}
            <7>1. pc'[c] = "lockAccounts" /\ todo'[c] = todo[c] \ {b}
              BY <3>4, <6>2 DEF NextTurn, Goto, LogInv, TypeOK
            <7>2. a \notin todo'[c]
              BY <1>2, <2>2, <7>1 DEF PastAccountLocks
            <7> QED  BY <4>2, <7>1, <7>2
          <6> QED  BY <6>1, <6>2
        <5> QED  BY <1>1, <1>2, <2>0, <2>2, <3>2, <3>4, <5>1 DEF PastPeriodLock
      <4> QED  BY <4>1, <4>2
    <3>5. CASE pc[c] \in PastAccountLocks /\ pc'[c] \in PastAccountLocks
      BY <1>1, <1>2, <2>0, <2>2, <3>2, <3>5 DEF PastAccountLocks
    <3> QED  BY <1>2, <2>2, <3>3, <3>4, <3>5, LockSteps DEF LogInv
  <2> QED  BY <2>1, <2>2
<1>3. ASSUME NEW d \in Call, NEW a \in Account, pc'[d] \in PastPeriodLock,
             HoldsAccount(d, req[d].tenant, a)'
      PROVE  Locked(d, a)'
  BY <1>3 DEF HoldsAccount, PastAccountLocks
<1>4. ASSUME NEW c \in Call, CallStep(c) PROVE AccountsStayActive'
  BY <1>2, <1>3, <1>4 DEF AccountsStayActive
<1>5. CASE Admin
  <2>1. ASSUME NEW d \in Call, NEW a \in Account, pc[d] \in PastPeriodLock, Locked(d, a)
        PROVE  accounts'[Row(d, a)] = "ACTIVE"
    <3>1. /\ HoldsAccount(d, req[d].tenant, a) /\ accounts[Row(d, a)] = "ACTIVE"
          /\ Row(d, a) \in Tenant \X Account
      BY <1>0, <1>1, <2>1
    <3>2. \/ accounts' = accounts
          \/ \E t \in Tenant, b \in Account : accounts' = [accounts EXCEPT ![<<t, b>>] = "ACTIVE"]
          \/ \E t \in Tenant, b \in Account, s \in AccountInput :
                ~AccountLocked(t, b) /\ accounts' = [accounts EXCEPT ![<<t, b>>] = s]
      BY <1>5 DEF Admin, CreateAccount, SetAccountStatus, OpenPeriod, SetPeriodStatus
    <3>3. ASSUME NEW t \in Tenant, NEW b \in Account, NEW s \in AccountInput,
                 ~AccountLocked(t, b), accounts' = [accounts EXCEPT ![<<t, b>>] = s]
          PROVE  accounts'[Row(d, a)] = "ACTIVE"
      <4>1. Row(d, a) # <<t, b>>
        BY <3>1, <3>3 DEF AccountLocked
      <4> QED  BY <3>1, <3>3, <4>1 DEF LogInv, TypeOK
    <3>4. ASSUME NEW t \in Tenant, NEW b \in Account, accounts' = [accounts EXCEPT ![<<t, b>>] = "ACTIVE"]
          PROVE  accounts'[Row(d, a)] = "ACTIVE"
      BY <3>1, <3>4 DEF LogInv, TypeOK
    <3> QED  BY <3>1, <3>2, <3>3, <3>4
  <2>2. UNCHANGED <<pc, req, todo>>
    BY <1>5, AdminKeeps
  <2>3. ASSUME NEW d \in Call, NEW a \in Account, pc'[d] \in PastPeriodLock, Locked(d, a)'
        PROVE  accounts'[Row(d, a)'] = "ACTIVE"
    BY <2>1, <2>2, <2>3 DEF TouchedBy
  <2> QED  BY <1>3, <2>3 DEF AccountsStayActive
<1>6. CASE UNCHANGED vars
  BY <1>6 DEF LockInv, AccountsStayActive, HoldsAccount, TouchedBy, vars
<1> QED  BY <1>4, <1>5, <1>6, StepKinds

\* Only Commit leads from the last statement to the reply.
LEMMA CommitPlace ==
    ASSUME TypeOK, NEW c \in Call, CallStep(c), pc[c] = "commit", pc'[c] = "reply"
    PROVE  Commit(c)
<1> USE DEF TypeOK, EndWith
<1>1. ~\E r \in Request : Submit(c, r)  BY SubmitEffect
<1>2. ~Fail(c)  BY DEF Fail
<1> QED
  BY <1>1, <1>2 DEF CallStep, Post, Begin, IdempotencyGate, ResolveDuplicate, CreatePeriod,
     LockPeriod, LockAccount, ReadSeq, InsertEntries, ReadPosition, UpsertBalance, InsertOutbox, Reply

\* LockInv holds in every reachable state.
THEOREM LockAlways == Spec => []LockInv
<1>1. Init => LockInv
  BY DEF Init, LockInv, PeriodStaysOpen, AccountsStayActive, PastPeriodLock
<1>2. LogInv /\ LockInv /\ [Next]_vars => LockInv'
  BY PeriodNext, AccountsNext DEF LockInv
<1> QED  BY <1>1, <1>2, LogAlways, PTL DEF Spec

\* Whatever the administrators do while a call runs, it commits only while its
\* period is OPEN and its accounts are ACTIVE (FOR UPDATE, post.ts:113-155).
THEOREM CommitsRespectStatuses == Spec => CommitRespectsStatuses
<1> DEFINE Respects(c) ==
              /\ periods'[<<req[c].tenant, PostingPeriod(req[c])>>] = "OPEN"
              /\ \A a \in TouchedBy(c) : accounts[<<req[c].tenant, a>>] = "ACTIVE"
<1>1. LogInv /\ LockInv /\ [Next]_vars => [\A c \in transactions' \ transactions : Respects(c)]_vars
  <2> SUFFICES ASSUME LogInv, LockInv, [Next]_vars, NEW c \in transactions' \ transactions
               PROVE  Respects(c)
    OBVIOUS
  <2>1. c \in Call /\ CallStep(c)
    <3>1. CASE Admin \/ UNCHANGED vars  BY <3>1, AdminKeeps DEF vars
    <3>2. ASSUME NEW d \in Call, CallStep(d) PROVE c = d
      BY <3>2, LogSteps DEF LogInv, KeepsLog, Appends, CommitsLog
    <3> QED  BY <3>1, <3>2, StepKinds
  <2>2. CommitsLog(c)
    BY <2>1, LogSteps DEF LogInv, KeepsLog, Appends
  <2>3. pc[c] = "commit" /\ pc[c] \in PastPeriodLock /\ pc[c] \in PastAccountLocks
    BY <2>2 DEF CommitsLog, PastPeriodLock, PastAccountLocks
  <2>4. /\ req[c] # None /\ TouchedBy(c) \subseteq Account
        /\ <<req[c].tenant, PostingPeriod(req[c])>> \in Tenant \X Period
    BY <2>1, <2>3, AskedRequest, RequestAssumption DEF LogInv, Place, InTransaction
  <2>5. periods'[<<req[c].tenant, PostingPeriod(req[c])>>] = "OPEN"
    <3>1. PeriodSeen(c) = "OPEN"
      BY <2>1, <2>3 DEF LockInv, PeriodStaysOpen
    <3>2. Commit(c)
      BY <2>1, <2>2, <2>3, CommitPlace DEF LogInv, CommitsLog
    <3>3. periods' = IF pending[c].period
                     THEN [periods EXCEPT ![<<req[c].tenant, PostingPeriod(req[c])>>] = "OPEN"]
                     ELSE periods
      BY <2>2, <3>2 DEF Commit, Refuse, EndWith, CommitsLog, LogInv, TypeOK
    <3> QED  BY <2>4, <3>1, <3>3 DEF PeriodSeen, LogInv, TypeOK
  <2>6. \A a \in TouchedBy(c) : accounts[<<req[c].tenant, a>>] = "ACTIVE"
    BY <2>1, <2>3, <2>4 DEF LockInv, AccountsStayActive, HoldsAccount
  <2> QED  BY <2>5, <2>6
<1> QED  BY <1>1, LogAlways, LockAlways, PTL DEF Spec, CommitRespectsStatuses
=============================================================================
