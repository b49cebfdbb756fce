-------------------------- MODULE Reversal_proofs --------------------------
(***************************************************************************)
(* Theorems about reversals, for every set of calls, requests and inputs.  *)
(*                                                                         *)
(* A call that reverses reads outside any transaction, so nothing it has   *)
(* read need still be true when it posts, save what never changes: that    *)
(* its target is committed, of which tenant it is and what it was asked.   *)
(* RevInv says that this much is known at each statement, and that the     *)
(* posting itself keeps the invariants of the write path (PostInv).        *)
(***************************************************************************)
EXTENDS Reversal, Posting_proofs

\* Callers that post do not say what their posting reverses: POST /v1/transactions
\* has no such field (server.ts:152-165), only reverse.ts:80 fills it in.
OwnNotReversals == \A r \in OwnRequest : r.reverses = None

\* The invariants of the write path a reversal relies on.
PostInv ==
    /\ LogInv /\ OwnRows /\ WholeSoFar /\ WholeOnceCommitted /\ RowsFinite
    /\ OneClaim /\ ResolveFinds /\ AnsweredLast

\* A call reads before it posts.
Reading ==
    /\ input \in [Call -> ReverseInput \cup {None}]
    /\ step \in [Call -> {"getTransaction", "prior", "already", ""}]
    /\ \A c \in Call :
          /\ step[c] # "" => pc[c] = "idle" /\ input[c] # None
          /\ pc[c] = "idle" => req[c] = None

\* What getTransaction has found stays true.
TargetFound ==
    \A c \in Call : step[c] \in {"prior", "already"} =>
        input[c].target \in transactions /\ Target(c).tenant = input[c].tenant

\* A call that was to reverse asks for a reversal of what it was given.
InputAsked == \A c \in Call : input[c] # None /\ req[c] # None => req[c].reverses = input[c].target

Cancels(r, s) ==
    /\ r.tenant = s.tenant /\ s.kind # "REVERSAL" /\ DOMAIN r.legs = DOMAIN s.legs
    /\ \A a \in DOMAIN s.legs : r.legs[a] = [i \in DOMAIN s.legs[a] |-> -s.legs[a][i]]

\* Every reversal that is asked for cancels a committed transaction.
ReversalsAsked ==
    \A d \in Call : req[d] # None /\ req[d].reverses # None =>
        req[d].reverses \in transactions /\ Cancels(req[d], req[req[d].reverses])

RevInv == PostInv /\ Reading /\ TargetFound /\ InputAsked /\ DuplicateIsReversal

-----------------------------------------------------------------------------
(***************************************************************************)
(* The steps.                                                              *)
(***************************************************************************)
\* The call is answered while it reads.
EndsReading(c) ==
    /\ pc[c] = "idle" /\ \E ans \in Answer : EndWith(c, ans)
    /\ UNCHANGED <<tables, nextEvent, req, todo, base>>

\* A step of the reading, before the call is answered or posts.
Reads(c) ==
    /\ UNCHANGED <<vars, input>>
    /\ \E s \in {"prior", "already"} :
          /\ step' = [step EXCEPT ![c] = s] /\ step[c] # ""
          /\ input[c].target \in transactions /\ Target(c).tenant = input[c].tenant

\* The call posts its reversal.
PostsReversal(c) ==
    /\ step[c] = "already" /\ Target(c).kind # "REVERSAL"
    /\ \E now \in Instant : Submit(c, ReversalRequest(input[c], Target(c), now))
    /\ step' = [step EXCEPT ![c] = ""] /\ input' = input

\* The call that reads is answered.
EndsReversal(c) ==
    /\ step[c] # "" /\ EndsReading(c)
    /\ step' = [step EXCEPT ![c] = ""] /\ input' = input
    /\ Settled(c)' => answer'[c].tx \in transactions /\ req[answer'[c].tx].reverses = input[c].target

\* The transaction with the key of a call is one, by the gate.
LEMMA PriorIsOne ==
    ASSUME PostInv, NEW c \in Call, NEW d \in PriorWithKey(c)
    PROVE  (CHOOSE e \in PriorWithKey(c) : TRUE) = d
<1>1. \A e \in PriorWithKey(c) : Claims(e) /\ e \in Call /\ SameKey(req[e], req[d])
  BY DEF PriorWithKey, Claims, SameKey, PostInv, LogInv, TypeOK
<1>2. \A e \in PriorWithKey(c) : e = d
  BY <1>1 DEF PostInv, OneClaim
<1> QED  BY <1>2

\* A step of reverse.ts or of post() is one of these.
LEMMA RevKinds ==
    ASSUME PostInv, Reading, TargetFound, [RevNext]_allVars
    PROVE  \/ \E c \in Call :
                 \/ \E r \in OwnRequest : PostRequest(c, r)
                 \/ \E in \in ReverseInput : Reverse(c, in)
                 \/ Reads(c) \/ PostsReversal(c) \/ EndsReversal(c)
                 \/ (Post(c) \/ Fail(c)) /\ UNCHANGED rvars
           \/ Admin /\ UNCHANGED rvars
           \/ UNCHANGED allVars
<1> DEFINE Kind(c) == Reads(c) \/ PostsReversal(c) \/ EndsReversal(c)
<1>0. "" \in Code
  BY DEF Code
<1>1. ASSUME NEW c \in Call, NEW ans \in Answer, step[c] # "", Answered(c, ans),
             ans.kind \in {"posted", "duplicate"} =>
                 ans.tx \in transactions /\ req[ans.tx].reverses = input[c].target
      PROVE  EndsReversal(c)
  <2>1. pc[c] = "idle"
    BY <1>1 DEF Reading
  <2>2. answer'[c] = ans
    BY <1>1 DEF Answered, EndWith, PostInv, LogInv, TypeOK
  <2> QED  BY <1>1, <2>1, <2>2 DEF Answered, EndsReversal, EndsReading, Settled
<1>2. ASSUME NEW c \in Call, GetTransaction(c) PROVE Kind(c)
  <2>1. CASE input[c].target \in transactions /\ Target(c).tenant = input[c].tenant
    BY <1>2, <2>1 DEF GetTransaction, GoOn, Reads
  <2>2. CASE ~(input[c].target \in transactions /\ Target(c).tenant = input[c].tenant)
    <3>1. Refused("TRANSACTION_NOT_FOUND") \in Answer
      BY AnswerTypes DEF Code
    <3> QED  BY <1>1, <1>2, <2>2, <3>1, AnswerFields DEF GetTransaction
  <2> QED  BY <2>1, <2>2
<1>3. ASSUME NEW c \in Call, LookUpKey(c) PROVE Kind(c)
  <2>1. CASE PriorWithKey(c) \cap ReversalsOf(input[c].target) # {}
    <3>1. PICK d \in PriorWithKey(c) : d \in ReversalsOf(input[c].target)
      BY <2>1
    <3>2. Answered(c, Returned("duplicate", d))
      BY <1>3, <2>1, PriorIsOne DEF LookUpKey
    <3>3. d \in transactions /\ d \in Call /\ req[d].reverses = input[c].target
      BY <3>1 DEF ReversalsOf, PostInv, LogInv, TypeOK
    <3>4. Returned("duplicate", d) \in Answer
      BY <1>0, <3>3, AnswerTypes
    <3>5. step[c] # ""
      BY <1>3 DEF LookUpKey
    <3>6. Returned("duplicate", d).tx = d
      BY AnswerFields
    <3> QED  BY <1>1, <3>2, <3>3, <3>4, <3>5, <3>6
  <2>2. CASE PriorWithKey(c) \cap ReversalsOf(input[c].target) = {}
    BY <1>3, <2>2 DEF LookUpKey, GoOn, Reads, TargetFound
  <2> QED  BY <2>1, <2>2
<1>4. ASSUME NEW c \in Call, LookUpReversal(c) PROVE Kind(c)
  <2>1. ASSUME NEW code \in {"ALREADY_REVERSED", "VALIDATION_FAILED"}, Answered(c, Refused(code))
        PROVE  Kind(c)
    <3>1. Refused(code) \in Answer
      BY <2>1, AnswerTypes DEF Code
    <3> QED  BY <1>1, <1>4, <2>1, <3>1, AnswerFields DEF LookUpReversal
  <2>2. CASE ReversalsOf(input[c].target) = {} /\ Target(c).kind # "REVERSAL"
    BY <1>4, <2>2 DEF LookUpReversal, PostsReversal
  <2> QED  BY <1>4, <2>1, <2>2 DEF LookUpReversal
<1>5. ASSUME NEW c \in Call, FailReading(c) PROVE Kind(c)
  BY <1>0, <1>1, <1>5, AnswerTypes DEF FailReading, Unknown
<1> QED  BY <1>2, <1>3, <1>4, <1>5 DEF RevNext

\* A call that is answered while it reads has written nothing and holds nothing.
LEMMA EndsKeep ==
    ASSUME PostInv, NEW c \in Call, EndsReading(c)
    PROVE  /\ c \notin transactions /\ pc[c] = "idle" /\ pc' = [pc EXCEPT ![c] = "done"]
           /\ \A d \in Call : pending'[d].entries = pending[d].entries
           /\ \A d \in Call \ {c} : answer'[d] = answer[d] /\ pending'[d] = pending[d]
           /\ UNCHANGED <<tables, nextEvent, req, todo, base>>
<1>1. c \notin transactions
  BY DEF EndsReading, PostInv, LogInv, Asked, AskedOf
<1>2. pending[c].entries = {} /\ NoWrites.entries = {}
  BY DEF EndsReading, PostInv, LogInv, Written, WrittenOf, PastAccountLocks, PastPeriodLock, NoWrites
<1>3. pending' = [pending EXCEPT ![c] = NoWrites] /\ pending \in [Call -> Writes]
  BY DEF EndsReading, EndWith, PostInv, LogInv, TypeOK
<1>4. \A d \in Call : pending'[d].entries = pending[d].entries
  BY <1>2, <1>3
<1> QED  BY <1>1, <1>3, <1>4 DEF EndsReading, EndWith, PostInv, LogInv, TypeOK

\* So LogInv stays.
LEMMA EndsKeepLog ==
    ASSUME PostInv, NEW c \in Call, EndsReading(c)
    PROVE  LogInv'
<1> USE EndsKeep
<1>1. TypeOK'
  BY EndWithType DEF EndsReading, PostInv, LogInv, TypeOK, tables
<1>2. pc \in [Call -> Place] /\ UNCHANGED <<entries, transactions, balances, req, todo, base>>
  BY DEF PostInv, LogInv, TypeOK, tables
<1>3. \A d \in Call : pc'[d] = pc[d] \/ (d = c /\ pc'[d] = "done")
  BY <1>2
<1>4. Asked' /\ Written'
  BY <1>2, <1>3 DEF PostInv, LogInv, Asked, AskedOf, Written, WrittenOf, TouchedBy,
                    PastPeriodLock, PastAccountLocks
<1>5. \A d \in Call, a \in Account : LogSeen(d, a)' = LogSeen(d, a)
  BY <1>2 DEF LogSeen
<1>6. LogsNumbered' /\ CommittedRows'
  BY <1>2, <1>5 DEF PostInv, LogInv, LogsNumbered, CommittedRows, LogOf
<1>7. BaseInLog'
  BY <1>2, <1>3 DEF PostInv, LogInv, BaseInLog, BaseOf, IsNext, LogOf
<1> QED  BY <1>1, <1>4, <1>6, <1>7 DEF LogInv

\* And the rest of PostInv.
LEMMA EndsKeepPost ==
    ASSUME PostInv, NEW c \in Call, EndsReading(c)
    PROVE  PostInv'
<1>1. /\ UNCHANGED <<entries, transactions, balances, outbox, req, todo, base>>
      /\ \A d \in Call : pending'[d].entries = pending[d].entries
      /\ \A d \in Call : pc'[d] = pc[d] \/ (d = c /\ pc'[d] = "done")
      /\ \A d \in Call : pc'[d] # "done" => answer'[d] = answer[d] /\ pc'[d] = pc[d]
  BY EndsKeep DEF PostInv, LogInv, TypeOK, tables
<1>2. OwnRows'
  BY <1>1 DEF PostInv, OwnRows, RowOf, TouchedBy
<1>3. WholeSoFar'
  <2>1. ASSUME NEW d \in Call, NEW a \in Account, Inserted(d, a)'
        PROVE  Whole(pending[d].entries, d, a)'
    <3>1. Inserted(d, a)
      BY <1>1, <2>1 DEF Inserted, TouchedBy, PastEntries
    <3> QED  BY <1>1, <3>1 DEF PostInv, WholeSoFar, Whole, RowsOn, EntriesAt
  <2> QED  BY <2>1 DEF WholeSoFar
<1>4. WholeOnceCommitted'
  BY <1>1 DEF PostInv, WholeOnceCommitted, Whole, RowsOn, EntriesAt, TouchedBy
<1>5. RowsFinite'
  BY <1>1 DEF PostInv, RowsFinite
<1>6. OneClaim'
  <2>1. \A d \in Call : Claims(d)' => Claims(d)
    BY <1>1 DEF Claims, PastGate, PastPeriodLock
  <2> QED  BY <1>1, <2>1 DEF PostInv, OneClaim, SameKey
<1>7. ResolveFinds'
  BY <1>1 DEF PostInv, ResolveFinds, KeyRow, SameKey
<1>8. AnsweredLast'
  BY <1>1 DEF PostInv, AnsweredLast, NoAnswer
<1> QED  BY <1>2, <1>3, <1>4, <1>5, <1>6, <1>7, <1>8, EndsKeepLog DEF PostInv

\* Every step of the write path keeps PostInv.
LEMMA PostNext == PostInv /\ [Next]_vars => PostInv'
BY LogNext, OwnRowsNext, WholeSoFarNext, WholeCommittedNext, RowsFiniteNext, OneClaimNext,
   GatePlacesNext DEF PostInv

\* A reversal that is posted is a request, and cancels its target.
LEMMA ReversalIsRequest ==
    ASSUME PostInv, Reading, TargetFound, NEW c \in Call, PostsReversal(c)
    PROVE  \E r \in Request :
              /\ Submit(c, r) /\ r.reverses = input[c].target /\ input[c].target \in transactions
              /\ Cancels(r, Target(c))
<1>1. PICK now \in Instant : Submit(c, ReversalRequest(input[c], Target(c), now))
  BY DEF PostsReversal
<1> DEFINE r == ReversalRequest(input[c], Target(c), now)
<1>2. /\ input[c] \in ReverseInput /\ input[c].target \in transactions
      /\ Target(c).tenant = input[c].tenant /\ Target(c).kind # "REVERSAL"
  BY DEF PostsReversal, Reading, TargetFound
<1>3. Target(c) \in Request
  BY <1>2 DEF PostInv, LogInv, TypeOK, Asked, AskedOf, Target
<1>4. r \in Request
  BY <1>2, <1>3, ReverseAssumption
<1>5. r.reverses = input[c].target /\ r.tenant = input[c].tenant
      /\ r.legs = [a \in DOMAIN Target(c).legs |->
                      [i \in DOMAIN Target(c).legs[a] |-> -Target(c).legs[a][i]]]
  BY DEF ReversalRequest
<1>6. Cancels(r, Target(c))
  BY <1>2, <1>5 DEF Cancels
<1> QED  BY <1>1, <1>2, <1>4, <1>5, <1>6

\* Every step of a reversal is one of the write path, or keeps it as it is.
LEMMA RevPostNext == PostInv /\ Reading /\ TargetFound /\ [RevNext]_allVars => PostInv'
<1> SUFFICES ASSUME PostInv, Reading, TargetFound, [RevNext]_allVars PROVE PostInv'
  OBVIOUS
<1>1. ASSUME NEW c \in Call, EndsReversal(c) PROVE PostInv'
  BY <1>1, EndsKeepPost DEF EndsReversal
<1>2. CASE [Next]_vars
  BY <1>2, PostNext
<1>3. ASSUME NEW c \in Call, NEW r \in OwnRequest, PostRequest(c, r) PROVE Next
  BY <1>3, OwnAssumption DEF PostRequest, Next
<1>4. ASSUME NEW c \in Call, PostsReversal(c) PROVE Next
  BY <1>4, ReversalIsRequest DEF Next
<1>5. ASSUME NEW c \in Call, (\E in \in ReverseInput : Reverse(c, in)) \/ Reads(c) PROVE UNCHANGED vars
  BY <1>5 DEF Reverse, Reads
<1>6. (\E c \in Call : Post(c) \/ Fail(c)) \/ Admin => Next
  BY DEF Next
<1>7. UNCHANGED allVars => UNCHANGED vars
  BY DEF allVars
<1> QED  BY <1>1, <1>2, <1>3, <1>4, <1>5, <1>6, <1>7, RevKinds

\* Every step keeps what a call has found while it reads.
LEMMA FoundNext ==
    PostInv /\ Reading /\ TargetFound /\ [RevNext]_allVars => Reading' /\ TargetFound'
<1> SUFFICES ASSUME PostInv, Reading, TargetFound, [RevNext]_allVars
             PROVE  Reading' /\ TargetFound'
  OBVIOUS
<1> USE DEF Reading
<1>1. ASSUME NEW c \in Call, CallStep(c), input' = input,
             step' = step \/ step' = [step EXCEPT ![c] = ""],
             step'[c] = ""
      PROVE  Reading' /\ TargetFound'
  <2>1. /\ pc'[c] # "idle"
        /\ \A d \in Call \ {c} : pc'[d] = pc[d] /\ req'[d] = req[d]
        /\ \A d \in transactions : req'[d] = req[d] /\ d \in transactions'
    BY <1>1, CallsKept DEF PostInv
  <2>2. step' \in [Call -> {"getTransaction", "prior", "already", ""}]
    BY <1>1
  <2>3. \A d \in Call : step'[d] # "" => d # c /\ step'[d] = step[d]
    BY <1>1
  <2>4. Reading'
    BY <1>1, <2>1, <2>2, <2>3
  <2>5. TargetFound'
    BY <1>1, <2>1, <2>3 DEF TargetFound, Target
  <2> QED  BY <2>4, <2>5
<1>2. ASSUME NEW c \in Call, EndsReversal(c) PROVE Reading' /\ TargetFound'
  <2>1. /\ EndsReading(c) /\ step' = [step EXCEPT ![c] = ""] /\ input' = input
        /\ UNCHANGED <<transactions, req>>
    BY <1>2 DEF EndsReversal, EndsReading, tables
  <2>2. \A d \in Call : step'[d] # "" => d # c /\ step'[d] = step[d]
    BY <2>1
  <2>3. pc' = [pc EXCEPT ![c] = "done"] /\ pc \in [Call -> Place]
    BY <2>1, EndsKeep DEF PostInv, LogInv, TypeOK
  <2>4. Reading'
    BY <2>1, <2>2, <2>3
  <2>5. TargetFound'
    BY <2>1, <2>2 DEF TargetFound, Target
  <2> QED  BY <2>4, <2>5
<1>3. ASSUME NEW c \in Call, Reads(c) PROVE Reading' /\ TargetFound'
  BY <1>3 DEF Reads, TargetFound, Target, vars
<1>4. ASSUME NEW c \in Call, NEW in \in ReverseInput, Reverse(c, in) PROVE Reading' /\ TargetFound'
  BY <1>4, ReverseAssumption DEF Reverse, TargetFound, Target, vars
<1>5. ASSUME NEW c \in Call, NEW r \in OwnRequest, PostRequest(c, r) PROVE Reading' /\ TargetFound'
  <2>1. CallStep(c) /\ step'[c] = "" /\ rvars' = rvars
    BY <1>5, OwnAssumption DEF PostRequest, CallStep, rvars
  <2> QED  BY <1>1, <2>1 DEF rvars
<1>6. ASSUME NEW c \in Call, PostsReversal(c) PROVE Reading' /\ TargetFound'
  <2>1. CallStep(c) /\ input' = input /\ step' = [step EXCEPT ![c] = ""] /\ step'[c] = ""
    BY <1>6, ReversalIsRequest DEF PostsReversal, CallStep
  <2> QED  BY <1>1, <2>1
<1>7. ASSUME NEW c \in Call, Post(c) \/ Fail(c), UNCHANGED rvars PROVE Reading' /\ TargetFound'
  <2>1. pc[c] # "idle"
    BY <1>7, PostingIsUnderWay
  <2> QED  BY <1>1, <1>7, <2>1 DEF CallStep, rvars
<1>8. CASE Admin /\ UNCHANGED rvars
  BY <1>8, AdminKeeps DEF TargetFound, Target, rvars
<1>9. CASE UNCHANGED allVars
  BY <1>9 DEF TargetFound, Target, allVars, rvars, vars
<1> QED  BY <1>2, <1>3, <1>4, <1>5, <1>6, <1>7, <1>8, <1>9, RevKinds

\* Every step keeps InputAsked.
LEMMA InputAskedNext ==
    PostInv /\ Reading /\ TargetFound /\ InputAsked /\ [RevNext]_allVars => InputAsked'
<1> SUFFICES ASSUME PostInv, Reading, TargetFound, InputAsked, [RevNext]_allVars PROVE InputAsked'
  OBVIOUS
<1> USE DEF InputAsked
<1>1. ASSUME NEW c \in Call, EndsReversal(c) PROVE InputAsked'
  BY <1>1 DEF EndsReversal, EndsReading
<1>2. ASSUME NEW c \in Call, Reads(c) PROVE InputAsked'
  BY <1>2 DEF Reads, vars
<1>3. ASSUME NEW c \in Call, NEW in \in ReverseInput, Reverse(c, in) PROVE InputAsked'
  BY <1>3 DEF Reverse, Reading, vars
<1>4. ASSUME NEW c \in Call, NEW r \in OwnRequest, PostRequest(c, r) PROVE InputAsked'
  BY <1>4 DEF PostRequest, Submit, rvars, PostInv, LogInv, TypeOK
<1>5. ASSUME NEW c \in Call, PostsReversal(c) PROVE InputAsked'
  <2>1. PICK r \in Request : Submit(c, r) /\ r.reverses = input[c].target
    BY <1>5, ReversalIsRequest
  <2> QED  BY <1>5, <2>1 DEF Submit, PostsReversal, PostInv, LogInv, TypeOK
<1>6. ASSUME NEW c \in Call, Post(c) \/ Fail(c), UNCHANGED rvars PROVE InputAsked'
  BY <1>6, PostingIsUnderWay, CallsKept DEF CallStep, rvars, PostInv
<1>7. CASE Admin /\ UNCHANGED rvars
  BY <1>7, AdminKeeps DEF rvars
<1>8. CASE UNCHANGED allVars
  BY <1>8 DEF allVars, rvars, vars
<1> QED  BY <1>1, <1>2, <1>3, <1>4, <1>5, <1>6, <1>7, <1>8, RevKinds

\* What a call that is answered, and was to reverse x, is told about.
Told(c, x) == answer[c].tx \in transactions /\ req[answer[c].tx].reverses = x

\* Every step keeps DuplicateIsReversal.
LEMMA DuplicateNext ==
    RevInv /\ [RevNext]_allVars => DuplicateIsReversal'
<1> SUFFICES ASSUME RevInv, [RevNext]_allVars, NEW d \in Call, input'[d] # None, Settled(d)'
             PROVE  Told(d, input[d].target)'
  BY DEF DuplicateIsReversal, Told
<1> USE DEF RevInv
<1>1. ASSUME input'[d] = input[d], answer'[d] = answer[d],
             \A e \in transactions : e \in transactions' /\ req'[e] = req[e]
      PROVE  Told(d, input[d].target)'
  BY <1>1 DEF DuplicateIsReversal, Settled, Told
<1>2. ASSUME NEW c \in Call, EndsReversal(c) PROVE Told(d, input[d].target)'
  <2>1. UNCHANGED <<input, transactions, req>>
    BY <1>2 DEF EndsReversal, EndsReading, tables
  <2>2. CASE d = c
    BY <1>2, <2>1, <2>2 DEF EndsReversal, Told
  <2>3. CASE d # c
    <3>1. answer'[d] = answer[d]
      BY <1>2, <2>3, EndsKeep DEF EndsReversal
    <3> QED  BY <1>1, <2>1, <3>1
  <2> QED  BY <2>2, <2>3
<1>3. ASSUME NEW c \in Call, Reads(c) PROVE Told(d, input[d].target)'
  BY <1>1, <1>3 DEF Reads, vars
<1>4. ASSUME NEW c \in Call, NEW in \in ReverseInput, Reverse(c, in)
      PROVE  Told(d, input[d].target)'
  <2>1. pc[c] = "idle" /\ UNCHANGED vars /\ input' = [input EXCEPT ![c] = in]
    BY <1>4 DEF Reverse
  <2>2. answer[c] = NoAnswer
    BY <2>1 DEF PostInv, AnsweredLast
  <2>3. d # c
    BY <2>1, <2>2, AnswerFields DEF vars, Settled
  <2> QED  BY <1>1, <2>1, <2>3 DEF vars, Reading
<1>5. ASSUME NEW c \in Call, CallStep(c), input'[d] = input[d],
             pc[c] = "idle" => \E r \in Request : Submit(c, r)
      PROVE  Told(d, input[d].target)'
  <2>1. answer'[d] # NoAnswer /\ answer'[d].kind \in {"posted", "duplicate"}
    BY AnswerFields DEF Settled
  <2>2. \A e \in transactions : e \in transactions' /\ req'[e] = req[e]
    BY <1>5, CallsKept DEF PostInv
  <2>3. CASE answer'[d] = answer[d]
    BY <1>1, <1>5, <2>2, <2>3
  <2>4. CASE d = c /\ req'[d] = req[d] /\ ResolveDuplicate(c)
    <3>1. PICK e \in transactions : Payload(req[e]) = Payload(req[c]) /\ answer'[c] = Returned("duplicate", e)
      BY <2>1, <2>4, ResolveAnswers, AnswerFields DEF PostInv
    <3>2. req[e].reverses = req[c].reverses
      BY <3>1 DEF Payload
    <3>3. req[c] # None
      BY <2>4, RequestAssumption DEF ResolveDuplicate, PostInv, LogInv, Asked, AskedOf, Place, InTransaction
    <3>4. req[c].reverses = input[c].target
      BY <1>5, <2>4, <3>3 DEF InputAsked
    <3>5. answer'[d].tx = e /\ input'[d].target = input[c].target
      BY <1>5, <2>4, <3>1, AnswerFields
    <3>6. e \in transactions' /\ req'[e].reverses = input[c].target
      BY <2>2, <3>2, <3>4
    <3> QED  BY <3>5, <3>6 DEF Told
  <2>5. CASE d = c /\ req'[d] = req[d] /\ Reply(c)
    <3>1. c \in transactions /\ req[c] # None
      BY <2>5, RequestAssumption DEF Reply, PostInv, LogInv, Asked, AskedOf
    <3>2. answer'[c] = Returned("posted", c)
      BY <2>5 DEF Reply, EndWith, PostInv, LogInv, TypeOK
    <3>3. req[c].reverses = input[c].target
      BY <1>5, <2>5, <3>1 DEF InputAsked
    <3>4. answer'[d].tx = c /\ input'[d].target = input[c].target
      BY <1>5, <2>5, <3>2, AnswerFields
    <3>5. c \in transactions' /\ req'[c].reverses = input[c].target
      BY <2>2, <3>1, <3>3
    <3> QED  BY <3>4, <3>5 DEF Told
  <2> QED  BY <1>5, <2>1, <2>3, <2>4, <2>5, OldAnswer DEF PostInv
<1>6. ASSUME NEW c \in Call, NEW r \in OwnRequest, PostRequest(c, r)
      PROVE  Told(d, input[d].target)'
  BY <1>5, <1>6, OwnAssumption DEF PostRequest, CallStep, rvars
<1>7. ASSUME NEW c \in Call, PostsReversal(c) PROVE Told(d, input[d].target)'
  BY <1>5, <1>7, ReversalIsRequest DEF PostsReversal, CallStep
<1>8. ASSUME NEW c \in Call, Post(c) \/ Fail(c), UNCHANGED rvars PROVE Told(d, input[d].target)'
  BY <1>5, <1>8, PostingIsUnderWay DEF CallStep, rvars
<1>9. CASE Admin /\ UNCHANGED rvars
  BY <1>1, <1>9, AdminKeeps DEF rvars
<1>10. CASE UNCHANGED allVars
  BY <1>1, <1>10 DEF allVars, rvars, vars
<1> QED  BY <1>2, <1>3, <1>4, <1>6, <1>7, <1>8, <1>9, <1>10, RevKinds

\* RevInv holds in every reachable state.
THEOREM ReversalAlways == RevSpec => []RevInv
<1>1. RevInit => RevInv
  <2> SUFFICES ASSUME RevInit PROVE RevInv
    OBVIOUS
  <2>1. LogInv /\ Init
    BY LogInit DEF RevInit
  <2>2. \A c \in Call : pc[c] = "idle" /\ req[c] = None /\ answer[c] = NoAnswer
    BY <2>1 DEF Init
  <2>3. OwnRows /\ RowsFinite
    BY <2>1, FS_EmptySet DEF Init, OwnRows, RowsFinite, NoWrites
  <2>4. WholeSoFar /\ WholeOnceCommitted
    BY <2>1, <2>2 DEF Init, WholeSoFar, Inserted, PastEntries, WholeOnceCommitted
  <2>5. OneClaim /\ ResolveFinds /\ AnsweredLast
    BY <2>1, <2>2 DEF Init, OneClaim, Claims, PastGate, PastPeriodLock, ResolveFinds, AnsweredLast
  <2>6. Reading /\ TargetFound /\ InputAsked
    BY <2>2 DEF RevInit, Reading, TargetFound, InputAsked
  <2>7. DuplicateIsReversal
    BY DEF RevInit, DuplicateIsReversal
  <2> QED  BY <2>1, <2>3, <2>4, <2>5, <2>6, <2>7 DEF RevInv, PostInv
<1>2. RevInv /\ [RevNext]_allVars => RevInv'
  BY RevPostNext, FoundNext, InputAskedNext, DuplicateNext DEF RevInv
<1> QED  BY <1>1, <1>2, PTL DEF RevSpec

\* Whoever reverses is never told of another posting: a caller told "duplicate" or
\* "posted" by reverse() gets a reversal of the transaction it named, whatever else
\* has its key (reverse.ts:46-52 and resolveDuplicate).
THEOREM DuplicatesAreReversals == RevSpec => []DuplicateIsReversal
<1>1. RevInv => DuplicateIsReversal
  BY DEF RevInv
<1> QED  BY <1>1, ReversalAlways, PTL

-----------------------------------------------------------------------------
(***************************************************************************)
(* What a reversal does to the books.                                      *)
(***************************************************************************)
\* Every step keeps ReversalsAsked, where only reverse() asks for reversals.
LEMMA ReversalsAskedNext ==
    ASSUME OwnNotReversals, RevInv, ReversalsAsked, [RevNext]_allVars
    PROVE  ReversalsAsked'
<1> USE DEF RevInv
<1> DEFINE Right(d) == req[d] # None /\ req[d].reverses # None =>
                          req[d].reverses \in transactions /\ Cancels(req[d], req[req[d].reverses])
<1>1. ASSUME \A e \in transactions : e \in transactions' /\ req'[e] = req[e],
             NEW d \in Call, req'[d] = req[d]
      PROVE  Right(d)'
  BY <1>1 DEF ReversalsAsked
<1>2. ASSUME NEW c \in Call, CallStep(c),
             pc[c] = "idle" => \E r \in Request :
                 /\ Submit(c, r)
                 /\ r.reverses # None =>
                       r.reverses \in transactions /\ Cancels(r, req[r.reverses])
      PROVE  ReversalsAsked'
  <2>1. \A e \in transactions : e \in transactions' /\ req'[e] = req[e]
    BY <1>2, CallsKept DEF PostInv
  <2>2. ASSUME NEW d \in Call, req'[d] # req[d] PROVE Right(d)'
    <3>1. d = c /\ pc[c] = "idle"
      BY <1>2, <2>2, CallsKept DEF PostInv
    <3>2. PICK r \in Request : /\ Submit(c, r)
                               /\ r.reverses # None =>
                                     r.reverses \in transactions /\ Cancels(r, req[r.reverses])
      BY <1>2, <3>1
    <3>3. req'[d] = r
      BY <3>1, <3>2 DEF Submit, PostInv, LogInv, TypeOK
    <3> QED  BY <2>1, <3>2, <3>3
  <2> QED  BY <1>1, <2>1, <2>2 DEF ReversalsAsked
<1>3. ASSUME UNCHANGED <<transactions, req>> PROVE ReversalsAsked'
  BY <1>3 DEF ReversalsAsked
<1>4. ASSUME NEW c \in Call, EndsReversal(c) \/ Reads(c) \/ \E in \in ReverseInput : Reverse(c, in)
      PROVE  UNCHANGED <<transactions, req>>
  BY <1>4 DEF EndsReversal, EndsReading, Reads, Reverse, vars, tables
<1>5. ASSUME NEW c \in Call, NEW r \in OwnRequest, PostRequest(c, r) PROVE ReversalsAsked'
  BY <1>2, <1>5, OwnAssumption DEF PostRequest, CallStep, OwnNotReversals
<1>6. ASSUME NEW c \in Call, PostsReversal(c) PROVE ReversalsAsked'
  <2>1. PICK r \in Request :
            /\ Submit(c, r) /\ r.reverses = input[c].target /\ input[c].target \in transactions
            /\ Cancels(r, Target(c))
    BY <1>6, ReversalIsRequest
  <2> QED  BY <1>2, <2>1 DEF CallStep, Target
<1>7. ASSUME NEW c \in Call, Post(c) \/ Fail(c) PROVE ReversalsAsked'
  BY <1>2, <1>7, PostingIsUnderWay DEF CallStep
<1>8. Admin \/ UNCHANGED allVars => UNCHANGED <<transactions, req>>
  BY AdminKeeps DEF allVars, vars
<1> QED  BY <1>3, <1>4, <1>5, <1>6, <1>7, <1>8, RevKinds

\* ReversalsAsked holds in every reachable state.
THEOREM ReversalsAreAsked ==
    ASSUME OwnNotReversals
    PROVE  RevSpec => []ReversalsAsked
<1>1. RevInit => ReversalsAsked
  BY DEF RevInit, Init, ReversalsAsked
<1>2. RevInv /\ ReversalsAsked /\ [RevNext]_allVars => ReversalsAsked'
  BY ReversalsAskedNext
<1> QED  BY <1>1, <1>2, ReversalAlways, PTL DEF RevSpec

\* A reversal under the key derived from its target is committed at most once,
\* however many calls race past the checks of reverse.ts:40-64: the gate of post()
\* decides, and all reversals of one transaction are its tenant's.
THEOREM DerivedKeysReverseOnce ==
    ASSUME OwnNotReversals
    PROVE  RevSpec => []DerivedKeyReversesOnce
<1>1. RevInv /\ ReversalsAsked => DerivedKeyReversesOnce
  <2> SUFFICES ASSUME RevInv, ReversalsAsked, NEW d \in transactions, NEW e \in transactions,
                      req[d].reverses # None, req[d].reverses = req[e].reverses,
                      req[d].key = DerivedKey(req[d].reverses),
                      req[e].key = DerivedKey(req[e].reverses)
               PROVE  d = e
    BY DEF DerivedKeyReversesOnce
  <2>1. d \in Call /\ e \in Call /\ req[d] # None /\ req[e] # None
    BY RequestAssumption DEF RevInv, PostInv, LogInv, TypeOK, Asked, AskedOf
  <2>2. req[d].tenant = req[e].tenant
    BY <2>1 DEF ReversalsAsked, Cancels
  <2>3. SameKey(req[d], req[e]) /\ Claims(d) /\ Claims(e)
    BY <2>2 DEF SameKey, Claims
  <2> QED  BY <2>1, <2>3 DEF RevInv, PostInv, OneClaim
<1> QED  BY <1>1, ReversalAlways, ReversalsAreAsked, PTL

\* What a committed transaction has added to the log of an account.
LEMMA CommittedTotal ==
    ASSUME PostInv, NEW c \in transactions, NEW a \in Account
    PROVE  Total({e \in LogOf(a) : e.tx = c}) = IF a \in TouchedBy(c) THEN Net(req[c], a) ELSE 0
<1> DEFINE R == {e \in LogOf(a) : e.tx = c}
<1>1. c \in Call /\ req[c] \in Request
  BY DEF PostInv, LogInv, TypeOK, Asked, AskedOf
<1>2. R = RowsOn(entries, c, a)
  BY DEF LogOf, RowsOn
<1>3. CASE a \in TouchedBy(c)
  <2>1. PICK e \in R : R = EntriesAt(c, a, e.seq - 1)
    BY <1>2, <1>3 DEF PostInv, WholeOnceCommitted, Whole
  <2>2. e.seq - 1 \in Nat
    BY DEF PostInv, LogInv, TypeOK, Entry, LogOf
  <2>3. Total(EntriesAt(c, a, e.seq - 1)) = Net(req[c], a)
    BY <1>1, <1>3, <2>2, NetIsTotal
  <2> QED  BY <1>3, <2>1, <2>3
<1>4. CASE a \notin TouchedBy(c)
  <2>1. R = {}
    BY <1>4 DEF LogOf, PostInv, OwnRows, RowOf
  <2> QED  BY <1>4, <2>1, TotalFacts
<1> QED  BY <1>3, <1>4

\* Negating the lines of a request negates what it adds to an account.
LEMMA NetNegated ==
    ASSUME NEW r \in Request, NEW s \in Request, Cancels(r, s), NEW a \in DOMAIN s.legs
    PROVE  Net(r, a) + Net(s, a) = 0
<1> DEFINE g == s.legs[a]
           h == r.legs[a]
           I == DOMAIN g
<1>1. g \in Seq(Int) /\ h = [i \in I |-> -g[i]] /\ DOMAIN h = I
  BY RequestAssumption DEF RequestType, Cancels
<1>2. IsFiniteSet(I) /\ Integral(g, I)
  <2>1. Len(g) \in Nat /\ I = 1 .. Len(g) /\ \A i \in I : g[i] \in Int
    BY <1>1
  <2>2. IsFiniteSet(1 .. Len(g))
    BY <2>1, FS_Interval
  <2> QED  BY <2>1, <2>2 DEF Integral
<1>3. \A i \in I : h[i] = -g[i]
  BY <1>1
<1>4. Net(r, a) = SumOver(h, I) /\ Net(s, a) = SumOver(g, I)
  BY <1>1, <1>2, LibrarySum DEF Net
<1> HIDE DEF g, h, I
<1>5. SumOver(h, I) = -SumOver(g, I)
  BY <1>2, <1>3, SumNegated
<1>6. SumOver(g, I) \in Int
  BY <1>2, SumType
<1> QED  BY <1>4, <1>5, <1>6

\* A reversal takes back from every account what its original added, whatever was
\* posted in between; the original is the tenant's and no reversal (reverse.ts:35, 65-78).
THEOREM ReversalsCancel ==
    ASSUME OwnNotReversals
    PROVE  RevSpec => []ReversalCancelsOriginal
<1>1. RevInv /\ ReversalsAsked => ReversalCancelsOriginal
  <2> SUFFICES ASSUME RevInv, ReversalsAsked, NEW d \in transactions, req[d].reverses # None,
                      NEW o, o = req[d].reverses
               PROVE  /\ o \in transactions /\ req[o].tenant = req[d].tenant
                      /\ req[o].kind # "REVERSAL"
                      /\ \A a \in Account :
                            Total({e \in LogOf(a) : e.tx = o}) + Total({e \in LogOf(a) : e.tx = d}) = 0
    BY DEF ReversalCancelsOriginal
  <2>1. d \in Call /\ req[d] \in Request /\ req[d] # None
    BY RequestAssumption DEF RevInv, PostInv, LogInv, TypeOK, Asked, AskedOf
  <2>2. o \in transactions /\ Cancels(req[d], req[o])
    BY <2>1 DEF ReversalsAsked
  <2>3. o \in Call /\ req[o] \in Request
    BY <2>2 DEF RevInv, PostInv, LogInv, TypeOK, Asked, AskedOf
  <2>4. ASSUME NEW a \in Account
        PROVE  Total({e \in LogOf(a) : e.tx = o}) + Total({e \in LogOf(a) : e.tx = d}) = 0
    <3>1. /\ Total({e \in LogOf(a) : e.tx = o}) = IF a \in TouchedBy(o) THEN Net(req[o], a) ELSE 0
          /\ Total({e \in LogOf(a) : e.tx = d}) = IF a \in TouchedBy(d) THEN Net(req[d], a) ELSE 0
      BY <2>2, CommittedTotal DEF RevInv
    <3>2. TouchedBy(o) = TouchedBy(d)
      BY <2>2 DEF Cancels, TouchedBy
    <3>3. CASE a \in TouchedBy(o)
      <4>1. Net(req[d], a) + Net(req[o], a) = 0
        BY <2>1, <2>2, <2>3, <3>3, NetNegated DEF TouchedBy
      <4>2. Net(req[d], a) \in Int /\ Net(req[o], a) \in Int
        BY <2>1, <2>3, <3>2, <3>3, RequestAssumption, NetType DEF TouchedBy
      <4> QED  BY <3>1, <3>2, <3>3, <4>1, <4>2
    <3>4. CASE a \notin TouchedBy(o)
      BY <3>1, <3>2, <3>4
    <3> QED  BY <3>3, <3>4
  <2> QED  BY <2>2, <2>4 DEF Cancels
<1> QED  BY <1>1, ReversalAlways, ReversalsAreAsked, PTL
=============================================================================
