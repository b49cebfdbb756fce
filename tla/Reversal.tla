------------------------------ MODULE Reversal ------------------------------
(***************************************************************************)
(* reverseTransaction (src/src/engine/reverse.ts) over the write path: a   *)
(* call either posts a request or reverses a transaction.  A reversal      *)
(* first reads, statement by statement and outside any transaction, and    *)
(* then posts the negated lines like any other request.                    *)
(***************************************************************************)
EXTENDS WritePath

CONSTANTS
    OwnRequest,     \* the requests callers post themselves; Request has the reversals as well
    ReverseInput,   \* what reversals are asked for: [tenant, target, key, occurred, memo,
                    \* auto]: key or occurred None where the caller leaves it out, auto
                    \* the policy autoOpenPeriod that is passed through
    DerivedKey(_)   \* the key `reversal:{transactionId}`

VARIABLES
    input,          \* what each call was asked to reverse, or None
    step            \* the statement it issues next, or "" once it posts or has ended

rvars == <<input, step>>
allVars == <<vars, rvars>>

KeyOf(in) == IF in.key = None THEN DerivedKey(in.target) ELSE in.key

\* Fault: the amounts are not negated.
ReversalRequestUnnegated(in, r, now) ==
    [tenant |-> in.tenant, key |-> KeyOf(in), kind |-> "REVERSAL", currency |-> r.currency,
     occurred |-> IF in.occurred = None THEN now ELSE in.occurred,
     memo |-> in.memo, reverses |-> in.target, auto |-> in.auto, legs |-> r.legs]

\* The request that is posted to reverse r: every entry negated, a new type, key and
\* time.  The entries of a committed transaction are the lines of its request.
ReversalRequest(in, r, now) ==
    [tenant |-> in.tenant, key |-> KeyOf(in), kind |-> "REVERSAL", currency |-> r.currency,
     occurred |-> IF in.occurred = None THEN now ELSE in.occurred,
     memo |-> in.memo, reverses |-> in.target, auto |-> in.auto,
     legs |-> [a \in DOMAIN r.legs |-> [i \in DOMAIN r.legs[a] |-> -r.legs[a][i]]]]

ASSUME OwnAssumption == OwnRequest \subseteq Request
ASSUME ReverseAssumption ==
    /\ None \notin ReverseInput
    /\ \A in \in ReverseInput, r \in Request, now \in Instant :
          r.tenant = in.tenant /\ r.kind # "REVERSAL" => ReversalRequest(in, r, now) \in Request

Target(c) == req[input[c].target]
ReversalsOf(x) == {d \in transactions : req[d].reverses = x}
PriorWithKey(c) ==
    {d \in transactions : req[d].tenant = input[c].tenant /\ req[d].key = KeyOf(input[c])}

-----------------------------------------------------------------------------
RevInit ==
    /\ Init
    /\ input = [c \in Call |-> None]
    /\ step = [c \in Call |-> ""]

\* The call is answered before anything was posted.
Answered(c, ans) ==
    /\ EndWith(c, ans)
    /\ step' = [step EXCEPT ![c] = ""]
    /\ UNCHANGED <<tables, nextEvent, req, todo, base, input>>

GoOn(c, s) == step' = [step EXCEPT ![c] = s] /\ UNCHANGED <<vars, input>>

\* A call that posts a request of its own.
PostRequest(c, r) == input[c] = None /\ Submit(c, r) /\ UNCHANGED rvars

Reverse(c, in) ==
    /\ pc[c] = "idle" /\ input[c] = None
    /\ input' = [input EXCEPT ![c] = in]
    /\ step' = [step EXCEPT ![c] = "getTransaction"]
    /\ UNCHANGED vars

\* getTransaction: two statements over rows that never change once committed.
GetTransaction(c) ==
    /\ step[c] = "getTransaction" /\ FreeConnection
    /\ IF input[c].target \in transactions /\ Target(c).tenant = input[c].tenant
       THEN GoOn(c, "prior")
       ELSE Answered(c, Refused("TRANSACTION_NOT_FOUND"))

\* Fault: whatever has the key is taken for the reversal.
LookUpKeyOnly(c) ==
    /\ step[c] = "prior" /\ FreeConnection
    /\ IF PriorWithKey(c) # {}
       THEN Answered(c, Returned("duplicate", CHOOSE d \in PriorWithKey(c) : TRUE))
       ELSE GoOn(c, "already")

\* The key is looked up before the check for an earlier reversal.
LookUpKey(c) ==
    /\ step[c] = "prior" /\ FreeConnection
    /\ IF PriorWithKey(c) \cap ReversalsOf(input[c].target) # {}
       THEN Answered(c, Returned("duplicate", CHOOSE d \in PriorWithKey(c) : TRUE))
       ELSE GoOn(c, "already")

\* The check for an earlier reversal, the check of the type, and the call of
\* postTransaction at the time it is by then.
LookUpReversal(c) ==
    /\ step[c] = "already" /\ FreeConnection
    /\ IF ReversalsOf(input[c].target) # {}
       THEN Answered(c, Refused("ALREADY_REVERSED"))
       ELSE IF Target(c).kind = "REVERSAL"
            THEN Answered(c, Refused("VALIDATION_FAILED"))
            ELSE /\ \E now \in Instant : Submit(c, ReversalRequest(input[c], Target(c), now))
                 /\ step' = [step EXCEPT ![c] = ""]
                 /\ UNCHANGED input

\* The connection or the process is lost between two statements.
FailReading(c) == step[c] # "" /\ Answered(c, Unknown)

RevNext ==
    \/ \E c \in Call :
          \/ \E r \in OwnRequest : PostRequest(c, r)
          \/ \E in \in ReverseInput : Reverse(c, in)
          \/ GetTransaction(c) \/ LookUpKey(c) \/ LookUpReversal(c) \/ FailReading(c)
          \/ (Post(c) \/ Fail(c)) /\ UNCHANGED rvars
    \/ Admin /\ UNCHANGED rvars

RevSpec == RevInit /\ [][RevNext]_allVars

\* The statement a call issues next, before its posting or in it.
RevStep(c) ==
    GetTransaction(c) \/ LookUpKey(c) \/ LookUpReversal(c) \/ (Post(c) /\ UNCHANGED rvars)

\* The database executes a statement whose row or connection becomes free, and the
\* program awaits it: a call that can go on does.
RevFairSpec == RevSpec /\ \A c \in Call : WF_allVars(RevStep(c))

-----------------------------------------------------------------------------
\* With derived keys a transaction is reversed at most once: the checks of
\* reverse.ts:40-64 run outside the transaction, and it is the idempotency gate
\* that serialises two reversals.
DerivedKeyReversesOnce ==
    \A d, e \in transactions :
        /\ req[d].reverses # None /\ req[d].reverses = req[e].reverses
        /\ req[d].key = DerivedKey(req[d].reverses) /\ req[e].key = DerivedKey(req[e].reverses)
        => d = e

\* A reversal cancels its original on every account, is never itself reversed,
\* and belongs to the tenant of the original (reverse.ts:35, 65-67, 75-78).
ReversalCancelsOriginal ==
    \A d \in transactions : req[d].reverses # None =>
        LET o == req[d].reverses
        IN  /\ o \in transactions /\ req[o].tenant = req[d].tenant
            /\ req[o].kind # "REVERSAL"
            /\ \A a \in Account :
                  Total({e \in LogOf(a) : e.tx = o}) + Total({e \in LogOf(a) : e.tx = d}) = 0

\* A caller told "duplicate" by reverse() is given a reversal of the transaction
\* it named (reverse.ts:46-52 and resolveDuplicate), never another posting that
\* happens to have its key.
DuplicateIsReversal ==
    \A c \in Call : input[c] # None /\ Settled(c) =>
        /\ answer[c].tx \in transactions
        /\ req[answer[c].tx].reverses = input[c].target

\* Every call that is made is answered, reversal or posting: no call waits for a
\* connection that only a waiting call could give back, and locks are released
\* (one connection inside db.transaction(), post.ts:78-246; the lookups before it,
\* reverse.ts:35-58).  A call that is done stays done, so this is ~>.
EveryCallAnswered ==
    \A c \in Call : []<>(pc[c] # "idle" \/ step[c] # "" => pc[c] = "done")

\* "a second reversal with a new key is rejected" (test/periods-reversal.test.ts:86).
SecondReversalRejected == \A x \in transactions : Cardinality(ReversalsOf(x)) <= 1

\* "its own idempotency key (default: `reversal:{transactionId}`, so a retried
\* reversal dedupes automatically)" (docs/architecture.md:109-110): a reversal with the
\* derived key is not told that this key was used for something else.
RetriedReversalDedupes ==
    \A c \in Call : input[c] # None /\ input[c].key = None =>
        answer[c] # Refused("IDEMPOTENCY_CONFLICT")
=============================================================================
