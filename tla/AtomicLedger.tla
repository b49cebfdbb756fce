---------------------------- MODULE AtomicLedger ----------------------------
(***************************************************************************)
(* What the write path promises, with no statement, lock or transaction in *)
(* sight: a posting happens at one instant or not at all, it is refused    *)
(* only for a reason that is true at that instant, and a caller is told    *)
(* what happened.  WritePath is shown to implement this specification.     *)
(*                                                                         *)
(* The constants and the vocabulary of requests are those of WritePath.    *)
(***************************************************************************)
EXTENDS Integers, Sequences, FiniteSets, FiniteSetsExt

CONSTANTS Call, Tenant, Account, Period, PeriodOf, Request, AccountType, CurrencyOf, None,
          SamePayload(_, _),    \* two requests hash to the same payload
          Valid(_),             \* a request passes assertRequestValid
          Net(_, _)             \* what a request adds to the balance of an account

VARIABLES
    accounts, periods,  \* statuses, as administrators and callers see them
    posted,             \* calls whose transaction is in the ledger
    log,                \* per account, what was posted to it, in order
    book,               \* per account, its balance
    asked,              \* what each call asked for
    told                \* what each caller was told

vars == <<accounts, periods, posted, log, book, asked, told>>

NoAnswer == [kind |-> "none", tx |-> None, code |-> ""]
PeriodFor(c) == <<asked[c].tenant, PeriodOf[asked[c].occurred]>>
AccountFor(c, a) == <<asked[c].tenant, a>>
TouchedBy(c) == DOMAIN asked[c].legs
SameKey(c, d) == asked[c].tenant = asked[d].tenant /\ asked[c].key = asked[d].key
Overdraws(type, a, c) == type = "asset" /\ book[a] + Net(asked[c], a) < 0

Init ==
    /\ accounts \in [Tenant \X Account -> {"ABSENT", "ACTIVE", "FROZEN", "CLOSED"}]
    /\ periods = [x \in Tenant \X Period |-> "ABSENT"]
    /\ posted = {}
    /\ log = [a \in Account |-> <<>>]
    /\ book = [a \in Account |-> 0]
    /\ asked = [c \in Call |-> None]
    /\ told = [c \in Call |-> NoAnswer]

Ask(c, r) ==
    /\ asked[c] = None
    /\ asked' = [asked EXCEPT ![c] = r]
    /\ \/ Valid(r) /\ told' = told
       \/ ~Valid(r) /\ \E code \in {"VALIDATION_FAILED", "UNBALANCED_ENTRY"} :
             told' = [told EXCEPT ![c] = [kind |-> "refused", tx |-> None, code |-> code]]
    /\ UNCHANGED <<accounts, periods, posted, log, book>>

\* The whole posting, at one instant.  Only a balance that moves is guarded: lines
\* that cancel out are posted to an account another tenant has overdrawn, too.
Post(c) ==
    /\ asked[c] # None /\ told[c] = NoAnswer /\ c \notin posted
    /\ ~\E d \in posted : SameKey(c, d)
    /\ \/ periods[PeriodFor(c)] = "OPEN"
       \/ asked[c].auto /\ periods[PeriodFor(c)] = "ABSENT"
    /\ \A a \in TouchedBy(c) :
          /\ accounts[AccountFor(c, a)] = "ACTIVE"
          /\ CurrencyOf[AccountFor(c, a)] = asked[c].currency
          /\ Net(asked[c], a) # 0 => ~Overdraws(AccountType[AccountFor(c, a)], a, c)
    /\ periods' = [periods EXCEPT ![PeriodFor(c)] = "OPEN"]
    /\ posted' = posted \cup {c}
    /\ log' = [a \in Account |->
                  IF a \in TouchedBy(c)
                  THEN log[a] \o [i \in DOMAIN asked[c].legs[a] |-> <<c, asked[c].legs[a][i]>>]
                  ELSE log[a]]
    /\ book' = [a \in Account |-> IF a \in TouchedBy(c) THEN book[a] + Net(asked[c], a) ELSE book[a]]
    /\ UNCHANGED <<accounts, asked, told>>

\* A reason to refuse c, true now.
Reason(c, code) ==
    \/ code = "IDEMPOTENCY_CONFLICT"
       /\ \E d \in posted : SameKey(c, d) /\ ~SamePayload(asked[c], asked[d])
    \/ code = "PERIOD_NOT_FOUND" /\ ~asked[c].auto /\ periods[PeriodFor(c)] = "ABSENT"
    \/ code = "PERIOD_NOT_OPEN" /\ periods[PeriodFor(c)] \in {"PRECLOSED", "CLOSED", "LOCKED"}
    \/ \E a \in TouchedBy(c) :
          \/ code = "ACCOUNT_NOT_FOUND" /\ accounts[AccountFor(c, a)] = "ABSENT"
          \/ code = "ACCOUNT_NOT_ACTIVE" /\ accounts[AccountFor(c, a)] \in {"FROZEN", "CLOSED"}
          \/ code = "CURRENCY_MISMATCH" /\ CurrencyOf[AccountFor(c, a)] # asked[c].currency
          \/ code = "INSUFFICIENT_FUNDS"
             /\ \E t \in Tenant : Overdraws(AccountType[<<t, a>>], a, c)

\* A caller learns that its transaction is posted, that an earlier call posted
\* the same request, why nothing was posted, or nothing at all.
Tell(c, answer) ==
    /\ asked[c] # None /\ told[c] = NoAnswer
    /\ \/ answer.kind = "posted" /\ answer.tx = c /\ c \in posted
       \/ /\ answer.kind = "duplicate" /\ c \notin posted /\ answer.tx \in posted
          /\ SameKey(c, answer.tx) /\ SamePayload(asked[c], asked[answer.tx])
       \/ answer.kind = "refused" /\ c \notin posted /\ Reason(c, answer.code)
       \/ answer.kind = "unknown"
    /\ told' = [told EXCEPT ![c] = answer]
    /\ UNCHANGED <<accounts, periods, posted, log, book, asked>>

\* An administrator changes one status.
Administer ==
    /\ \/ /\ UNCHANGED periods
          /\ \E x \in Tenant \X Account, s \in {"ACTIVE", "FROZEN", "CLOSED"} :
                accounts' = [accounts EXCEPT ![x] = s]
       \/ /\ UNCHANGED accounts
          /\ \E x \in Tenant \X Period, s \in {"OPEN", "PRECLOSED", "CLOSED", "LOCKED"} :
                periods' = [periods EXCEPT ![x] = s]
    /\ UNCHANGED <<posted, log, book, asked, told>>

Next ==
    \/ \E c \in Call :
          \/ \E r \in Request : Ask(c, r)
          \/ Post(c)
          \/ Tell(c, told'[c])
    \/ Administer

Spec == Init /\ [][Next]_vars
=============================================================================
