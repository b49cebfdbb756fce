----------------------------- MODULE Statements -----------------------------
(***************************************************************************)
(* The derived reads of src/src/engine/query.ts beside the write path and  *)
(* reconcile(): an account's balance and its statement page by page        *)
(* (getBalance, listEntries), and the trial balance.  One reader issues    *)
(* them, one statement of the database after the other; a client that      *)
(* walks a statement asks for the next page with next_after_seq.           *)
(***************************************************************************)
EXTENDS Reconciliation, Money, SequencesExt

CONSTANTS
    LimitInput,     \* page sizes callers ask for
    MaxLimit        \* the largest page listEntries returns

ASSUME LimitAssumption == LimitInput \subseteq Int /\ MaxLimit \in Nat \ {0}
ASSUME WidthAssumption == MaxAmount = TenTo(IntegerDigits + Decimals) - 1

\* Requests have amounts that parseAmount has read (validate.ts:71-78).
ASSUME ParsedAssumption ==
    \A r \in Request : \A a \in DOMAIN r.legs : \A i \in DOMAIN r.legs[a] :
        Abs(r.legs[a][i]) <= MaxAmount

VARIABLES
    walk,           \* the account, what getBalance said, after_seq and the entries read
    trial           \* the trial balance: for which period, and the net of each account

svars == <<walk, trial>>
statementVars == <<vars, rvars, svars>>

NoWalk == [account |-> None, balance |-> [seq |-> 0, amount |-> 0], after |-> 0, entries |-> <<>>]
NoTrial == [period |-> None, rows |-> {}]

\* Fault: the limit is taken as it comes.
PageSizeUnclamped(limit) == limit

\* Math.min(Math.max(limit, 1), 1000)
PageSize(limit) == Min({Max({limit, 1}), MaxLimit})

\* getBalance: the stored row, or zero at position 0.
BalanceOf(t, a) == [seq |-> StoredSeq(t, a), amount |-> StoredAmount(t, a)]

\* ORDER BY seq: row n is the one with n - 1 before it.
BySeq(rows) ==
    [n \in 1 .. Cardinality(rows) |->
        CHOOSE e \in rows : Cardinality({f \in rows : f.seq < e.seq}) = n - 1]

\* Fault: seq >= after_seq.
EntriesFrom(t, a, after) == BySeq({e \in LogOfTenant(t, a) : e.seq >= after})

\* WHERE seq > after_seq ORDER BY seq
EntriesAfter(t, a, after) == BySeq({e \in LogOfTenant(t, a) : e.seq > after})

FirstOf(rows, n) == SubSeq(rows, 1, Min({n, Len(rows)}))

\* The entries a trial balance sums: of the tenant, and of one period if p is one.
TrialEntries(t, a, p) ==
    {e \in LogOfTenant(t, a) : p = None \/ PostingPeriod(req[e.tx]) = p}
TrialRow(t, a, p) == [account |-> a, net |-> DbNumeric(Total(TrialEntries(t, a, p)))]
TrialRows(t, p) == {TrialRow(t, a, p) : a \in {b \in Account : TrialEntries(t, b, p) # {}}}

-----------------------------------------------------------------------------
SInit == RInit /\ walk = NoWalk /\ trial = NoTrial

\* GET /v1/accounts/:accountId, and the walk of its statement begins.
GetBalance ==
    /\ rpc = "idle" /\ FreeConnection
    /\ rpc' = "page" /\ rtenant' \in Tenant
    /\ \E a \in Account : walk' = [NoWalk EXCEPT !.account = a, !.balance = BalanceOf(rtenant', a)]
    /\ UNCHANGED <<report, trial>>

\* listEntries: one row more than the page is read, and next_after_seq is null when
\* it is not there, or when the page is empty.
ListEntries ==
    /\ rpc = "page" /\ FreeConnection
    /\ \E limit \in LimitInput :
          LET size == PageSize(limit)
              rows == FirstOf(EntriesAfter(rtenant, walk.account, walk.after), size + 1)
              page == FirstOf(rows, size)
              more == Len(rows) > size /\ page # <<>>
          IN  /\ walk' = [walk EXCEPT !.entries = @ \o page,
                                      !.after = IF more THEN page[Len(page)].seq ELSE @]
              /\ rpc' = IF more THEN "page" ELSE "statement"
    /\ UNCHANGED <<rtenant, report, trial>>

\* Fault: one query for each account.
TrialBalanceByAccount ==
    /\ \/ rpc = "idle" /\ rtenant' \in Tenant /\ \E p \in Period \cup {None} : trial' = [NoTrial EXCEPT !.period = p]
       \/ /\ rpc = "sums" /\ UNCHANGED rtenant
          /\ \E a \in Account :
                /\ \A row \in trial.rows : row.account < a
                /\ trial' = [trial EXCEPT !.rows = @ \cup {TrialRow(rtenant, a, trial.period)}]
    /\ rpc' = IF \E row \in trial'.rows : \A a \in Account : a <= row.account THEN "trial" ELSE "sums"
    /\ UNCHANGED <<report, walk>>

\* trialBalance: one statement; then each net is parsed and added up.
TrialBalance ==
    /\ rpc = "idle" /\ FreeConnection
    /\ rtenant' \in Tenant
    /\ \E p \in Period \cup {None} : trial' = [period |-> p, rows |-> TrialRows(rtenant', p)]
    /\ rpc' = IF \E row \in trial'.rows : ParseAmount(row.net) = MoneyError THEN "error" ELSE "trial"
    /\ UNCHANGED <<report, walk>>

\* The reader is done with what it read.
Read ==
    /\ rpc \in {"statement", "trial", "error"}
    /\ rpc' = "idle" /\ walk' = NoWalk /\ trial' = NoTrial
    /\ UNCHANGED <<rtenant, report>>

SNext ==
    \/ RNext /\ UNCHANGED svars
    \/ (GetBalance \/ ListEntries \/ TrialBalance \/ Read) /\ UNCHANGED vars

SSpec == SInit /\ [][SNext]_statementVars

-----------------------------------------------------------------------------
Walking == rpc \in {"page", "statement"}

\* A walk reads the log of its account from the beginning, in order, skipping no
\* entry and repeating none, though postings commit between its pages
\* (listEntries, query.ts:38-58): nothing appears later below a seq it has passed.
StatementIsPrefix ==
    Walking =>
        LET n == Len(walk.entries)
        IN  /\ \A i \in 1 .. n : walk.entries[i].seq = i
            /\ ToSet(walk.entries) = {e \in LogOfTenant(rtenant, walk.account) : e.seq <= n}

\* A walk ends only when it has everything that is committed by then: null in
\* next_after_seq means the end, for every page size asked for (query.ts:42, 53-57).
StatementEndsAtEnd ==
    [][rpc = "page" /\ rpc' = "statement" =>
          ToSet(walk'.entries) = LogOfTenant(rtenant, walk.account)]_statementVars

\* The balance a client was shown is the sum of the statement it then reads, up to
\* the seq of the balance (getBalance and listEntries, two statements of different
\* moments; post.ts:187-200 writes seq and amount together).
BalanceMatchesStatement ==
    rpc = "statement" =>
        Total({e \in ToSet(walk.entries) : e.seq <= walk.balance.seq}) = walk.balance.amount

\* "The daily conservation smoke test: Σ over every row must be 0" (query.ts:91), at
\* any moment, for all periods or one: no posting is seen in part.
TrialBalanceConserved ==
    rpc = "trial" => MapThenSumSet(LAMBDA row : ParseAmount(row.net), trial.rows) = 0

\* A trial balance of all periods can be read: a net of more digits than parseAmount
\* takes would have been refused as a balance by its column before (money.ts:12,
\* query.ts:129, 001_init.sql:122).  The net of one period may have more.
TrialBalanceReadable == rpc = "error" => trial.period # None

\* What the program writes as a decimal it reads back as the same amount, and so it
\* does with what the database renders: every amount of an entry and of a balance
\* (parseAmount and formatAmount, money.ts:22-45; toDbNumeric and fromDbNumeric on
\* the way).
AmountsRoundTrip ==
    LET amounts == {e.amount : e \in entries}
                     \cup {balances[a].amount : a \in {b \in Account : balances[b] # None}}
    IN  \A n \in amounts : ParseAmount(FormatAmount(n)) = n /\ ParseAmount(DbNumeric(n)) = n
=============================================================================
