--------------------------- MODULE Reconciliation ---------------------------
(***************************************************************************)
(* The sidecars of src/src/engine/recon.ts beside the write path:          *)
(* reconcile() issues its statements one after the other, each over the    *)
(* rows committed when it runs, while postings go on; replayBalances() is  *)
(* one statement.                                                          *)
(***************************************************************************)
EXTENDS WritePath

VARIABLES
    rpc,        \* the statement reconcile() issues next
    rtenant,    \* the tenant it was called for
    report      \* what its statements returned so far

rvars == <<rpc, rtenant, report>>
allVars == <<vars, rvars>>

NoReport == [drift |-> {}, gaps |-> {}, unbalanced |-> {}, globalSum |-> 0]

(***************************************************************************)
(* The statements, for the rows committed now.                             *)
(***************************************************************************)
LogOfTenant(t, a) == {e \in LogOf(a) : e.tenant = t}
LoggedAccounts(t) == {a \in Account : LogOfTenant(t, a) # {}}
LastSeq(S) == Max({e.seq : e \in S})
HasStored(t, a) == balances[a] # None /\ balances[a].tenant = t
StoredAmount(t, a) == IF HasStored(t, a) THEN balances[a].amount ELSE 0
StoredSeq(t, a) == IF HasStored(t, a) THEN balances[a].seq ELSE 0

\* Fault: the log is read with the rows that are not committed yet.
DriftDirty(t) ==
    {a \in LoggedAccounts(t) :
        LET dirty == LogOfTenant(t, a) \cup
                     UNION {{e \in pending[c].entries : e.account = a /\ e.tenant = t} : c \in Call}
        IN  StoredAmount(t, a) # Total(dirty) \/ StoredSeq(t, a) # LastSeq(dirty)}

\* Accounts whose stored balance is not the sum of the log, or not at its end.
Drift(t) ==
    {a \in LoggedAccounts(t) : \/ StoredAmount(t, a) # Total(LogOfTenant(t, a))
                               \/ StoredSeq(t, a) # LastSeq(LogOfTenant(t, a))}

\* Accounts with fewer entries than their last seq.
Gaps(t) == {a \in LoggedAccounts(t) : Cardinality(LogOfTenant(t, a)) # LastSeq(LogOfTenant(t, a))}

EntriesOf(c) == {e \in entries : e.tx = c}
Unbalanced(t) == {c \in transactions : req[c].tenant = t /\ Total(EntriesOf(c)) # 0}
GlobalSum(t) == Total({e \in entries : e.tx \in transactions /\ req[e.tx].tenant = t})

\* replayBalances, and what account_balance stores for the tenant.
Replayed(t) ==
    {[account |-> a, seq |-> LastSeq(LogOfTenant(t, a)), amount |-> Total(LogOfTenant(t, a))] :
        a \in LoggedAccounts(t)}
Stored(t) ==
    {[account |-> a, seq |-> balances[a].seq, amount |-> balances[a].amount] :
        a \in {b \in Account : HasStored(t, b)}}

-----------------------------------------------------------------------------
RInit == Init /\ rpc = "idle" /\ rtenant \in Tenant /\ report = NoReport

ReadDrift ==
    /\ rpc = "idle" /\ FreeConnection
    /\ rpc' = "gaps" /\ rtenant' \in Tenant
    /\ report' = [NoReport EXCEPT !.drift = Drift(rtenant')]

ReadGaps ==
    /\ rpc = "gaps" /\ FreeConnection
    /\ rpc' = "unbalanced" /\ UNCHANGED rtenant
    /\ report' = [report EXCEPT !.gaps = Gaps(rtenant)]

ReadUnbalanced ==
    /\ rpc = "unbalanced" /\ FreeConnection
    /\ rpc' = "global" /\ UNCHANGED rtenant
    /\ report' = [report EXCEPT !.unbalanced = Unbalanced(rtenant)]

ReadGlobalSum ==
    /\ rpc = "global" /\ FreeConnection
    /\ rpc' = "done" /\ UNCHANGED rtenant
    /\ report' = [report EXCEPT !.globalSum = GlobalSum(rtenant)]

\* The report is returned and reconcile() may be called again.
Report == rpc = "done" /\ rpc' = "idle" /\ UNCHANGED rtenant /\ report' = NoReport

RNext ==
    \/ Next /\ UNCHANGED rvars
    \/ (ReadDrift \/ ReadGaps \/ ReadUnbalanced \/ ReadGlobalSum \/ Report) /\ UNCHANGED vars

RSpec == RInit /\ [][RNext]_allVars

-----------------------------------------------------------------------------
\* reconcile() raises no false alarm: its report is ok and the log sums to 0, though
\* its statements see different moments of a ledger that is being posted to
\* (recon.ts:26-78).  It is about requests whose lines do not cancel out on an
\* account and about ids of one tenant: see the two properties below.
NoFalseAlarm ==
    rpc = "done" =>
        report.drift = {} /\ report.gaps = {} /\ report.unbalanced = {} /\ report.globalSum = 0

\* "replay test: rebuild the projection from the log; the result must match stored
\* balances byte-exact" (docs/architecture.md:140-141), seq and amount alike.
ReplayMatchesStored == \A t \in Tenant : Replayed(t) = Stored(t)

\* seq is "dense, per account" (domain.ts:47), and an account is a row of
\* ledger_account, whose key is (tenant_id, account_id): one tenant's log has no
\* holes, whatever other tenants call their accounts.
DensePerTenant == \A t \in Tenant : Gaps(t) = {}
=============================================================================
