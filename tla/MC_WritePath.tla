--------------------------- MODULE MC_WritePath ---------------------------
(***************************************************************************)
(* Small instances of WritePath for TLC.                                   *)
(***************************************************************************)
EXTENDS WritePath, TLC

R(tenant, key, occurred, auto, legs) ==
    [tenant |-> tenant, key |-> key, kind |-> "TRANSFER", currency |-> "BRL", occurred |-> occurred,
     memo |-> "", reverses |-> None, auto |-> auto, legs |-> legs]
Legs(f, g) == (1 :> f) @@ (2 :> g)

MCPeriodOf == [i \in Instant |-> i]
CallSymmetry == Permutations(Call)

Everywhere(x) == [y \in Tenant \X Account |-> x]
Active == Everywhere("ACTIVE")
BRL == Everywhere("BRL")

(* Two tenants that use the same account ids, account 1 spendable for t1 and *)
(* account 2 for t2; two months, so that calls meet on accounts too.         *)
SpendableType == [x \in Tenant \X Account |->
                     IF x \in {<<"t1", 1>>, <<"t2", 2>>} THEN "asset" ELSE "liability"]

Deposit == R("t1", "k1", 1, TRUE, Legs(<<1, 1>>, <<-2>>))
PostingRequests ==
    { Deposit,
      R("t1", "k2", 2, TRUE, Legs(<<-2>>, <<2>>)),             \* spends it, in another month
      R("t1", "k1", 2, FALSE, Legs(<<-1>>, <<1>>)),            \* the deposit's key, another body
      R("t1", "k3", 2, TRUE, Legs(<<1, -1>>, <<1, -1>>)),      \* legs that cancel out
      R("t2", "k1", 1, TRUE, Legs(<<-3>>, <<3>>)),             \* another tenant, the same ids:
      R("t2", "k2", 1, TRUE, Legs(<<-2>>, <<2>>)) }            \* too much for t1's row, and not

(* Statuses that change under way, an account created late, a currency that does *)
(* not fit, requests that are refused before the database is touched.            *)
LateChart == [x \in Tenant \X Account |-> IF x[2] = 2 THEN "ABSENT" ELSE "ACTIVE"]
AllPeriods == Tenant \X Period
AdministrationRequests ==
    { Deposit,
      [Deposit EXCEPT !.legs = Legs(<<1, 1>>, <<-1, -1>>)],
      R("t1", "k2", 2, FALSE, Legs(<<-2>>, <<2>>)),
      [R("t1", "k3", 1, TRUE, Legs(<<2>>, <<-2>>)) EXCEPT !.currency = "EUR"],
      R("t1", "k4", 1, TRUE, Legs(<<2>>, <<-1>>)),             \* not balanced
      R("t1", "k5", 1, TRUE, 1 :> <<2, -2>>) }                 \* one account only
============================================================================
