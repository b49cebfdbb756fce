------------------------- MODULE MC_Reconciliation -------------------------
(***************************************************************************)
(* Instances of Reconciliation for TLC, over those of MC_WritePath.        *)
(***************************************************************************)
EXTENDS Reconciliation, MC_WritePath

\* Two legs on each account that cancel out: a legal request.
CancellingRequests ==
    { Deposit, R("t1", "k3", 2, TRUE, Legs(<<1, -1>>, <<1, -1>>)) }
============================================================================
