--------------------------- MODULE MC_OutboxRelay ---------------------------
(***************************************************************************)
(* Instances of OutboxRelay for TLC: process p has two drains, so that the *)
(* timer can fire during a drain, and process q has one.                   *)
(***************************************************************************)
EXTENDS OutboxRelay

MCProcessOf == [d \in Drain |-> IF d = 3 THEN "q" ELSE "p"]
=============================================================================
