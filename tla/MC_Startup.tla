----------------------------- MODULE MC_Startup -----------------------------
(***************************************************************************)
(* Instances of Startup for TLC: process p has two drains, so that the     *)
(* timer can fire during a drain, and process q has one.                   *)
(***************************************************************************)
EXTENDS Startup, MC_OutboxRelay
=============================================================================
