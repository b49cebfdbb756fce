---------------------------- MODULE MC_Statements ----------------------------
(***************************************************************************)
(* Instances of Statements for TLC, over those of MC_WritePath.            *)
(***************************************************************************)
EXTENDS Statements, MC_WritePath

\* Amounts such as 0.05, 1 and 0.03, that sum to 0.95 and to nothing.  The third
\* request does not fit a balance of 9.99 that has something in it, and what the last
\* one would change no column of that width holds, though the balances would.
CentRequests ==
    { R("t1", "k1", 1, TRUE, Legs(<<100, 5>>, <<-105>>)),
      R("t1", "k2", 2, TRUE, Legs(<<-10>>, <<3, 7>>)),
      R("t1", "k3", 1, TRUE, Legs(<<999>>, <<-9, -990>>)),
      R("t1", "k4", 1, TRUE, Legs(<<-504, -504>>, <<999, 9>>)) }
============================================================================
