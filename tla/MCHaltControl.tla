--------------------------- MODULE MCHaltControl ---------------------------
(* Instances of HaltControl for TLC. *)
EXTENDS HaltControl, TLC

OneEvaluator == {"eval"}

\* Where only operators lift halts, over the end of a day, beside exposure
\* adjustments and aborts, with failing writes; where the market and the exchange
\* lift them too; where logins are audited; where the boots of the testnet, or a failed
\* assertion of the keys, leave rows of their own.
Mixed == {{"restart", "rollover"},
          {"restart", "accounting"},
          {"restart", "abort", "dbFails"},
          {"restart", "freeze", "autoResume"},
          {"freeze"},
          {"login", "dbFails"},
          {"restart", "exempt"},
          {"restart", "keyFails", "dbFails"}}

Interchangeable == Permutations(Operators)
=============================================================================
