-------------------------- MODULE MCDeadLetterQueue --------------------------
(* Instances of DeadLetterQueue for TLC.                                   *)
EXTENDS DeadLetterQueue

\* attempts is a history variable without bound of its own: RetryBudget bounds
\* it, and a state beyond the budget ends the run with a violation.
=============================================================================
