------------------------------- MODULE MCLedger -------------------------------
(***************************************************************************)
(* Small instances for model checking Ledger.                              *)
(***************************************************************************)
EXTENDS Ledger

CONSTANTS m, p, u

\* What users ask for: less than nothing, and more than a reward.
AnyAmounts == {-1, 3}
===============================================================================
