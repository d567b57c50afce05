----------------------------- MODULE MCTxBudget -----------------------------
(* TxBudget on small instances. *)
EXTENDS TxBudget, TLC
=============================================================================
