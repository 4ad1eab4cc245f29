--------------------------- MODULE MCReconciliation ---------------------------
(* Instances of Reconciliation small enough for TLC. *)
EXTENDS Reconciliation

NoForeign == {}

\* The default language's slug is taken by a page of somebody else.
DefaultForeign == Gtins \X {DefaultLanguage}
===============================================================================
