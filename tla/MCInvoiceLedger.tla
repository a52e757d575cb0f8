-------------------------- MODULE MCInvoiceLedger --------------------------
(* The ledger on small instances.  Requests run the same code, and keys are *)
(* only compared with each other.                                          *)
EXTENDS InvoiceLedger, TLC

Symmetry == Permutations(Requests) \cup Permutations(Keys)
=============================================================================
