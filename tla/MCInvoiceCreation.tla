-------------------------- MODULE MCInvoiceCreation --------------------------
(* Lines and orders for InvoiceCreation: 25 per cent of 101 is rounded, 50 *)
(* per cent of 29 is half a cent, a line is discounted, one is taxed       *)
(* besides, one has no quantity.                                           *)
EXTENDS KRADocuments, TLC

Line(quantity, price, taxRate, discountRate) ==
  [quantity |-> quantity, price |-> price, taxRate |-> taxRate, discountRate |-> discountRate]

Rounded    == Line(1, 101, 25, 0)
Halved     == Line(1, 29, 50, 0)
Discounted == Line(1, 100, 0, 50)
LessTaxed  == Line(1, 102, 25, 50)
NoQuantity == Line(0, 100, 0, 0)

SomeOrders == {<<Rounded>>, <<Halved>>, <<LessTaxed, Discounted>>, <<NoQuantity>>}

Symmetry == Permutations(Tenants) \cup Permutations(Invoices)
=============================================================================
