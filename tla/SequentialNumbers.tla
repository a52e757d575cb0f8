-------------------------- MODULE SequentialNumbers --------------------------
(***************************************************************************)
(* What numbering promises: a tenant's invoices get the numbers 1, 2, 3... *)
(* in the order in which they are stored, none is left out and none is     *)
(* given twice, whatever becomes of the invoices.                          *)
(***************************************************************************)
EXTENDS Naturals

CONSTANTS Tenants, Invoices

VARIABLES
  last,  \* last[t]: the last number given to an invoice of tenant t
  held   \* the numbers of the invoices there are: <<tenant, number, invoice>>

Init == /\ last = [t \in Tenants |-> 0]
        /\ held = {}

(* A new invoice gets the next number *)
Issue(t, i) ==
  /\ last' = [last EXCEPT ![t] = @ + 1]
  /\ held' = held \cup {<<t, last[t] + 1, i>>}

(* An invoice is deleted: its number is not given again *)
Void(t, n, i) ==
  /\ <<t, n, i>> \in held
  /\ held' = held \ {<<t, n, i>>}
  /\ UNCHANGED last

(* An invoice that was deleted is stored again, with the number it had *)
Return(t, n, i) ==
  /\ \A j \in Invoices : <<t, n, j>> \notin held
  /\ held' = held \cup {<<t, n, i>>}
  /\ UNCHANGED last

Next == \E t \in Tenants, i \in Invoices :
          \/ Issue(t, i)
          \/ \E n \in 1..last[t] : Void(t, n, i) \/ Return(t, n, i)

Spec == Init /\ [][Next]_<<last, held>>
=============================================================================
