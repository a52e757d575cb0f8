------------------------ MODULE InvoiceCreationProofs ------------------------
(***************************************************************************)
(* Creation implements sequential numbering, for any tenants, invoices,    *)
(* requests and amounts: how totals are computed plays no part.  And what  *)
(* is created is declared as it was created, for any lines, rates,         *)
(* discounts and parts of a cent: here it is the totals that matter.       *)
(*                                                                         *)
(* A number is known if an invoice has it or an edit under way has read    *)
(* it, and so may store it again.  Known numbers stay within the sequence, *)
(* an invoice has one for good, and no two invoices share one.             *)
(*                                                                         *)
(* For the totals: sums over the lines are linear in what they add up,     *)
(* rounding keeps whole cents apart, and so the three ways of computing a  *)
(* total agree on a sound request and differ by a rate that shows.  Every  *)
(* row then fits its label and the edits made, and the lines that edits    *)
(* have read are those of the row.                                         *)
(***************************************************************************)
EXTENDS KRADocuments, FiniteSetTheorems, SequenceTheorems, WellFoundedInduction, TLAPS

Known(i, l) ==
  \/ i \in Invoices /\ Exists(i) /\ l = label[i]
  \/ \E e \in Editors : Reading(e) /\ i = edit[e].of /\ l = edit[e].label

Types == /\ seq \in [Tenants -> Nat]
         /\ label \in [Invoices -> Label \cup {NoRow}]
         /\ DOMAIN edit = Editors

Drawn == \A i, l : Known(i, l) =>
           i \in Invoices /\ l \in Label /\ l.number <= seq[l.tenant]

Distinct == \A i, l, j, m : Known(i, l) /\ Known(j, m) =>
              /\ i = j => l = m
              /\ i # j /\ l.tenant = m.tenant /\ l.number > 0 => l.number # m.number

Inv == Types /\ Drawn /\ Distinct

-----------------------------------------------------------------------------
(* A creation adds the next number, or nothing. *)
NewLabel(t) ==
  [tenant |-> t, kind |-> "invoice", number |-> seq[t] + 1, suffix |-> NoRow]

LEMMA CreateMakes ==
  ASSUME NEW i, NEW t, NEW lines, NEW rate, NEW discount, Create(i, t, lines, rate, discount)
  PROVE  \E kept \in MayStore(lines), tax \in Cents(TaxDue(lines, rate)),
            total \in Cents(AmountDue(lines, rate, discount)) :
         \E calculated \in Calculated(kept, discount) :
           \/ /\ HasSequence(t) /\ total = calculated
              /\ seq' = [seq EXCEPT ![t] = @ + 1]
              /\ label' = [label EXCEPT ![i] = NewLabel(t)]
              /\ row' = [row EXCEPT ![i] = Draft(kept, lines, rate, discount, tax, total)]
           \/ /\ ~(HasSequence(t) /\ total = calculated)
              /\ seq' = [seq EXCEPT ![t] = @] /\ label' = label /\ row' = row
<1>1. PICK kept \in MayStore(lines), tax \in Cents(TaxDue(lines, rate)),
           total \in Cents(AmountDue(lines, rate, discount)) :
        \E calculated \in Calculated(kept, discount) :
          /\ seq' = SequenceAfter(t, HasSequence(t) /\ total = calculated)
          /\ IF HasSequence(t) /\ total = calculated
             THEN /\ label' = [label EXCEPT ![i] = NewLabel(t)]
                  /\ row' = [row EXCEPT ![i] = Draft(kept, lines, rate, discount, tax, total)]
             ELSE label' = label /\ row' = row
  BY DEF Create, NextNumber, NewLabel
<1>2. PICK calculated \in Calculated(kept, discount) :
        /\ seq' = SequenceAfter(t, HasSequence(t) /\ total = calculated)
        /\ IF HasSequence(t) /\ total = calculated
           THEN /\ label' = [label EXCEPT ![i] = NewLabel(t)]
                /\ row' = [row EXCEPT ![i] = Draft(kept, lines, rate, discount, tax, total)]
           ELSE label' = label /\ row' = row
  BY <1>1
<1>3. CASE HasSequence(t) /\ total = calculated
  <2>1. seq' = [seq EXCEPT ![t] = @ + 1]
    BY <1>2, <1>3 DEF SequenceAfter
  <2>2. /\ label' = [label EXCEPT ![i] = NewLabel(t)]
        /\ row' = [row EXCEPT ![i] = Draft(kept, lines, rate, discount, tax, total)]
    BY <1>2, <1>3
  <2> QED BY <1>3, <2>1, <2>2
<1>4. CASE ~(HasSequence(t) /\ total = calculated)
  <2>1. seq' = [seq EXCEPT ![t] = @]
    BY <1>2, <1>4 DEF SequenceAfter
  <2> QED BY <1>2, <1>4, <2>1
<1> QED BY <1>3, <1>4

LEMMA CreateCases ==
  ASSUME Inv, NEW i \in Invoices, NEW t \in Tenants, NEW lines, NEW rate, NEW discount,
         Create(i, t, lines, rate, discount)
  PROVE  \/ seq' = seq /\ label' = label
         \/ /\ seq' = [seq EXCEPT ![t] = @ + 1]
            /\ label' = [label EXCEPT ![i] = NewLabel(t)]
            /\ NewLabel(t) \in Label
<1>1. \/ /\ seq' = [seq EXCEPT ![t] = @ + 1]
         /\ label' = [label EXCEPT ![i] = NewLabel(t)]
      \/ seq' = [seq EXCEPT ![t] = @] /\ label' = label
  BY CreateMakes
<1>2. NewLabel(t) \in Label
  BY DEF NewLabel, Label, Inv, Types
<1>3. [seq EXCEPT ![t] = @] = seq
  BY DEF Inv, Types
<1> QED BY <1>1, <1>2, <1>3

(* What an action that draws no number has to show. *)
LEMMA NothingNew ==
  ASSUME Inv, seq' = seq, Types', \A i, l : Known(i, l)' => Known(i, l)
  PROVE  Inv'
BY DEF Inv, Drawn, Distinct

(* What a creation has to show: the label is the invoice's first, and its  *)
(* number is the next one of the tenant, or none.                          *)
LEMMA OneNew ==
  ASSUME Inv, NEW i \in Invoices, NEW new \in Label, Types',
         \A l : ~Known(i, l),
         \A j, l : Known(j, l)' => Known(j, l) \/ (j = i /\ l = new),
         \/ new.number = 0 /\ seq' = seq
         \/ /\ new.number = seq[new.tenant] + 1
            /\ seq' = [seq EXCEPT ![new.tenant] = @ + 1]
  PROVE  Inv'
<1>1. \A t \in Tenants : seq[t] \in Nat /\ seq'[t] \in Nat /\ seq[t] <= seq'[t]
  BY DEF Inv, Types, Label
<1>2. new.tenant \in Tenants /\ new.number \in Nat /\ new.number <= seq'[new.tenant]
  BY DEF Inv, Types, Label
<1>3. Drawn'
  <2> SUFFICES ASSUME NEW j, NEW l, Known(j, l)'
               PROVE  j \in Invoices /\ l \in Label /\ l.number <= seq'[l.tenant]
    BY DEF Drawn
  <2>1. CASE Known(j, l)
    <3>1. j \in Invoices /\ l \in Label /\ l.number <= seq[l.tenant]
      BY <2>1 DEF Inv, Drawn
    <3>2. l.tenant \in Tenants /\ l.number \in Nat
      BY <3>1 DEF Label
    <3> QED BY <3>1, <3>2, <1>1
  <2>2. CASE j = i /\ l = new
    BY <2>2, <1>2
  <2> QED BY <2>1, <2>2
<1>4. \A j, l : Known(j, l) /\ l.tenant = new.tenant /\ new.number > 0 => l.number # new.number
  <2> SUFFICES ASSUME NEW j, NEW l, Known(j, l), l.tenant = new.tenant, new.number > 0
               PROVE  l.number # new.number
    OBVIOUS
  <2>1. l \in Label /\ l.number <= seq[l.tenant]
    BY DEF Inv, Drawn
  <2>2. l.number \in Nat /\ seq[l.tenant] \in Nat
    BY <2>1, <1>1 DEF Label
  <2>3. new.number = seq[l.tenant] + 1
    BY <1>2
  <2> QED BY <2>1, <2>2, <2>3
<1>5. Distinct'
  <2> SUFFICES ASSUME NEW j, NEW l, NEW k, NEW m, Known(j, l)', Known(k, m)'
               PROVE  /\ j = k => l = m
                      /\ j # k /\ l.tenant = m.tenant /\ l.number > 0 => l.number # m.number
    BY DEF Distinct
  <2>1. CASE Known(j, l) /\ Known(k, m)
    BY <2>1 DEF Inv, Distinct
  <2>2. CASE j = i /\ l = new /\ Known(k, m)
    BY <2>2, <1>4
  <2>3. CASE Known(j, l) /\ k = i /\ m = new
    <3>1. j # k
      BY <2>3
    <3>2. l.tenant = m.tenant /\ l.number > 0 => l.number # m.number
      <4>1. CASE new.number > 0
        BY <4>1, <2>3, <1>4
      <4>2. CASE ~(new.number > 0)
        BY <4>2, <2>3, <1>2
      <4> QED BY <4>1, <4>2
    <3> QED BY <3>1, <3>2
  <2>4. CASE j = i /\ l = new /\ k = i /\ m = new
    BY <2>4
  <2> QED BY <2>1, <2>2, <2>3, <2>4
<1> QED BY <1>3, <1>5 DEF Inv

-----------------------------------------------------------------------------
LEMMA UnusedUnknown ==
  ASSUME NEW i \in Invoices, Unused(i)
  PROVE  \A l : ~Known(i, l)
BY DEF Unused, Known, Exists, Reading

(* What is known after a row's label has been written, or nothing has been *)
LEMMA KnownAfterLabel ==
  ASSUME Inv, NEW i \in Invoices, NEW new, label' = [label EXCEPT ![i] = new], edit' = edit
  PROVE  \A j, l : Known(j, l)' => Known(j, l) \/ (j = i /\ l = new)
BY DEF Known, Exists, Reading, Inv, Types

LEMMA KnownUnchanged ==
  ASSUME label' = label, edit' = edit
  PROVE  \A j, l : Known(j, l)' => Known(j, l)
BY DEF Known, Exists, Reading

LEMMA CreateKeeps ==
  ASSUME Inv, NEW i \in Invoices, NEW t \in Tenants, NEW lines, NEW rate, NEW discount,
         Unused(i), edit' = edit,
         Create(i, t, lines, rate, discount)
  PROVE  Inv'
<1>1. CASE seq' = seq /\ label' = label
  <2>1. Types'
    BY <1>1 DEF Inv, Types
  <2> QED BY <1>1, <2>1, KnownUnchanged, NothingNew
<1>2. CASE /\ seq' = [seq EXCEPT ![t] = @ + 1]
           /\ label' = [label EXCEPT ![i] = NewLabel(t)]
           /\ NewLabel(t) \in Label
  <2> DEFINE new == NewLabel(t)
  <2>1. new \in Label /\ new.tenant = t /\ new.number = seq[t] + 1
    BY <1>2 DEF NewLabel
  <2>2. Types'
    BY <1>2 DEF Inv, Types
  <2>3. label' = [label EXCEPT ![i] = new]
    BY <1>2
  <2> HIDE DEF new
  <2>4. \A j, l : Known(j, l)' => Known(j, l) \/ (j = i /\ l = new)
    BY <2>3, KnownAfterLabel
  <2>5. \A l : ~Known(i, l)
    BY UnusedUnknown
  <2>6. /\ new.number = seq[new.tenant] + 1
        /\ seq' = [seq EXCEPT ![new.tenant] = @ + 1]
    BY <1>2, <2>1
  <2> QED BY <2>1, <2>2, <2>4, <2>5, <2>6, OneNew
<1> QED BY <1>1, <1>2, CreateCases

LEMMA NoteKeeps ==
  ASSUME Inv, NEW i \in Invoices, NEW j \in Invoices, CreateNote(i, j)
  PROVE  Inv'
<1>1. PICK kind \in {"credit_note", "debit_note"}, suffix \in Suffixes :
        /\ Unused(i) /\ Exists(j)
        /\ label' = [label EXCEPT ![i] =
             [tenant |-> label[j].tenant, kind |-> kind, number |-> 0, suffix |-> suffix]]
        /\ seq' = seq /\ edit' = edit
  BY DEF CreateNote
<1> DEFINE new == [tenant |-> label[j].tenant, kind |-> kind, number |-> 0,
                   suffix |-> suffix]
<1>2. label[j] \in Label
  BY <1>1 DEF Inv, Types, Exists
<1>3. new \in Label /\ new.number = 0
  BY <1>2 DEF Label
<1>4. label' = [label EXCEPT ![i] = new]
  BY <1>1
<1> HIDE DEF new
<1>5. Types'
  BY <1>1, <1>3, <1>4 DEF Inv, Types
<1>6. \A k, l : Known(k, l)' => Known(k, l) \/ (k = i /\ l = new)
  BY <1>1, <1>4, KnownAfterLabel
<1>7. \A l : ~Known(i, l)
  BY <1>1, UnusedUnknown
<1> QED BY <1>1, <1>3, <1>5, <1>6, <1>7, OneNew

LEMMA DeleteKeeps ==
  ASSUME Inv, NEW i \in Invoices, DeleteInvoice(i)
  PROVE  Inv'
<1>1. \/ label' = [label EXCEPT ![i] = NoRow]
      \/ label' = label
  BY DEF DeleteInvoice
<1>2. seq' = seq /\ edit' = edit
  BY DEF DeleteInvoice
<1>3. Types'
  BY <1>1, <1>2 DEF Inv, Types
<1>4. \A j, l : Known(j, l)' => Known(j, l)
  BY <1>1, <1>2 DEF Known, Exists, Reading, Inv, Types
<1> QED BY <1>2, <1>3, <1>4, NothingNew

LEMMA ReadsKeeps ==
  ASSUME Inv, NEW e \in Editors, UpdateReads(e)
  PROVE  Inv'
<1>1. PICK i \in Invoices :
        /\ Exists(i)
        /\ edit' = [edit EXCEPT ![e] = [of |-> i, label |-> label[i], row |-> row[i]]]
        /\ seq' = seq /\ label' = label
  BY DEF UpdateReads
<1>2. Types'
  BY <1>1 DEF Inv, Types
<1>3. \A f \in Editors : edit'[f] = IF f = e THEN [of |-> i, label |-> label[i], row |-> row[i]]
                                             ELSE edit[f]
  BY <1>1 DEF Inv, Types
<1>4. \A j, l : Known(j, l)' => Known(j, l)
  <2> SUFFICES ASSUME NEW j, NEW l, Known(j, l)'
               PROVE  Known(j, l)
    OBVIOUS
  <2>1. CASE j \in Invoices /\ Exists(j)' /\ l = label'[j]
    BY <1>1, <2>1 DEF Known, Exists
  <2>2. CASE \E f \in Editors : Reading(f)' /\ j = edit'[f].of /\ l = edit'[f].label
    <3>1. PICK f \in Editors : Reading(f)' /\ j = edit'[f].of /\ l = edit'[f].label
      BY <2>2
    <3>2. CASE f = e
      BY <1>1, <1>3, <3>1, <3>2 DEF Known
    <3>3. CASE f # e
      <4>1. Reading(f) /\ j = edit[f].of /\ l = edit[f].label
        BY <1>3, <3>1, <3>3 DEF Reading
      <4> QED BY <4>1 DEF Known
    <3> QED BY <3>2, <3>3
  <2> QED BY <2>1, <2>2 DEF Known
<1> QED BY <1>1, <1>2, <1>4, NothingNew

LEMMA SavesKeeps ==
  ASSUME Inv, NEW e \in Editors, UpdateSaves(e)
  PROVE  Inv'
<1> DEFINE i == edit[e].of
<1>1. /\ Reading(e)
      /\ label' = [label EXCEPT ![i] = edit[e].label]
      /\ edit' = [edit EXCEPT ![e] = Done]
      /\ seq' = seq
  BY DEF UpdateSaves
<1>2. Known(i, edit[e].label)
  BY <1>1 DEF Known
<1>3. i \in Invoices /\ edit[e].label \in Label
  BY <1>2 DEF Inv, Drawn
<1>4. Types'
  BY <1>1, <1>3 DEF Inv, Types
<1>5. \A j \in Invoices : label'[j] = IF j = i THEN edit[e].label ELSE label[j]
  BY <1>1 DEF Inv, Types
<1>6. \A f \in Editors : edit'[f] = IF f = e THEN Done ELSE edit[f]
  BY <1>1 DEF Inv, Types
<1>7. \A j, l : Known(j, l)' => Known(j, l)
  <2> SUFFICES ASSUME NEW j, NEW l, Known(j, l)'
               PROVE  Known(j, l)
    OBVIOUS
  <2>1. CASE j \in Invoices /\ Exists(j)' /\ l = label'[j]
    BY <1>2, <1>5, <2>1 DEF Known, Exists
  <2>2. CASE \E f \in Editors : Reading(f)' /\ j = edit'[f].of /\ l = edit'[f].label
    <3>1. PICK f \in Editors : Reading(f)' /\ j = edit'[f].of /\ l = edit'[f].label
      BY <2>2
    <3>2. f # e /\ Reading(f) /\ j = edit[f].of /\ l = edit[f].label
      BY <1>6, <3>1 DEF Reading
    <3> QED BY <3>2 DEF Known
  <2> QED BY <2>1, <2>2 DEF Known
<1> QED BY <1>1, <1>4, <1>7, NothingNew

LEMMA RefusedKeeps ==
  ASSUME Inv, NEW e \in Editors, UpdateRefused(e)
  PROVE  Inv'
<1>1. edit' = [edit EXCEPT ![e] = Done] /\ seq' = seq /\ label' = label
  BY DEF UpdateRefused
<1>2. Types'
  BY <1>1 DEF Inv, Types
<1>3. \A f \in Editors : edit'[f] = IF f = e THEN Done ELSE edit[f]
  BY <1>1 DEF Inv, Types
<1>4. \A j, l : Known(j, l)' => Known(j, l)
  BY <1>1, <1>3 DEF Known, Exists, Reading
<1> QED BY <1>1, <1>2, <1>4, NothingNew

LEMMA NextKeeps ==
  ASSUME Inv, [Next]_vars
  PROVE  Inv'
<1>1. ASSUME NEW i \in Invoices, CreateInvoice(i)
      PROVE  Inv'
  <2>1. PICK t \in Tenants, lines \in Orders, rate \in Rates, discount \in Discounts :
          Unused(i) /\ Create(i, t, lines, rate, discount) /\ edit' = edit
    BY <1>1 DEF CreateInvoice
  <2> QED BY <2>1, CreateKeeps
<1>2. ASSUME NEW i \in Invoices, NEW j \in Invoices, DuplicateInvoice(i, j)
      PROVE  Inv'
  <2>1. label[j].tenant \in Tenants
    BY <1>2 DEF DuplicateInvoice, Inv, Types, Exists, Label
  <2> QED BY <1>2, <2>1, CreateKeeps DEF DuplicateInvoice
<1>3. ASSUME NEW i \in Invoices, Progresses(i) \/ Registers(i)
      PROVE  Inv'
  <2>1. seq' = seq /\ label' = label /\ edit' = edit
    BY <1>3 DEF Progresses, Registers
  <2>2. Types'
    BY <2>1 DEF Inv, Types
  <2> QED BY <2>1, <2>2, KnownUnchanged, NothingNew
<1>4. CASE UNCHANGED vars
  <2>1. seq' = seq /\ label' = label /\ edit' = edit
    BY <1>4 DEF vars
  <2>2. Types'
    BY <2>1 DEF Inv, Types
  <2> QED BY <2>1, <2>2, KnownUnchanged, NothingNew
<1> QED BY <1>1, <1>2, <1>3, <1>4, NoteKeeps, DeleteKeeps, ReadsKeeps, SavesKeeps, RefusedKeeps
        DEF Next

LEMMA Initially ==
  ASSUME Init
  PROVE  Inv
BY DEF Init, Inv, Types, Drawn, Distinct, Known, Exists, Reading

(* Numbers stay within the sequence and are never shared, not even with    *)
(* an invoice that an edit may store again (GetNextSequence).              *)
THEOREM NumbersStayDistinct == Spec => []Inv
<1>1. Init => Inv
  BY Initially
<1>2. Inv /\ [Next]_vars => Inv'
  BY NextKeeps
<1> QED BY <1>1, <1>2, PTL DEF Spec

-----------------------------------------------------------------------------
(* The refinement *)
LEMMA InHeld ==
  ASSUME NEW t, NEW n, NEW i
  PROVE  <<t, n, i>> \in Held <=> /\ i \in Invoices /\ Exists(i) /\ label[i].number > 0
                                  /\ t = label[i].tenant /\ n = label[i].number
BY DEF Held

LEMMA HeldAreTriples ==
  ASSUME NEW x \in Held
  PROVE  \E t, n, i : x = <<t, n, i>>
BY DEF Held

LEMMA HeldUnchanged ==
  ASSUME label' = label
  PROVE  Held' = Held
BY DEF Held, Exists

(* A label with a number is written where there was none: it joins the     *)
(* numbers that are held.                                                  *)
LEMMA HeldGrows ==
  ASSUME Inv, NEW i \in Invoices, NEW new \in Label, ~Exists(i), new.number > 0,
         label' = [label EXCEPT ![i] = new]
  PROVE  Held' = Held \cup {<<new.tenant, new.number, i>>}
<1>1. \A j \in Invoices : label'[j] = IF j = i THEN new ELSE label[j]
  BY DEF Inv, Types
<1>2. new # NoRow
  BY NoRowAssumption
<1>3. \A t, n, j : <<t, n, j>> \in Held' <=>
        /\ j \in Invoices /\ label'[j] # NoRow /\ label'[j].number > 0
        /\ t = label'[j].tenant /\ n = label'[j].number
  BY DEF Held, Exists
<1>4. ASSUME NEW t, NEW n, NEW j
      PROVE  <<t, n, j>> \in Held' <=>
               <<t, n, j>> \in Held \/ (t = new.tenant /\ n = new.number /\ j = i)
  <2>1. <<t, n, j>> \in Held <=> /\ j \in Invoices /\ label[j] # NoRow /\ label[j].number > 0
                                /\ t = label[j].tenant /\ n = label[j].number
    BY InHeld DEF Exists
  <2>2. CASE j = i
    <3>1. <<t, n, j>> \notin Held
      BY <2>1, <2>2 DEF Exists
    <3>2. <<t, n, j>> \in Held' <=> t = new.tenant /\ n = new.number
      BY <1>1, <1>2, <1>3, <2>2
    <3> QED BY <2>2, <3>1, <3>2
  <2>3. CASE j # i
    BY <1>1, <1>3, <2>1, <2>3
  <2> QED BY <2>2, <2>3
<1>5. \A x \in Held' : \E t, n, j : x = <<t, n, j>>
  BY DEF Held
<1> QED BY <1>4, <1>5, HeldAreTriples

(* A label without a number is written where there was none. *)
LEMMA HeldSame ==
  ASSUME Inv, NEW i \in Invoices, NEW new \in Label, ~Exists(i), ~(new.number > 0),
         label' = [label EXCEPT ![i] = new]
  PROVE  Held' = Held
<1>1. \A j \in Invoices : label'[j] = IF j = i THEN new ELSE label[j]
  BY DEF Inv, Types
<1>3. \A t, n, j : <<t, n, j>> \in Held' <=>
        /\ j \in Invoices /\ label'[j] # NoRow /\ label'[j].number > 0
        /\ t = label'[j].tenant /\ n = label'[j].number
  BY DEF Held, Exists
<1>4. ASSUME NEW t, NEW n, NEW j
      PROVE  <<t, n, j>> \in Held' <=> <<t, n, j>> \in Held
  <2>1. <<t, n, j>> \in Held <=> /\ j \in Invoices /\ label[j] # NoRow /\ label[j].number > 0
                                /\ t = label[j].tenant /\ n = label[j].number
    BY InHeld DEF Exists
  <2>2. CASE j = i
    BY <1>1, <1>3, <2>1, <2>2 DEF Exists
  <2>3. CASE j # i
    BY <1>1, <1>3, <2>1, <2>3
  <2> QED BY <2>2, <2>3
<1>5. \A x \in Held' : \E t, n, j : x = <<t, n, j>>
  BY DEF Held
<1> QED BY <1>4, <1>5, HeldAreTriples

(* A label is taken away. *)
LEMMA HeldShrinks ==
  ASSUME Inv, NEW i \in Invoices, Exists(i), label' = [label EXCEPT ![i] = NoRow]
  PROVE  Held' = Held \ {<<label[i].tenant, label[i].number, i>>}
<1>1. \A j \in Invoices : label'[j] = IF j = i THEN NoRow ELSE label[j]
  BY DEF Inv, Types
<1>3. \A t, n, j : <<t, n, j>> \in Held' <=>
        /\ j \in Invoices /\ label'[j] # NoRow /\ label'[j].number > 0
        /\ t = label'[j].tenant /\ n = label'[j].number
  BY DEF Held, Exists
<1>4. ASSUME NEW t, NEW n, NEW j
      PROVE  <<t, n, j>> \in Held' <=>
               /\ <<t, n, j>> \in Held
               /\ <<t, n, j>> # <<label[i].tenant, label[i].number, i>>
  <2>1. <<t, n, j>> \in Held <=> /\ j \in Invoices /\ label[j] # NoRow /\ label[j].number > 0
                                /\ t = label[j].tenant /\ n = label[j].number
    BY InHeld DEF Exists
  <2>2. CASE j = i
    BY <1>1, <1>3, <2>1, <2>2
  <2>3. CASE j # i
    BY <1>1, <1>3, <2>1, <2>3
  <2> QED BY <2>2, <2>3
<1>5. \A x \in Held' : \E t, n, j : x = <<t, n, j>>
  BY DEF Held
<1> QED BY <1>4, <1>5, HeldAreTriples

LEMMA CreateIssues ==
  ASSUME Inv, NEW i \in Invoices, NEW t \in Tenants, NEW lines, NEW rate, NEW discount,
         Unused(i),
         Create(i, t, lines, rate, discount)
  PROVE  Numbering!Next \/ (seq' = seq /\ Held' = Held)
<1>1. CASE seq' = seq /\ label' = label
  BY <1>1, HeldUnchanged
<1>2. CASE /\ seq' = [seq EXCEPT ![t] = @ + 1]
           /\ label' = [label EXCEPT ![i] = NewLabel(t)]
           /\ NewLabel(t) \in Label
  <2>1. NewLabel(t).tenant = t /\ NewLabel(t).number = seq[t] + 1
    BY DEF NewLabel
  <2>2. NewLabel(t).number > 0
    BY <2>1 DEF Inv, Types
  <2>3. Held' = Held \cup {<<t, seq[t] + 1, i>>}
    BY <1>2, <2>1, <2>2, HeldGrows DEF Unused
  <2>4. Numbering!Issue(t, i)
    BY <1>2, <2>3 DEF Numbering!Issue
  <2> QED BY <2>4 DEF Numbering!Next
<1> QED BY <1>1, <1>2, CreateCases

LEMMA SaveReturns ==
  ASSUME Inv, NEW e \in Editors, UpdateSaves(e)
  PROVE  Numbering!Next \/ (seq' = seq /\ Held' = Held)
<1> DEFINE i == edit[e].of
           old == edit[e].label
<1>1. Reading(e) /\ label' = [label EXCEPT ![i] = old] /\ seq' = seq
  BY DEF UpdateSaves
<1>2. Known(i, old)
  BY <1>1 DEF Known
<1>3. i \in Invoices /\ old \in Label /\ old.number <= seq[old.tenant]
  BY <1>2 DEF Inv, Drawn
<1> HIDE DEF i, old
<1>4. CASE Exists(i)
  <2>1. Known(i, label[i])
    BY <1>3, <1>4 DEF Known
  <2>2. label[i] = old
    BY <1>2, <2>1 DEF Inv, Distinct
  <2>3. label' = label
    BY <1>1, <2>2 DEF Inv, Types
  <2> QED BY <1>1, <2>3, HeldUnchanged
<1>5. CASE ~Exists(i) /\ old.number > 0
  <2>1. Held' = Held \cup {<<old.tenant, old.number, i>>}
    BY <1>1, <1>3, <1>5, HeldGrows
  <2>2. ASSUME NEW j \in Invoices, <<old.tenant, old.number, j>> \in Held
        PROVE  FALSE
    <3>1. Exists(j) /\ old.tenant = label[j].tenant /\ old.number = label[j].number
      BY <2>2, InHeld
    <3>2. Known(j, label[j])
      BY <3>1 DEF Known
    <3>3. i # j
      BY <3>1, <1>5
    <3> QED BY <1>2, <1>5, <3>1, <3>2, <3>3 DEF Inv, Distinct
  <2>3. old.tenant \in Tenants /\ old.number \in 1..seq[old.tenant]
    BY <1>3, <1>5 DEF Inv, Types, Label
  <2>4. Numbering!Return(old.tenant, old.number, i)
    BY <1>1, <2>1, <2>2 DEF Numbering!Return
  <2> QED BY <1>3, <2>3, <2>4 DEF Numbering!Next
<1>6. CASE ~Exists(i) /\ ~(old.number > 0)
  BY <1>1, <1>3, <1>6, HeldSame
<1> QED BY <1>4, <1>5, <1>6

LEMMA DeleteVoids ==
  ASSUME Inv, NEW i \in Invoices, DeleteInvoice(i)
  PROVE  Numbering!Next \/ (seq' = seq /\ Held' = Held)
<1> DEFINE t == label[i].tenant
           n == label[i].number
<1>1. Exists(i) /\ seq' = seq
  BY DEF DeleteInvoice
<1>2. CASE label' = label
  BY <1>1, <1>2, HeldUnchanged
<1>3. CASE label' = [label EXCEPT ![i] = NoRow]
  <2>1. Held' = Held \ {<<t, n, i>>}
    BY <1>1, <1>3, HeldShrinks
  <2>2. label[i] \in Label
    BY <1>1 DEF Inv, Types, Exists
  <2>3. Known(i, label[i])
    BY <1>1 DEF Known
  <2>4. n <= seq[t]
    BY <2>3 DEF Inv, Drawn
  <2>5. CASE n > 0
    <3>1. <<t, n, i>> \in Held
      BY <1>1, <2>5, InHeld
    <3>2. t \in Tenants /\ n \in 1..seq[t]
      BY <2>2, <2>4, <2>5 DEF Label, Inv, Types
    <3>3. Numbering!Void(t, n, i)
      BY <1>1, <2>1, <3>1 DEF Numbering!Void
    <3> QED BY <3>2, <3>3 DEF Numbering!Next
  <2>6. CASE ~(n > 0)
    <3>1. <<t, n, i>> \notin Held
      BY <2>6, InHeld
    <3> QED BY <1>1, <2>1, <3>1
  <2> QED BY <2>5, <2>6
<1> QED BY <1>2, <1>3 DEF DeleteInvoice

LEMMA NoteIsSilent ==
  ASSUME Inv, NEW i \in Invoices, NEW j \in Invoices, CreateNote(i, j)
  PROVE  seq' = seq /\ Held' = Held
<1>1. PICK kind \in {"credit_note", "debit_note"}, suffix \in Suffixes :
        /\ Unused(i) /\ Exists(j) /\ seq' = seq
        /\ label' = [label EXCEPT ![i] =
             [tenant |-> label[j].tenant, kind |-> kind, number |-> 0, suffix |-> suffix]]
  BY DEF CreateNote
<1> DEFINE new == [tenant |-> label[j].tenant, kind |-> kind, number |-> 0,
                   suffix |-> suffix]
<1>2. label[j] \in Label
  BY <1>1 DEF Inv, Types, Exists
<1>3. new \in Label /\ ~(new.number > 0)
  BY <1>2 DEF Label
<1>4. label' = [label EXCEPT ![i] = new] /\ ~Exists(i)
  BY <1>1 DEF Unused
<1> HIDE DEF new
<1> QED BY <1>1, <1>3, <1>4, HeldSame

LEMMA StepsRefine ==
  ASSUME Inv, [Next]_vars
  PROVE  Numbering!Next \/ (seq' = seq /\ Held' = Held)
<1>1. ASSUME NEW i \in Invoices, CreateInvoice(i)
      PROVE  Numbering!Next \/ (seq' = seq /\ Held' = Held)
  <2>1. PICK t \in Tenants, lines \in Orders, rate \in Rates, discount \in Discounts :
          Unused(i) /\ Create(i, t, lines, rate, discount)
    BY <1>1 DEF CreateInvoice
  <2> QED BY <2>1, CreateIssues
<1>2. ASSUME NEW i \in Invoices, NEW j \in Invoices, DuplicateInvoice(i, j)
      PROVE  Numbering!Next \/ (seq' = seq /\ Held' = Held)
  <2>1. label[j].tenant \in Tenants
    BY <1>2 DEF DuplicateInvoice, Inv, Types, Exists, Label
  <2> QED BY <1>2, <2>1, CreateIssues DEF DuplicateInvoice
<1>3. ASSUME NEW i \in Invoices, Progresses(i) \/ Registers(i)
      PROVE  seq' = seq /\ Held' = Held
  BY <1>3, HeldUnchanged DEF Progresses, Registers
<1>4. ASSUME NEW e \in Editors, UpdateReads(e) \/ UpdateRefused(e)
      PROVE  seq' = seq /\ Held' = Held
  BY <1>4, HeldUnchanged DEF UpdateReads, UpdateRefused
<1>5. CASE UNCHANGED vars
  BY <1>5, HeldUnchanged DEF vars
<1> QED BY <1>1, <1>2, <1>3, <1>4, <1>5, NoteIsSilent, DeleteVoids, SaveReturns DEF Next

(* Creation implements sequential numbering: no number is left out and     *)
(* none given twice (CreateInvoice, GetNextSequence, UpdateInvoice,        *)
(* DeleteInvoice).                                                         *)
THEOREM NumberingImplemented == Spec => NumbersAreSequential
<1>1. Init => Numbering!Init
  BY DEF Init, Numbering!Init, Held, Exists
<1>2. Inv /\ [Next]_vars => [Numbering!Next]_<<seq, Held>>
  BY StepsRefine
<1> QED BY <1>1, <1>2, NumbersStayDistinct, PTL DEF Spec, NumbersAreSequential, Numbering!Spec

-----------------------------------------------------------------------------
(* Sums: of a function over a finite set *)
LEMMA LeastNumber ==
  ASSUME NEW X, X \subseteq Nat, X # {}
  PROVE  \E x \in X : \A y \in X : x <= y
<1>1. PICK less : less = OpToRel(<, Nat)
  OBVIOUS
<1>2. IsWellFoundedOn(less, Nat)
  BY <1>1, NatLessThanWellFounded
<1>3. PICK x \in X : \A y \in X : ~(<<y, x>> \in less)
  BY <1>2, WFMin
<1>4. \A y \in X : y < x => <<y, x>> \in less
  BY <1>1 DEF OpToRel
<1>5. \A y \in X : ~(y < x)
  BY <1>3, <1>4, Zenon
<1>6. \A y, z \in Nat : ~(z < y) => y <= z
  OBVIOUS
<1> QED BY <1>5, <1>6, Zenon

LEMMA LeastSubset ==
  ASSUME NEW S, IsFiniteSet(S), NEW X, X \subseteq SUBSET S, X # {}
  PROVE  \E T \in X : \A x \in T : T \ {x} \notin X
<1>1. PICK N : N = {n \in Nat : \E T \in X : Cardinality(T) = n}
  OBVIOUS
<1>2. \A T \in X : IsFiniteSet(T) /\ Cardinality(T) \in Nat
  BY FS_Subset, FS_CardinalityType
<1>3. N # {} /\ N \subseteq Nat
  BY <1>1, <1>2
<1>4. PICK n \in N : \A m \in N : n <= m
  BY <1>3, LeastNumber
<1>5. PICK T \in X : Cardinality(T) = n
  BY <1>1, <1>4
<1>6. ASSUME NEW x \in T, T \ {x} \in X PROVE FALSE
  <2>1. Cardinality(T \ {x}) = Cardinality(T) - 1
    BY <1>2, FS_RemoveElement
  <2>2. Cardinality(T \ {x}) \in N
    BY <1>1, <1>2, <1>6
  <2> QED BY <1>3, <1>4, <1>5, <2>1, <2>2
<1> QED BY <1>6

Pick(T) == CHOOSE x \in T : TRUE

LEMMA PickIs == ASSUME NEW T, T # {} PROVE Pick(T) \in T
BY DEF Pick

(* A set of subsets that grows by what is picked has the whole set *)
Grows(G, S) == {} \in G /\ \A T \in SUBSET S : T # {} /\ T \ {Pick(T)} \in G => T \in G

LEMMA SetGrows ==
  ASSUME NEW S, IsFiniteSet(S), NEW G, Grows(G, S)
  PROVE  S \in G
<1>1. SUFFICES ASSUME S \notin G PROVE FALSE
  OBVIOUS
<1>2. PICK X : X = {T \in SUBSET S : T \notin G}
  OBVIOUS
<1>3. PICK T \in X : \A x \in T : T \ {x} \notin X
  BY <1>1, <1>2, LeastSubset
<1>4. T # {} /\ T \in SUBSET S
  BY <1>2 DEF Grows
<1>5. T \ {Pick(T)} \in G
  BY <1>2, <1>3, <1>4, PickIs
<1> QED BY <1>2, <1>4, <1>5 DEF Grows

Summable(S, f) == IsFiniteSet(S) /\ \A x \in S : f[x] \in Int

(* What the sum is defined by *)
Adds(g, S, f) == g = [T \in SUBSET S |-> IF T = {} THEN 0 ELSE f[Pick(T)] + g[T \ {Pick(T)}]]

LEMMA AddsExists ==
  ASSUME NEW S, NEW f, Summable(S, f)
  PROVE  \E g \in [SUBSET S -> Int] : Adds(g, S, f)
<1> USE DEF Summable
<1> DEFINE Good(g, n) ==
             \A T \in SUBSET S : Cardinality(T) <= n =>
               g[T] = IF T = {} THEN 0 ELSE f[Pick(T)] + g[T \ {Pick(T)}]
<1>1. \A T \in SUBSET S : IsFiniteSet(T) /\ Cardinality(T) \in Nat /\ (Cardinality(T) = 0 => T = {})
  BY FS_Subset, FS_CardinalityType, FS_EmptySet
<1>2. ASSUME NEW T \in SUBSET S, T # {}
      PROVE  /\ Pick(T) \in T /\ T \ {Pick(T)} \in SUBSET S /\ f[Pick(T)] \in Int
             /\ Cardinality(T \ {Pick(T)}) = Cardinality(T) - 1
  <2>1. Pick(T) \in T
    BY <1>2, PickIs
  <2>2. Cardinality(T \ {Pick(T)}) = Cardinality(T) - 1
    BY <1>1, <2>1, FS_RemoveElement
  <2> QED BY <2>1, <2>2
<1>3. PICK X : X = {n \in Nat : ~(\E g \in [SUBSET S -> Int] : Good(g, n))}
  OBVIOUS
<1>4. X = {}
  <2>1. SUFFICES ASSUME X # {} PROVE FALSE
    OBVIOUS
  <2>2. PICK n \in X : \A m \in X : n <= m
    BY <1>3, <2>1, LeastNumber
  <2>3. n \in Nat /\ ~(\E g \in [SUBSET S -> Int] : Good(g, n))
    BY <1>3, <2>2
  <2>4. n # 0
    <3>1. ASSUME n = 0 PROVE FALSE
      <4>1. PICK g : g = [T \in SUBSET S |-> 0]
        OBVIOUS
      <4>2. g \in [SUBSET S -> Int]
        BY <4>1
      <4>3. ASSUME NEW T \in SUBSET S, Cardinality(T) <= n PROVE T = {} /\ g[T] = 0
        BY <1>1, <3>1, <4>1, <4>3
      <4>4. Good(g, n)
        BY <4>3
      <4> QED BY <2>3, <4>2, <4>4
    <3> QED BY <3>1
  <2>5. n - 1 \in Nat /\ n - 1 \notin X
    BY <2>2, <2>3, <2>4
  <2>6. PICK g \in [SUBSET S -> Int] : Good(g, n - 1)
    BY <1>3, <2>5
  <2>7. PICK h : h = [T \in SUBSET S |-> IF Cardinality(T) <= n - 1 THEN g[T]
                                         ELSE IF T = {} THEN 0 ELSE f[Pick(T)] + g[T \ {Pick(T)}]]
    OBVIOUS
  <2>8. h \in [SUBSET S -> Int]
    <3>1. \A T \in SUBSET S : T # {} => f[Pick(T)] \in Int /\ g[T \ {Pick(T)}] \in Int
      BY <1>2
    <3> QED BY <2>7, <3>1
  <2>9. ASSUME NEW T \in SUBSET S, Cardinality(T) <= n
        PROVE  h[T] = IF T = {} THEN 0 ELSE f[Pick(T)] + h[T \ {Pick(T)}]
    <3>1. h[T] = IF T = {} THEN 0 ELSE f[Pick(T)] + g[T \ {Pick(T)}]
      BY <2>6, <2>7
    <3>2. CASE T = {}
      BY <3>1, <3>2
    <3>3. CASE T # {}
      <4>1. Cardinality(T \ {Pick(T)}) <= n - 1 /\ T \ {Pick(T)} \in SUBSET S
        BY <1>1, <1>2, <2>3, <2>9, <3>3
      <4>2. h[T \ {Pick(T)}] = g[T \ {Pick(T)}]
        BY <2>7, <4>1
      <4> QED BY <3>1, <3>3, <4>2
    <3> QED BY <3>2, <3>3
  <2>10. Good(h, n)
    BY <2>9
  <2> QED BY <2>3, <2>8, <2>10
<1>5. Cardinality(S) \in Nat /\ \A T \in SUBSET S : Cardinality(T) <= Cardinality(S)
  BY FS_Subset, FS_CardinalityType
<1>6. PICK g \in [SUBSET S -> Int] : Good(g, Cardinality(S))
  BY <1>3, <1>4, <1>5
<1>7. \A T \in SUBSET S : g[T] = IF T = {} THEN 0 ELSE f[Pick(T)] + g[T \ {Pick(T)}]
  BY <1>5, <1>6
<1>8. g = [T \in SUBSET S |-> g[T]]
  OBVIOUS
<1>9. Adds(g, S, f)
  BY <1>7, <1>8 DEF Adds
<1> QED BY <1>9

(* The sums of f over the subsets of S *)
Sums(g, S, f) ==
  /\ g \in [SUBSET S -> Int] /\ g[{}] = 0
  /\ \A T \in SUBSET S : T # {} => g[T] = f[Pick(T)] + g[T \ {Pick(T)}]

LEMMA SumIs ==
  ASSUME NEW S, IsFiniteSet(S), NEW f \in [S -> Int]
  PROVE  \E g : Sums(g, S, f) /\ SumFunction(f) = g[S]
<1>1. PICK k : k = CHOOSE i : Adds(i, S, f)
  OBVIOUS
<1>2. PICK h \in [SUBSET S -> Int] : Adds(h, S, f)
  <2>1. Summable(S, f)
    BY DEF Summable
  <2> QED BY <2>1, AddsExists
<1>3. Adds(k, S, f)
  BY <1>1, <1>2, Zenon
<1>4. SumFunction(f) = k[S]
  BY <1>1 DEF SumFunction, SumFunctionOnSet, FoldFunctionOnSet, MapThenFoldSet, Adds, Pick
<1>5. PICK G : G = {T \in SUBSET S : k[T] = h[T]}
  OBVIOUS
<1>6. \A T \in SUBSET S : k[T] = h[T]
  <2> SUFFICES ASSUME NEW R \in SUBSET S PROVE k[R] = h[R]
    OBVIOUS
  <2>1. IsFiniteSet(R)
    BY FS_Subset
  <2>2. Grows(G, R)
    <3>1. {} \in G
      BY <1>2, <1>3, <1>5 DEF Adds
    <3>2. ASSUME NEW T \in SUBSET R, T # {}, T \ {Pick(T)} \in G PROVE T \in G
      BY <1>2, <1>3, <1>5, <3>2 DEF Adds
    <3> QED BY <3>1, <3>2 DEF Grows
  <2> QED BY <1>5, <2>1, <2>2, SetGrows
<1>7. Sums(h, S, f)
  <2>1. h[{}] = 0
    BY <1>2 DEF Adds
  <2>2. ASSUME NEW T \in SUBSET S, T # {} PROVE h[T] = f[Pick(T)] + h[T \ {Pick(T)}]
    BY <1>2, <2>2 DEF Adds
  <2> QED BY <2>1, <2>2 DEF Sums
<1> QED BY <1>4, <1>6, <1>7

LEMMA SumsStep ==
  ASSUME NEW S, NEW f \in [S -> Int], NEW g, Sums(g, S, f), NEW T \in SUBSET S, T # {}
  PROVE  /\ Pick(T) \in S /\ T \ {Pick(T)} \in SUBSET S /\ f[Pick(T)] \in Int
         /\ g[T \ {Pick(T)}] \in Int /\ g[T] \in Int /\ g[T] = f[Pick(T)] + g[T \ {Pick(T)}]
<1>1. Pick(T) \in T
  BY PickIs
<1> QED BY <1>1 DEF Sums

LEMMA SumIsInt ==
  ASSUME NEW S, IsFiniteSet(S), NEW f \in [S -> Int]
  PROVE  SumFunction(f) \in Int
<1>1. PICK g : Sums(g, S, f) /\ SumFunction(f) = g[S]
  BY SumIs
<1>2. g \in [SUBSET S -> Int] /\ S \in SUBSET S
  BY <1>1 DEF Sums
<1> QED BY <1>1, <1>2

(* Each of f is a times that of u, b times that of w, and c *)
Linear(S, f, u, w, a, b, c) ==
  /\ f \in [S -> Int] /\ u \in [S -> Int] /\ w \in [S -> Int] /\ a \in Int /\ b \in Int /\ c \in Int
  /\ \A x \in S : f[x] = a * u[x] + b * w[x] + c

LEMMA Distributes == \A a, x, y \in Int : a * (x + y) = a * x + a * y /\ a * x \in Int
OBVIOUS

LEMMA SumsAreLinear ==
  ASSUME NEW S, IsFiniteSet(S), NEW f, NEW u, NEW w, NEW a, NEW b, NEW c, Linear(S, f, u, w, a, b, c)
  PROVE  SumFunction(f) = a * SumFunction(u) + b * SumFunction(w) + c * Cardinality(S)
<1>1. f \in [S -> Int] /\ u \in [S -> Int] /\ w \in [S -> Int] /\ a \in Int /\ b \in Int /\ c \in Int
  BY DEF Linear
<1>2. PICK F : Sums(F, S, f) /\ SumFunction(f) = F[S]
  BY <1>1, SumIs
<1>3. PICK U : Sums(U, S, u) /\ SumFunction(u) = U[S]
  BY <1>1, SumIs
<1>4. PICK W : Sums(W, S, w) /\ SumFunction(w) = W[S]
  BY <1>1, SumIs
<1>5. PICK G : G = {T \in SUBSET S : F[T] = a * U[T] + b * W[T] + c * Cardinality(T)}
  OBVIOUS
<1>6. {} \in G
  <2>1. F[{}] = 0 /\ U[{}] = 0 /\ W[{}] = 0
    BY <1>2, <1>3, <1>4 DEF Sums
  <2>2. a * 0 + b * 0 + c * 0 = 0
    BY <1>1
  <2> QED BY <1>5, <2>1, <2>2, FS_EmptySet
<1>7. ASSUME NEW T \in SUBSET S, T # {}, T \ {Pick(T)} \in G PROVE T \in G
  <2>1. PICK x, R : x = Pick(T) /\ R = T \ {Pick(T)}
    OBVIOUS
  <2>2. /\ x \in S /\ R \in SUBSET S
        /\ f[x] \in Int /\ F[R] \in Int /\ F[T] = f[x] + F[R]
    <3>1. /\ Pick(T) \in S /\ T \ {Pick(T)} \in SUBSET S /\ f[Pick(T)] \in Int
          /\ F[T \ {Pick(T)}] \in Int /\ F[T] \in Int
          /\ F[T] = f[Pick(T)] + F[T \ {Pick(T)}]
      BY <1>1, <1>2, <1>7, SumsStep
    <3> QED BY <2>1, <3>1
  <2>3. u[x] \in Int /\ U[R] \in Int /\ U[T] = u[x] + U[R]
    <3>1. /\ Pick(T) \in S /\ T \ {Pick(T)} \in SUBSET S /\ u[Pick(T)] \in Int
          /\ U[T \ {Pick(T)}] \in Int /\ U[T] \in Int
          /\ U[T] = u[Pick(T)] + U[T \ {Pick(T)}]
      BY <1>1, <1>3, <1>7, SumsStep
    <3> QED BY <2>1, <3>1
  <2>4. w[x] \in Int /\ W[R] \in Int /\ W[T] = w[x] + W[R]
    <3>1. /\ Pick(T) \in S /\ T \ {Pick(T)} \in SUBSET S /\ w[Pick(T)] \in Int
          /\ W[T \ {Pick(T)}] \in Int /\ W[T] \in Int
          /\ W[T] = w[Pick(T)] + W[T \ {Pick(T)}]
      BY <1>1, <1>4, <1>7, SumsStep
    <3> QED BY <2>1, <3>1
  <2>5. Cardinality(R) \in Int /\ Cardinality(T) = 1 + Cardinality(R)
    <3>1. x \in T /\ IsFiniteSet(T)
      BY <1>7, <2>1, PickIs, FS_Subset
    <3>2. Cardinality(R) = Cardinality(T) - 1 /\ Cardinality(T) \in Nat
      BY <2>1, <3>1, FS_RemoveElement, FS_CardinalityType
    <3> QED BY <3>2
  <2>6. f[x] = a * u[x] + b * w[x] + c
    BY <2>2 DEF Linear
  <2>7. F[R] = a * U[R] + b * W[R] + c * Cardinality(R)
    BY <1>5, <1>7, <2>1
  <2>8. /\ a * U[T] = a * u[x] + a * U[R] /\ b * W[T] = b * w[x] + b * W[R]
        /\ c * Cardinality(T) = c + c * Cardinality(R)
    <3>1. c * (1 + Cardinality(R)) = c * 1 + c * Cardinality(R) /\ c * 1 = c
      BY <1>1, <2>5, Distributes
    <3>2. a * U[T] = a * u[x] + a * U[R] /\ b * W[T] = b * w[x] + b * W[R]
      BY <1>1, <2>3, <2>4, Distributes
    <3> QED BY <2>5, <3>1, <3>2
  <2>9. /\ a * u[x] \in Int /\ a * U[R] \in Int /\ b * w[x] \in Int /\ b * W[R] \in Int
        /\ c * Cardinality(R) \in Int
    BY <1>1, <2>3, <2>4, <2>5, Distributes
  <2>10. F[T] = a * U[T] + b * W[T] + c * Cardinality(T)
    BY <1>1, <2>2, <2>6, <2>7, <2>8, <2>9
  <2> QED BY <1>5, <2>10
<1>8. S \in G
  BY <1>6, <1>7, SetGrows DEF Grows
<1> QED BY <1>2, <1>3, <1>4, <1>5, <1>8

LEMMA SumIsNat ==
  ASSUME NEW S, IsFiniteSet(S), NEW f \in [S -> Int], \A x \in S : f[x] >= 0
  PROVE  SumFunction(f) \in Nat
<1>1. PICK F : Sums(F, S, f) /\ SumFunction(f) = F[S]
  BY SumIs
<1>2. PICK G : G = {T \in SUBSET S : F[T] \in Nat}
  OBVIOUS
<1>3. {} \in G
  BY <1>1, <1>2 DEF Sums
<1>4. ASSUME NEW T \in SUBSET S, T # {}, T \ {Pick(T)} \in G PROVE T \in G
  <2>1. /\ Pick(T) \in S /\ f[Pick(T)] \in Int
        /\ F[T] = f[Pick(T)] + F[T \ {Pick(T)}]
    BY <1>1, <1>4, SumsStep
  <2> QED BY <1>2, <1>4, <2>1
<1>5. S \in G
  BY <1>3, <1>4, SetGrows DEF Grows
<1> QED BY <1>1, <1>2, <1>5

LEMMA SumOfOne ==
  ASSUME NEW S, IsFiniteSet(S), NEW f \in [S -> Int], NEW k \in S, \A x \in S : x # k => f[x] = 0
  PROVE  SumFunction(f) = f[k]
<1>1. PICK F : Sums(F, S, f) /\ SumFunction(f) = F[S]
  BY SumIs
<1>2. PICK G : G = {T \in SUBSET S : F[T] = IF k \in T THEN f[k] ELSE 0}
  OBVIOUS
<1>3. {} \in G
  BY <1>1, <1>2 DEF Sums
<1>4. ASSUME NEW T \in SUBSET S, T # {}, T \ {Pick(T)} \in G PROVE T \in G
  <2>1. PICK x, R : x = Pick(T) /\ R = T \ {Pick(T)}
    OBVIOUS
  <2>2. /\ x \in S /\ f[x] \in Int /\ F[R] \in Int
        /\ F[T] = f[x] + F[R]
    BY <1>1, <1>4, <2>1, SumsStep
  <2>3. x \in T
    BY <1>4, <2>1, PickIs
  <2>4. F[R] = IF k \in R THEN f[k] ELSE 0
    BY <1>2, <1>4, <2>1
  <2>5. CASE x = k
    BY <1>2, <2>1, <2>2, <2>3, <2>4, <2>5
  <2>6. CASE x # k
    BY <1>2, <2>1, <2>2, <2>3, <2>4, <2>6
  <2> QED BY <2>5, <2>6
<1>5. S \in G
  BY <1>3, <1>4, SetGrows DEF Grows
<1> QED BY <1>1, <1>2, <1>5

-----------------------------------------------------------------------------
(* Rounding *)
LEMMA Division ==
  ASSUME NEW x \in Int, NEW y \in Nat \ {0}
  PROVE  x \div y \in Int /\ y * (x \div y) <= x /\ x < y * (x \div y) + y
<1>1. PICK q : q = x \div y
  OBVIOUS
<1>2. q \in Int
  BY <1>1
<1>3. y * q <= x /\ x < (y * q) + y
  BY <1>1
<1> QED BY <1>1, <1>2, <1>3

LEMMA Quotient ==
  ASSUME NEW x \in Int, NEW y \in Nat \ {0}, NEW q \in Int, y * q <= x, x < y * q + y
  PROVE  x \div y = q
<1>1. PICK d \in Int : d = x \div y /\ y * d <= x /\ x < y * d + y
  BY Division
<1>2. y * (d - q) = y * d - y * q /\ y * (d - q) \in Int /\ y * d \in Int /\ y * q \in Int
  BY <1>1
<1>3. y * (d - q) < y /\ y * (d - q) > 0 - y
  BY <1>1, <1>2
<1>4. ~(d - q >= 1)
  <2>1. ASSUME d - q >= 1 PROVE y * (d - q) >= y * 1
    BY <2>1, <1>1
  <2> QED BY <1>2, <1>3, <2>1
<1>5. ~(q - d >= 1)
  <2>1. ASSUME q - d >= 1 PROVE y * (q - d) >= y * 1
    BY <2>1, <1>1
  <2>2. y * (q - d) = 0 - y * (d - q)
    BY <1>1
  <2> QED BY <1>1, <1>2, <1>3, <2>1, <2>2
<1> QED BY <1>1, <1>4, <1>5

LEMMA PartIs ==
  ASSUME NEW x \in Nat, NEW rate \in Percent
  PROVE  Part(x, rate) \in Nat /\ Part(x, rate) <= x
<1>1. rate \in Int /\ 0 <= rate /\ rate <= 100
  BY DEF Percent
<1>2. PICK p \in Int : p = x * rate /\ 0 <= p /\ p <= 100 * x
  BY <1>1
<1>3. p \div 100 \in Nat /\ p \div 100 <= x
  BY <1>2
<1> QED BY <1>2, <1>3 DEF Part

LEMMA PartOfNought ==
  ASSUME NEW x \in Int
  PROVE  Part(x, 0) = 0
BY DEF Part

LEMMA PartOfMore ==
  ASSUME NEW x \in Nat, NEW y \in Nat, NEW more \in Nat, NEW rate \in Percent, y <= x + more
  PROVE  Part(y, rate) <= Part(x, rate) + more + 1
<1>1. rate \in Int /\ 0 <= rate /\ rate <= 100
  BY DEF Percent
<1>2. PICK p, q, m \in Int : p = x * rate /\ q = y * rate /\ m = more * rate
  BY <1>1
<1>3. m <= 100 * more /\ q <= p + m
  <2>1. (x + more - y) * rate >= 0
    BY <1>1
  <2>2. (x + more - y) * rate = p + m - q
    BY <1>1, <1>2
  <2>3. (100 - rate) * more >= 0
    BY <1>1
  <2>4. (100 - rate) * more = 100 * more - m
    BY <1>1, <1>2
  <2> QED BY <1>2, <2>1, <2>2, <2>3, <2>4
<1>4. q \div 100 <= p \div 100 + more + 1
  BY <1>2, <1>3
<1> QED BY <1>2, <1>4 DEF Part

LEMMA UnitIs == Unit \in Nat \ {0}
BY AmountsAssumption

LEMMA CentsAre ==
  ASSUME NEW x \in Nat
  PROVE  /\ ToCents(x) \in Int
         /\ 2 * (Unit * ToCents(x)) <= 2 * x + Unit /\ 2 * x < 2 * (Unit * ToCents(x)) + Unit
<1>1. PICK u \in Nat \ {0} : u = Unit
  BY UnitIs
<1>2. ToCents(x) = (2 * x + u) \div (2 * u)
  BY <1>1 DEF ToCents
<1>3. PICK n \in Int : n = (2 * x + u) \div (2 * u) /\ (2 * u) * n <= 2 * x + u /\ 2 * x + u < (2 * u) * n + 2 * u
  <2>1. 2 * x + u \in Int /\ 2 * u \in Nat \ {0}
    OBVIOUS
  <2> QED BY <2>1, Division
<1>4. (2 * u) * n = 2 * (u * n) /\ u * n \in Int
  OBVIOUS
<1> QED BY <1>1, <1>2, <1>3, <1>4

LEMMA CentsAreNat ==
  ASSUME NEW x \in Nat
  PROVE  ToCents(x) \in Nat
<1>1. ToCents(x) \in Int /\ 2 * x < 2 * (Unit * ToCents(x)) + Unit
  BY CentsAre
<1>2. ~(ToCents(x) <= 0 - 1)
  <2>1. ASSUME NEW c \in Int, c <= 0 - 1 PROVE Unit * c <= Unit * (0 - 1) /\ Unit * c \in Int
    BY <2>1, UnitIs
  <2> QED BY <1>1, <2>1, UnitIs
<1> QED BY <1>1, <1>2

(* Whole cents are not rounded *)
LEMMA WholeCents ==
  ASSUME NEW n \in Int, NEW x \in Nat, Unit * n + x >= 0
  PROVE  ToCents(Unit * n + x) = n + ToCents(x)
<1>1. PICK u \in Nat \ {0} : u = Unit
  BY UnitIs
<1>2. PICK c \in Int : c = ToCents(x) /\ 2 * (u * c) <= 2 * x + u /\ 2 * x < 2 * (u * c) + u
  BY <1>1, CentsAre
<1>3. PICK y \in Nat : y = Unit * n + x
  BY UnitIs
<1>4. ToCents(y) = (2 * y + u) \div (2 * u)
  BY <1>1 DEF ToCents
<1>5. (2 * u) * (n + c) = 2 * (u * n) + 2 * (u * c) /\ u * n \in Int /\ u * c \in Int
  BY <1>2
<1>6. (2 * y + u) \div (2 * u) = n + c
  <2>1. 2 * y + u \in Int /\ 2 * u \in Nat \ {0} /\ n + c \in Int
    BY <1>2
  <2>2. (2 * u) * (n + c) <= 2 * y + u /\ 2 * y + u < (2 * u) * (n + c) + 2 * u
    BY <1>1, <1>2, <1>3, <1>5
  <2> QED BY <2>1, <2>2, Quotient
<1> QED BY <1>2, <1>3, <1>4, <1>6

LEMMA NoCents == ToCents(0) = 0
<1>1. PICK c \in Int : c = ToCents(0) /\ 2 * (Unit * c) <= Unit /\ 0 < 2 * (Unit * c) + Unit
  <2>1. PICK z \in Nat : z = 0
    OBVIOUS
  <2>2. ToCents(z) \in Int /\ 2 * (Unit * ToCents(z)) <= 2 * z + Unit /\ 2 * z < 2 * (Unit * ToCents(z)) + Unit
    BY CentsAre
  <2> QED BY <2>1, <2>2, UnitIs
<1>2. ~(c >= 1)
  <2>1. ASSUME c >= 1 PROVE Unit * c >= Unit * 1
    BY <2>1, UnitIs
  <2> QED BY <1>1, <2>1, UnitIs
<1>3. c \in Nat
  BY <1>1, CentsAreNat
<1> QED BY <1>1, <1>2, <1>3

(* What an amount may be rounded to is within half a cent of it *)
LEMMA RoundedIs ==
  ASSUME NEW x \in Nat
  PROVE  /\ ToCents(x) \in Cents(x)
         /\ \A c \in Cents(x) : c \in Nat /\ 2 * (Unit * c) <= 2 * x + Unit
                                         /\ 2 * x <= 2 * (Unit * c) + Unit
<1>1. PICK u \in Nat \ {0}, t \in Nat : u = Unit /\ t = ToCents(x)
  BY UnitIs, CentsAreNat
<1>2. 2 * (u * t) <= 2 * x + u /\ 2 * x < 2 * (u * t) + u
  BY <1>1, CentsAre
<1>3. \A c \in Int : u * c \in Int /\ 2 * (x - u * c) = 2 * x - 2 * (u * c)
  OBVIOUS
<1>4. t \in Cents(x)
  <2>1. 2 * (x - u * t) \in (0 - u)..u
    BY <1>2, <1>3
  <2> QED BY <1>1, <2>1 DEF Cents
<1>5. ASSUME NEW c \in Cents(x)
      PROVE  c \in Nat /\ 2 * (u * c) <= 2 * x + u /\ 2 * x <= 2 * (u * c) + u
  <2>1. c \in Int /\ 2 * (x - u * c) \in (0 - u)..u
    BY <1>1 DEF Cents
  <2>2. 2 * (u * c) <= 2 * x + u /\ 2 * x <= 2 * (u * c) + u
    BY <1>3, <2>1
  <2>3. ~(c <= 0 - 1)
    <3>1. ASSUME c <= 0 - 1 PROVE u * c <= u * (0 - 1)
      BY <2>1, <3>1
    <3> QED BY <1>3, <2>1, <2>2, <3>1
  <2> QED BY <2>1, <2>2, <2>3
<1> QED BY <1>1, <1>4, <1>5

(* If there is but one way to round it, it is ToCents' *)
LEMMA SoleIs ==
  ASSUME NEW x \in Nat, Sole(Cents(x))
  PROVE  \A c \in Cents(x) : c = ToCents(x)
BY RoundedIs DEF Sole

-----------------------------------------------------------------------------
(* A line.  Its tax and its worth in cents, as ValidateInvoiceTotals has   *)
(* them when none of its amounts is half a cent.                           *)
LineTaxInCents(line) ==
  LET price == ToCents(Subtotal(line))
      less  == ToCents(Part(Unit * price, line.discountRate))
  IN  ToCents(Part(Unit * (price - less), line.taxRate))
LineInCents(line) == ToCents(Subtotal(line)) + LineTaxInCents(line)

IsLine(line) == /\ line.quantity \in Nat /\ line.price \in Nat
                /\ line.taxRate \in Percent /\ line.discountRate \in Percent

Net(line) == line.quantity * line.price

LEMMA LineIs ==
  ASSUME NEW line, IsLine(line)
  PROVE  /\ Net(line) \in Nat
         /\ Subtotal(line) = Unit * Net(line) /\ Subtotal(line) \in Nat
         /\ Discount(line) \in Nat /\ Discount(line) <= Subtotal(line)
         /\ Tax(line) \in Nat /\ Tax(line) <= Subtotal(line)
         /\ LineTotal(line) \in Nat /\ LineTotal(line) = Subtotal(line) - Discount(line) + Tax(line)
<1>1. PICK u \in Nat \ {0} : u = Unit
  BY UnitIs
<1>2. PICK q, p \in Nat : q = line.quantity /\ p = line.price
  BY DEF IsLine
<1>3. u * q * p = u * (q * p) /\ q * p \in Nat /\ u * (q * p) \in Nat
  BY <1>2
<1>4. Net(line) \in Nat /\ Subtotal(line) = Unit * Net(line) /\ Subtotal(line) \in Nat
  BY <1>1, <1>2, <1>3 DEF Net, Subtotal
<1>5. Discount(line) \in Nat /\ Discount(line) <= Subtotal(line)
  BY <1>4, PartIs DEF Discount, IsLine
<1>6. Tax(line) \in Nat /\ Tax(line) <= Subtotal(line) - Discount(line)
  <2>1. Subtotal(line) - Discount(line) \in Nat
    BY <1>4, <1>5
  <2> QED BY <2>1, PartIs DEF Tax, IsLine
<1> QED BY <1>4, <1>5, <1>6 DEF LineTotal

LEMMA NetInCents ==
  ASSUME NEW n \in Nat
  PROVE  ToCents(Unit * n) = n
<1>1. PICK z \in Nat : z = 0
  OBVIOUS
<1>2. Unit * n + z >= 0 /\ Unit * n + z = Unit * n
  BY <1>1, UnitIs
<1>3. ToCents(Unit * n + z) = n + ToCents(z)
  BY <1>2, WholeCents
<1>4. ToCents(z) = 0
  BY <1>1, NoCents
<1> QED BY <1>2, <1>3, <1>4

(* The discount in cents, and what it leaves *)
LEMMA LessIs ==
  ASSUME NEW line, IsLine(line)
  PROVE  /\ ToCents(Subtotal(line)) = Net(line)
         /\ ToCents(Part(Unit * Net(line), line.discountRate)) = ToCents(Discount(line))
         /\ ToCents(Discount(line)) \in Nat
         /\ Unit * (Net(line) - ToCents(Discount(line))) \in Nat
         /\ Unit * (Net(line) - ToCents(Discount(line))) <= Subtotal(line) - Discount(line) + Unit
<1>1. /\ Net(line) \in Nat /\ Subtotal(line) = Unit * Net(line) /\ Subtotal(line) \in Nat
      /\ Discount(line) \in Nat /\ Discount(line) <= Subtotal(line)
  BY LineIs
<1>2. ToCents(Subtotal(line)) = Net(line)
  BY <1>1, NetInCents
<1>3. Part(Unit * Net(line), line.discountRate) = Discount(line)
  BY <1>1 DEF Discount
<1>4. PICK u \in Nat \ {0}, n, d, c \in Nat :
        u = Unit /\ n = Net(line) /\ d = Discount(line) /\ c = ToCents(Discount(line))
  BY <1>1, UnitIs, CentsAreNat
<1>5. 2 * (u * c) <= 2 * d + u /\ 2 * d < 2 * (u * c) + u
  BY <1>4, CentsAre
<1>6. d <= u * n
  BY <1>1, <1>4
<1>7. u * c \in Nat /\ u * n \in Nat /\ u * (n - c) = u * n - u * c /\ u * (n - c) \in Int
  OBVIOUS
<1>8. n - c >= 0
  <2>1. ASSUME n - c <= 0 - 1 PROVE FALSE
    <3>1. u * (n - c) <= u * (0 - 1)
      BY <2>1
    <3>2. u * (0 - 1) = 0 - u
      OBVIOUS
    <3> QED BY <1>5, <1>6, <1>7, <3>1, <3>2
  <2> QED BY <2>1
<1>9. u * (n - c) >= 0
  BY <1>8
<1>10. u * (n - c) <= u * n - d + u
  BY <1>5, <1>7
<1> QED BY <1>1, <1>2, <1>3, <1>4, <1>7, <1>9, <1>10

LEMMA LineTaxIs ==
  ASSUME NEW line, IsLine(line)
  PROVE  /\ LineTaxInCents(line) \in Nat /\ LineInCents(line) = Net(line) + LineTaxInCents(line)
         /\ 2 * (Unit * LineTaxInCents(line)) <= 2 * Tax(line) + 5 * Unit
<1>1. PICK y : y = Unit * (Net(line) - ToCents(Discount(line)))
  OBVIOUS
<1>2. y \in Nat /\ y <= Subtotal(line) - Discount(line) + Unit
  BY <1>1, LessIs
<1>3. LineTaxInCents(line) = ToCents(Part(y, line.taxRate))
  BY <1>1, LessIs DEF LineTaxInCents
<1>4. Part(y, line.taxRate) \in Nat
  BY <1>2, PartIs DEF IsLine
<1>5. LineTaxInCents(line) \in Nat
  BY <1>3, <1>4, CentsAreNat
<1>6. Part(y, line.taxRate) <= Tax(line) + Unit + 1
  <2>1. Subtotal(line) - Discount(line) \in Nat /\ Unit \in Nat /\ line.taxRate \in Percent
    BY LineIs, UnitIs DEF IsLine
  <2> QED BY <1>2, <2>1, PartOfMore DEF Tax
<1>7. 2 * (Unit * LineTaxInCents(line)) <= 2 * Part(y, line.taxRate) + Unit
  BY <1>3, <1>4, CentsAre
<1>8. Tax(line) \in Nat /\ Unit * LineTaxInCents(line) \in Int
  BY <1>5, LineIs, UnitIs
<1>9. 2 * (Unit * LineTaxInCents(line)) <= 2 * Tax(line) + 5 * Unit
  BY <1>4, <1>6, <1>7, <1>8, UnitIs
<1>10. LineInCents(line) = Net(line) + LineTaxInCents(line)
  BY LessIs DEF LineInCents
<1> QED BY <1>5, <1>9, <1>10

(* A discount of whole cents is not rounded, and so neither is the tax *)
LEMMA LineTaxExact ==
  ASSUME NEW line, IsLine(line), Discount(line) % Unit = 0
  PROVE  LineTaxInCents(line) = ToCents(Tax(line))
<1>1. Discount(line) \in Nat /\ Net(line) \in Nat /\ Subtotal(line) = Unit * Net(line)
  BY LineIs
<1>2. PICK u \in Nat \ {0} : u = Unit
  BY UnitIs
<1>3. PICK d \in Nat : d = Discount(line) /\ d % u = 0
  BY <1>1, <1>2
<1>4. PICK m \in Int : m = d \div u /\ d = u * m
  <2>1. PICK m \in Int : m = d \div u
    OBVIOUS
  <2>2. d = (u * m) + (d % u)
    BY <2>1
  <2> QED BY <1>3, <2>1, <2>2
<1>5. m \in Nat
  <2>1. ASSUME m <= 0 - 1 PROVE FALSE
    <3>1. u * m <= u * (0 - 1)
      BY <2>1
    <3> QED BY <1>4, <3>1
  <2> QED BY <2>1
<1>6. ToCents(Discount(line)) = m
  BY <1>2, <1>3, <1>4, <1>5, NetInCents
<1>7. Unit * (Net(line) - m) = Subtotal(line) - Discount(line)
  <2>1. PICK n \in Nat : n = Net(line)
    BY <1>1
  <2>2. u * (n - m) = u * n - u * m
    OBVIOUS
  <2> QED BY <1>1, <1>2, <1>3, <1>4, <2>1, <2>2
<1>8. LineTaxInCents(line) = ToCents(Part(Unit * (Net(line) - m), line.taxRate))
  BY <1>6, LessIs DEF LineTaxInCents
<1> QED BY <1>7, <1>8 DEF Tax

LEMMA Untaxed ==
  ASSUME NEW line, IsLine(line), line.taxRate = 0
  PROVE  Tax(line) = 0 /\ LineTaxInCents(line) = 0
<1>1. Tax(line) = 0
  <2>1. Subtotal(line) - Discount(line) \in Int
    BY LineIs
  <2> QED BY <2>1, PartOfNought DEF Tax
<1>2. PICK y \in Nat : y = Unit * (Net(line) - ToCents(Discount(line)))
  BY LessIs
<1>3. LineTaxInCents(line) = ToCents(Part(y, 0))
  BY <1>2, LessIs DEF LineTaxInCents
<1> QED BY <1>1, <1>2, <1>3, PartOfNought, NoCents

LEMMA Undiscounted ==
  ASSUME NEW line, IsLine(line), line.discountRate = 0
  PROVE  LineInCents(line) = ToCents(LineTotal(line))
<1>1. /\ Net(line) \in Nat /\ Subtotal(line) = Unit * Net(line) /\ Subtotal(line) \in Nat
      /\ Tax(line) \in Nat /\ LineTotal(line) = Subtotal(line) - Discount(line) + Tax(line)
  BY LineIs
<1>2. Discount(line) = 0
  BY <1>1, PartOfNought DEF Discount
<1>3. LineTaxInCents(line) = ToCents(Tax(line))
  <2>1. \A u \in Nat \ {0} : 0 % u = 0
    OBVIOUS
  <2> QED BY <1>2, <2>1, UnitIs, LineTaxExact
<1>4. LineTotal(line) = Unit * Net(line) + Tax(line)
  BY <1>1, <1>2
<1>5. Unit * Net(line) + Tax(line) >= 0
  BY <1>1
<1>6. ToCents(LineTotal(line)) = Net(line) + ToCents(Tax(line))
  BY <1>1, <1>4, <1>5, WholeCents
<1> QED BY <1>3, <1>6, LineTaxIs

-----------------------------------------------------------------------------
(* The lines of an invoice *)
AreLines(lines) == /\ Len(lines) \in Nat \ {0} /\ DOMAIN lines = 1..Len(lines)
                   /\ \A k \in DOMAIN lines : IsLine(lines[k])

Nets(lines)      == [k \in DOMAIN lines |-> Net(lines[k])]
Subtotals(lines) == [k \in DOMAIN lines |-> Subtotal(lines[k])]
Taxes(lines)     == [k \in DOMAIN lines |-> Tax(lines[k])]
LineTaxes(lines) == [k \in DOMAIN lines |-> LineTaxInCents(lines[k])]
InCents(lines)   == [k \in DOMAIN lines |-> LineInCents(lines[k])]

LEMMA SumsAre ==
  ASSUME NEW lines
  PROVE  /\ Sum(Subtotal, lines) = SumFunction(Subtotals(lines))
         /\ Sum(Tax, lines) = SumFunction(Taxes(lines))
         /\ Sum(LineInCents, lines) = SumFunction(InCents(lines))
BY DEF Sum, Subtotals, Taxes, InCents

LEMMA LinesAre ==
  ASSUME NEW lines, AreLines(lines)
  PROVE  /\ IsFiniteSet(DOMAIN lines) /\ Cardinality(DOMAIN lines) = Len(lines)
         /\ Nets(lines) \in [DOMAIN lines -> Int] /\ Subtotals(lines) \in [DOMAIN lines -> Int]
         /\ Taxes(lines) \in [DOMAIN lines -> Int] /\ LineTaxes(lines) \in [DOMAIN lines -> Int]
         /\ InCents(lines) \in [DOMAIN lines -> Int]
<1>1. PICK a, b \in Int : a = 1 /\ b = Len(lines) /\ b >= 1
  <2>1. Len(lines) \in Int /\ Len(lines) >= 1
    BY DEF AreLines
  <2> QED BY <2>1
<1>2. IsFiniteSet(a..b) /\ Cardinality(a..b) = b
  <2>1. IsFiniteSet(a..b) /\ Cardinality(a..b) = IF a > b THEN 0 ELSE b - a + 1
    BY FS_Interval
  <2> QED BY <1>1, <2>1
<1>3. IsFiniteSet(DOMAIN lines) /\ Cardinality(DOMAIN lines) = Len(lines)
  BY <1>1, <1>2 DEF AreLines
<1>4. \A k \in DOMAIN lines : IsLine(lines[k])
  BY DEF AreLines
<1>5. \A k \in DOMAIN lines :
        /\ Net(lines[k]) \in Int /\ Subtotal(lines[k]) \in Int /\ Tax(lines[k]) \in Int
        /\ LineTaxInCents(lines[k]) \in Int /\ LineInCents(lines[k]) \in Int
  <2> SUFFICES ASSUME NEW k \in DOMAIN lines
               PROVE  /\ Net(lines[k]) \in Int /\ Subtotal(lines[k]) \in Int /\ Tax(lines[k]) \in Int
                      /\ LineTaxInCents(lines[k]) \in Int /\ LineInCents(lines[k]) \in Int
    OBVIOUS
  <2>1. IsLine(lines[k])
    BY <1>4
  <2>2. Net(lines[k]) \in Nat /\ Subtotal(lines[k]) \in Nat /\ Tax(lines[k]) \in Nat
    BY <2>1, LineIs
  <2>3. LineTaxInCents(lines[k]) \in Nat /\ LineInCents(lines[k]) = Net(lines[k]) + LineTaxInCents(lines[k])
    BY <2>1, LineTaxIs
  <2> QED BY <2>2, <2>3
<1> QED BY <1>3, <1>5 DEF Nets, Subtotals, Taxes, LineTaxes, InCents

NetOf(lines) == SumFunction(Nets(lines))
TaxOf(lines) == SumFunction(Taxes(lines))
LineTaxOf(lines) == SumFunction(LineTaxes(lines))

LEMMA NetOfIs ==
  ASSUME NEW lines, AreLines(lines)
  PROVE  NetOf(lines) \in Nat /\ Sum(Subtotal, lines) = Unit * NetOf(lines)
<1>1. PICK n : n = Nets(lines)
  OBVIOUS
<1>2. IsFiniteSet(DOMAIN lines) /\ n \in [DOMAIN lines -> Int] /\ Subtotals(lines) \in [DOMAIN lines -> Int]
  BY <1>1, LinesAre
<1>3. \A k \in DOMAIN lines : n[k] >= 0 /\ n[k] \in Nat /\ Subtotals(lines)[k] = Unit * n[k] + 0 * n[k] + 0
  <2> SUFFICES ASSUME NEW k \in DOMAIN lines
               PROVE  n[k] >= 0 /\ n[k] \in Nat /\ Subtotals(lines)[k] = Unit * n[k] + 0 * n[k] + 0
    OBVIOUS
  <2>1. IsLine(lines[k])
    BY DEF AreLines
  <2>2. Net(lines[k]) \in Nat /\ Subtotal(lines[k]) = Unit * Net(lines[k])
    BY <2>1, LineIs
  <2>3. n[k] = Net(lines[k]) /\ Subtotals(lines)[k] = Subtotal(lines[k])
    BY <1>1 DEF Nets, Subtotals
  <2>4. Unit * n[k] \in Int
    BY <2>2, <2>3, UnitIs
  <2> QED BY <2>2, <2>3, <2>4
<1>4. SumFunction(n) \in Nat
  BY <1>2, <1>3, SumIsNat
<1>5. PICK u, z \in Int : u = Unit /\ z = 0
  BY UnitIs
<1>6. Linear(DOMAIN lines, Subtotals(lines), n, n, u, z, z)
  BY <1>2, <1>3, <1>5 DEF Linear
<1>7. SumFunction(Subtotals(lines)) = u * SumFunction(n) + z * SumFunction(n) + z * Cardinality(DOMAIN lines)
  BY <1>2, <1>6, SumsAreLinear
<1>8. Cardinality(DOMAIN lines) \in Nat
  BY <1>2, FS_CardinalityType
<1>9. z * SumFunction(n) = 0 /\ z * Cardinality(DOMAIN lines) = 0 /\ u * SumFunction(n) \in Int
  BY <1>4, <1>5, <1>8
<1> QED BY <1>1, <1>4, <1>5, <1>7, <1>9, SumsAre DEF NetOf

LEMMA TaxOfIs ==
  ASSUME NEW lines, AreLines(lines)
  PROVE  TaxOf(lines) \in Nat /\ TaxOf(lines) <= Unit * NetOf(lines) /\ Sum(Tax, lines) = TaxOf(lines)
<1>1. PICK s, t : s = Subtotals(lines) /\ t = Taxes(lines)
  OBVIOUS
<1>2. IsFiniteSet(DOMAIN lines) /\ s \in [DOMAIN lines -> Int] /\ t \in [DOMAIN lines -> Int]
  BY <1>1, LinesAre
<1>3. PICK f : f = [k \in DOMAIN lines |-> s[k] - t[k]]
  OBVIOUS
<1>4. \A k \in DOMAIN lines : t[k] >= 0 /\ s[k] - t[k] >= 0 /\ s[k] \in Int /\ t[k] \in Int
  <2> SUFFICES ASSUME NEW k \in DOMAIN lines
               PROVE  t[k] >= 0 /\ s[k] - t[k] >= 0 /\ s[k] \in Int /\ t[k] \in Int
    OBVIOUS
  <2>1. IsLine(lines[k])
    BY DEF AreLines
  <2>2. Subtotal(lines[k]) \in Nat /\ Tax(lines[k]) \in Nat /\ Tax(lines[k]) <= Subtotal(lines[k])
    BY <2>1, LineIs
  <2>3. s[k] = Subtotal(lines[k]) /\ t[k] = Tax(lines[k])
    BY <1>1 DEF Taxes, Subtotals
  <2> QED BY <2>2, <2>3
<1>5. f \in [DOMAIN lines -> Int] /\ \A k \in DOMAIN lines : f[k] >= 0
  BY <1>3, <1>4
<1>6. SumFunction(t) \in Nat
  BY <1>2, <1>4, SumIsNat
<1>7. SumFunction(f) \in Nat
  BY <1>2, <1>5, SumIsNat
<1>8. PICK a, b, z \in Int : a = 1 /\ b = 0 - 1 /\ z = 0
  OBVIOUS
<1>9. Linear(DOMAIN lines, f, s, t, a, b, z)
  <2>1. \A k \in DOMAIN lines : f[k] = a * s[k] + b * t[k] + z
    BY <1>3, <1>4, <1>8
  <2> QED BY <1>2, <1>5, <1>8, <2>1 DEF Linear
<1>10. SumFunction(f) = a * SumFunction(s) + b * SumFunction(t) + z * Cardinality(DOMAIN lines)
  BY <1>2, <1>9, SumsAreLinear
<1>11. Cardinality(DOMAIN lines) \in Nat /\ SumFunction(s) \in Int
  BY <1>2, FS_CardinalityType, SumIsInt
<1>12. SumFunction(f) = SumFunction(s) - SumFunction(t)
  BY <1>6, <1>8, <1>10, <1>11
<1>13. SumFunction(s) = Unit * NetOf(lines)
  BY <1>1, NetOfIs, SumsAre
<1>14. SumFunction(t) <= SumFunction(s)
  BY <1>6, <1>7, <1>11, <1>12
<1> QED BY <1>1, <1>6, <1>13, <1>14, SumsAre DEF TaxOf

LEMMA LineTaxOfIs ==
  ASSUME NEW lines, AreLines(lines)
  PROVE  /\ LineTaxOf(lines) \in Nat /\ Sum(LineInCents, lines) = NetOf(lines) + LineTaxOf(lines)
         /\ 2 * (Unit * LineTaxOf(lines)) <= 2 * TaxOf(lines) + 5 * (Unit * Len(lines))
<1>1. PICK n, t, l, c : n = Nets(lines) /\ t = Taxes(lines) /\ l = LineTaxes(lines) /\ c = InCents(lines)
  OBVIOUS
<1>2. /\ IsFiniteSet(DOMAIN lines) /\ n \in [DOMAIN lines -> Int] /\ t \in [DOMAIN lines -> Int]
      /\ l \in [DOMAIN lines -> Int] /\ c \in [DOMAIN lines -> Int]
      /\ Cardinality(DOMAIN lines) = Len(lines)
  BY <1>1, LinesAre
<1>3. PICK a, z, v, w, u \in Int : a = 1 /\ z = 0 /\ v = 2 /\ w = 0 - 2 * Unit /\ u = 5 * Unit
  BY UnitIs
<1>4. PICK f : f = [k \in DOMAIN lines |-> v * t[k] + w * l[k] + u]
  OBVIOUS
<1>5. ASSUME NEW k \in DOMAIN lines
      PROVE  /\ n[k] \in Int /\ t[k] \in Int /\ l[k] \in Nat /\ c[k] = n[k] + l[k]
             /\ v * t[k] + w * l[k] + u \in Int /\ v * t[k] + w * l[k] + u >= 0
  <2>1. IsLine(lines[k])
    BY DEF AreLines
  <2>2. /\ LineTaxInCents(lines[k]) \in Nat /\ LineInCents(lines[k]) = Net(lines[k]) + LineTaxInCents(lines[k])
        /\ 2 * (Unit * LineTaxInCents(lines[k])) <= 2 * Tax(lines[k]) + 5 * Unit
        /\ Net(lines[k]) \in Nat /\ Tax(lines[k]) \in Nat
    BY <2>1, LineIs, LineTaxIs
  <2>3. n[k] = Net(lines[k]) /\ t[k] = Tax(lines[k]) /\ l[k] = LineTaxInCents(lines[k]) /\ c[k] = LineInCents(lines[k])
    BY <1>1 DEF Nets, Taxes, LineTaxes, InCents
  <2>4. PICK x, y, d \in Int : x = t[k] /\ y = l[k] /\ d = Unit
    BY <2>2, <2>3, UnitIs
  <2>5. w * y = 0 - 2 * (d * y) /\ d * y \in Int
    <3>1. (0 - 2 * d) * y = 0 - 2 * (d * y) /\ d * y \in Int
      OBVIOUS
    <3> QED BY <1>3, <2>4, <3>1
  <2>6. v * x + w * y + u >= 0 /\ v * x + w * y + u \in Int
    BY <1>3, <2>2, <2>3, <2>4, <2>5
  <2> QED BY <2>2, <2>3, <2>4, <2>6
<1>6. SumFunction(l) \in Nat
  <2>1. \A k \in DOMAIN lines : l[k] >= 0
    BY <1>5
  <2> QED BY <1>2, <2>1, SumIsNat
<1>7. f \in [DOMAIN lines -> Int] /\ \A k \in DOMAIN lines : f[k] >= 0
  BY <1>4, <1>5
<1>8. SumFunction(f) \in Nat
  BY <1>2, <1>7, SumIsNat
<1>9. SumFunction(f) = v * SumFunction(t) + w * SumFunction(l) + u * Cardinality(DOMAIN lines)
  <2>1. Linear(DOMAIN lines, f, t, l, v, w, u)
    BY <1>2, <1>3, <1>4, <1>7 DEF Linear
  <2> QED BY <1>2, <2>1, SumsAreLinear
<1>10. SumFunction(c) = a * SumFunction(n) + a * SumFunction(l) + z * Cardinality(DOMAIN lines)
  <2>1. \A k \in DOMAIN lines : c[k] = a * n[k] + a * l[k] + z
    BY <1>3, <1>5
  <2>2. Linear(DOMAIN lines, c, n, l, a, a, z)
    BY <1>2, <1>3, <2>1 DEF Linear
  <2> QED BY <1>2, <2>2, SumsAreLinear
<1>11. SumFunction(n) \in Nat /\ SumFunction(t) \in Nat /\ Len(lines) \in Nat
  BY <1>1, NetOfIs, TaxOfIs DEF NetOf, TaxOf, AreLines
<1>12. SumFunction(c) = SumFunction(n) + SumFunction(l)
  BY <1>2, <1>3, <1>6, <1>10, <1>11
<1>13. 2 * (Unit * SumFunction(l)) <= 2 * SumFunction(t) + 5 * (Unit * Len(lines))
  <2>1. PICK x, y, d, m \in Int : x = SumFunction(t) /\ y = SumFunction(l) /\ d = Unit /\ m = Len(lines)
    BY <1>6, <1>11, UnitIs
  <2>2. w * y = 0 - 2 * (d * y) /\ d * y \in Int /\ u * m = 5 * (d * m) /\ d * m \in Int
    <3>1. (0 - 2 * d) * y = 0 - 2 * (d * y) /\ d * y \in Int /\ (5 * d) * m = 5 * (d * m) /\ d * m \in Int
      OBVIOUS
    <3> QED BY <1>3, <2>1, <3>1
  <2>3. v * x + w * y + u * m >= 0
    <3>1. SumFunction(f) >= 0
      BY <1>8
    <3> QED BY <1>2, <1>9, <2>1, <3>1
  <2>4. 2 * x + w * y + u * m >= 0
    BY <1>3, <2>3
  <2>5. 2 * (d * y) <= 2 * x + 5 * (d * m)
    <3>1. PICK p, r, i, j \in Int : p = d * y /\ r = d * m /\ i = w * y /\ j = u * m
      BY <2>2
    <3>2. i = 0 - 2 * p /\ j = 5 * r /\ 2 * x + i + j >= 0
      BY <2>2, <2>4, <3>1
    <3>3. 2 * p <= 2 * x + 5 * r
      BY <3>2
    <3> QED BY <3>1, <3>3
  <2> QED BY <2>1, <2>5
<1> QED BY <1>1, <1>6, <1>12, <1>13, SumsAre DEF NetOf, TaxOf, LineTaxOf

-----------------------------------------------------------------------------
(* Lines that are stored *)
KeptLine == [quantity: Nat \ {0}, price: Nat, taxRate: Percent, discountRate: Percent,
             tax: Nat, total: Nat]

LEMMA AskedAre ==
  ASSUME NEW lines, lines \in Seq(AskedLine) \cup Seq(KeptLine), lines # <<>>
  PROVE  AreLines(lines)
<1>1. CASE lines \in Seq(AskedLine)
  <2>1. Len(lines) \in Nat \ {0} /\ DOMAIN lines = 1..Len(lines)
    BY <1>1, EmptySeq, LenProperties
  <2>2. \A k \in DOMAIN lines : lines[k] \in AskedLine
    BY <1>1, <2>1, ElementOfSeq
  <2>3. \A k \in DOMAIN lines : IsLine(lines[k])
    BY <2>2 DEF IsLine, AskedLine
  <2> QED BY <2>1, <2>3 DEF AreLines
<1>2. CASE lines \in Seq(KeptLine)
  <2>1. Len(lines) \in Nat \ {0} /\ DOMAIN lines = 1..Len(lines)
    BY <1>2, EmptySeq, LenProperties
  <2>2. \A k \in DOMAIN lines : lines[k] \in KeptLine
    BY <1>2, <2>1, ElementOfSeq
  <2>3. \A k \in DOMAIN lines : IsLine(lines[k])
    BY <2>2 DEF IsLine, KeptLine
  <2> QED BY <2>1, <2>3 DEF AreLines
<1> QED BY <1>1, <1>2

LEMMA StoredLineIs ==
  ASSUME NEW line, IsLine(line)
  PROVE  StoredLine(line) \in KeptLine /\ IsLine(StoredLine(line))
<1>1. ToCents(Tax(line)) \in Nat /\ ToCents(LineTotal(line)) \in Nat
  BY LineIs, CentsAreNat
<1>2. PICK t, n \in Nat : t = ToCents(Tax(line)) /\ n = ToCents(LineTotal(line))
  BY <1>1
<1>3. StoredLine(line) \in KeptLine
  BY <1>2 DEF StoredLine, KeptLine, IsLine
<1>4. \A l \in KeptLine : IsLine(l)
  BY DEF IsLine, KeptLine
<1> QED BY <1>3, <1>4

LEMMA StoredAre ==
  ASSUME NEW lines, AreLines(lines)
  PROVE  /\ Stored(lines) \in Seq(KeptLine) /\ Stored(lines) # <<>>
         /\ DOMAIN Stored(lines) = DOMAIN lines /\ AreLines(Stored(lines))
         /\ \A k \in DOMAIN lines : Stored(lines)[k] = StoredLine(lines[k])
<1>1. PICK n \in Nat \ {0} : n = Len(lines) /\ DOMAIN lines = 1..n
  BY DEF AreLines
<1>2. \A k \in DOMAIN lines : Stored(lines)[k] = StoredLine(lines[k])
  BY DEF Stored
<1>3. \A k \in DOMAIN lines : StoredLine(lines[k]) \in KeptLine
  BY StoredLineIs DEF AreLines
<1>4. DOMAIN Stored(lines) = DOMAIN lines
  BY DEF Stored
<1>5. Stored(lines) \in [1..n -> KeptLine]
  BY <1>1, <1>3 DEF Stored
<1>6. Stored(lines) \in Seq(KeptLine)
  BY <1>5, SeqDef
<1>7. Stored(lines) # <<>>
  <2>1. 1 \in DOMAIN Stored(lines)
    BY <1>1, <1>4
  <2> QED BY <2>1
<1>8. AreLines(Stored(lines))
  BY <1>6, <1>7, AskedAre
<1> QED BY <1>2, <1>4, <1>6, <1>7, <1>8

(* With no quantity of nought lines are worth the same as stored ones *)
LEMMA StoredAreWorth ==
  ASSUME NEW lines, AreLines(lines), \A k \in DOMAIN lines : lines[k].quantity > 0
  PROVE  NetOf(Stored(lines)) = NetOf(lines) /\ LineTaxOf(Stored(lines)) = LineTaxOf(lines)
<1>1. ASSUME NEW line, line.quantity > 0, IsLine(line)
      PROVE  /\ Net(StoredLine(line)) = Net(line)
             /\ LineTaxInCents(StoredLine(line)) = LineTaxInCents(line)
  <2>1. line.quantity # 0
    BY <1>1 DEF IsLine
  <2>2. PICK s : s = StoredLine(line)
    OBVIOUS
  <2>3. /\ s.quantity = line.quantity /\ s.price = line.price
        /\ s.taxRate = line.taxRate /\ s.discountRate = line.discountRate
    BY <2>1, <2>2 DEF StoredLine
  <2> QED BY <2>2, <2>3 DEF Net, LineTaxInCents, Subtotal
<1>2. \A k \in DOMAIN lines : /\ Net(Stored(lines)[k]) = Net(lines[k])
                              /\ LineTaxInCents(Stored(lines)[k]) = LineTaxInCents(lines[k])
  BY <1>1, StoredAre DEF AreLines
<1>3. Nets(Stored(lines)) = Nets(lines) /\ LineTaxes(Stored(lines)) = LineTaxes(lines)
  BY <1>2, StoredAre DEF Nets, LineTaxes
<1> QED BY <1>3 DEF NetOf, LineTaxOf

ExactlyCalculated(lines, discount) == Sum(LineInCents, lines) - discount

LEMMA CalculatedIs ==
  ASSUME NEW lines, AreLines(lines), NEW discount \in Nat,
         \A k \in DOMAIN lines : lines[k].quantity > 0
  PROVE  ExactlyCalculated(Stored(lines), discount) = NetOf(lines) + LineTaxOf(lines) - discount
<1>1. PICK kept : kept = Stored(lines)
  OBVIOUS
<1>2. AreLines(kept)
  BY <1>1, StoredAre
<1>3. SumFunction(InCents(kept)) = NetOf(kept) + LineTaxOf(kept)
  BY <1>2, LineTaxOfIs, SumsAre
<1>3a. NetOf(kept) \in Nat /\ LineTaxOf(kept) \in Nat
  BY <1>2, NetOfIs, LineTaxOfIs
<1>4. ExactlyCalculated(kept, discount) = NetOf(kept) + LineTaxOf(kept) - discount
  <2>1. ExactlyCalculated(kept, discount) = SumFunction(InCents(kept)) - discount
    BY DEF ExactlyCalculated, Sum, InCents
  <2> QED BY <1>3, <1>3a, <2>1
<1>5. NetOf(kept) = NetOf(lines) /\ LineTaxOf(kept) = LineTaxOf(lines)
  BY <1>1, StoredAreWorth
<1> QED BY <1>1, <1>4, <1>5

-----------------------------------------------------------------------------
(* The total, and whether it is as it should be *)
Total(lines, rate, discount) == ToCents(AmountDue(lines, rate, discount))
Validates(lines, rate, discount) ==
  Total(lines, rate, discount) = ExactlyCalculated(Stored(lines), discount)

Due(lines, rate, discount) ==
  Sum(Subtotal, lines) + Sum(Tax, lines) + InvoiceTax(lines, rate) - Unit * discount

LEMMA TotalIs ==
  ASSUME NEW lines, AreLines(lines), NEW rate \in Percent, NEW discount \in Nat
  PROVE  /\ InvoiceTax(lines, rate) \in Nat
         /\ Total(lines, rate, discount) \in Nat
         /\ \/ Total(lines, rate, discount) > 0
            \/ Unit * discount <= Unit * NetOf(lines)
            => Total(lines, rate, discount) =
                 NetOf(lines) - discount + ToCents(TaxOf(lines) + InvoiceTax(lines, rate))
         /\ 2 * (Unit * Total(lines, rate, discount)) > 2 * Due(lines, rate, discount) - Unit
<1>1. PICK u \in Nat \ {0}, n, t \in Nat : u = Unit /\ n = NetOf(lines) /\ t = TaxOf(lines) /\ t <= u * n
  BY UnitIs, NetOfIs, TaxOfIs
<1>2. u * n \in Nat /\ u * discount \in Nat /\ u * (n - discount) = u * n - u * discount
  OBVIOUS
<1>3. InvoiceTax(lines, rate) \in Nat
  <2>1. Sum(Subtotal, lines) - Sum(Tax, lines) \in Nat
    BY <1>1, <1>2, NetOfIs, TaxOfIs
  <2> QED BY <2>1, PartIs DEF InvoiceTax
<1>4. PICK i \in Nat : i = InvoiceTax(lines, rate)
  BY <1>3
<1>5. PICK x \in Int : x = Due(lines, rate, discount) /\ x = u * n + t + i - u * discount
  BY <1>1, <1>2, <1>4, NetOfIs, TaxOfIs DEF Due
<1>6. Total(lines, rate, discount) = ToCents(Floor(x))
  <2>1. Sum(Subtotal, lines) + TaxDue(lines, rate) - Unit * discount = x
    <3>1. PICK a, b, c, d \in Int : /\ a = Sum(Subtotal, lines) /\ b = Sum(Tax, lines)
                                   /\ c = InvoiceTax(lines, rate) /\ d = Unit * discount
      BY <1>1, <1>2, <1>4, NetOfIs, TaxOfIs
    <3>2. a + (b + c) - d = a + b + c - d
      OBVIOUS
    <3> QED BY <1>5, <3>1, <3>2 DEF TaxDue, Due
  <2> QED BY <2>1 DEF Total, AmountDue
<1>7. Floor(x) \in Nat /\ Floor(x) >= x
  BY DEF Floor
<1>8. Total(lines, rate, discount) \in Nat
  BY <1>6, <1>7, CentsAreNat
<1>9. 2 * (Unit * Total(lines, rate, discount)) > 2 * Due(lines, rate, discount) - Unit
  <2>1. 2 * Floor(x) < 2 * (Unit * Total(lines, rate, discount)) + Unit
    BY <1>6, <1>7, CentsAre
  <2>2. Unit * Total(lines, rate, discount) \in Int /\ Unit \in Int
    BY <1>8, UnitIs
  <2> QED BY <1>5, <1>7, <2>1, <2>2
<1>10. ASSUME x >= 0
       PROVE  Total(lines, rate, discount) = n - discount + ToCents(t + i)
  <2>1. PICK y \in Nat : y = t + i
    OBVIOUS
  <2>2. PICK m \in Int : m = n - discount
    OBVIOUS
  <2>3. x = Unit * m + y
    BY <1>1, <1>2, <1>5, <2>1, <2>2
  <2>4. Floor(x) = x
    BY <1>10 DEF Floor
  <2>5. ToCents(Unit * m + y) = m + ToCents(y)
    BY <1>10, <2>3, WholeCents
  <2> QED BY <1>6, <2>1, <2>2, <2>3, <2>4, <2>5
<1>11. Total(lines, rate, discount) > 0 => x >= 0
  <2>1. ASSUME x < 0 PROVE Total(lines, rate, discount) = 0
    BY <1>6, <2>1, NoCents DEF Floor
  <2> QED BY <1>8, <2>1
<1>12. Unit * discount <= Unit * NetOf(lines) => x >= 0
  BY <1>1, <1>2, <1>5
<1> QED BY <1>1, <1>3, <1>4, <1>8, <1>9, <1>10, <1>11, <1>12

-----------------------------------------------------------------------------
(* A line that is taxed alone has all the tax there is *)
LEMMA OneTaxed ==
  ASSUME NEW lines, AreLines(lines), Cardinality(Taxed(lines)) <= 1
  PROVE  \E k \in DOMAIN lines : \A j \in DOMAIN lines : j # k => j \notin Taxed(lines)
<1>1. IsFiniteSet(Taxed(lines)) /\ Cardinality(Taxed(lines)) \in Nat
  <2>1. IsFiniteSet(DOMAIN lines) /\ Taxed(lines) \in SUBSET DOMAIN lines
    BY LinesAre DEF Taxed
  <2> QED BY <2>1, FS_Subset, FS_CardinalityType
<1>2. CASE Cardinality(Taxed(lines)) = 0
  <2>1. Taxed(lines) = {}
    BY <1>1, <1>2, FS_EmptySet
  <2>2. 1 \in DOMAIN lines
    BY DEF AreLines
  <2> QED BY <2>1, <2>2
<1>3. CASE Cardinality(Taxed(lines)) = 1
  <2>1. PICK k : Taxed(lines) = {k}
    BY <1>1, <1>3, FS_Singleton
  <2>2. k \in DOMAIN lines
    BY <2>1 DEF Taxed
  <2> QED BY <2>1, <2>2
<1> QED BY <1>1, <1>2, <1>3

LEMMA SoundTax ==
  ASSUME NEW lines, AreLines(lines), NEW rate, NEW discount, Sound(lines, rate, discount)
  PROVE  LineTaxOf(lines) = ToCents(TaxOf(lines))
<1>1. PICK k \in DOMAIN lines : \A j \in DOMAIN lines : j # k => j \notin Taxed(lines)
  BY OneTaxed DEF Sound
<1>2. \A j \in DOMAIN lines : IsLine(lines[j])
  BY DEF AreLines
<1>3. ASSUME NEW j \in DOMAIN lines, j \notin Taxed(lines)
      PROVE  Tax(lines[j]) = 0 /\ LineTaxInCents(lines[j]) = 0
  <2>1. lines[j].taxRate = 0
    BY <1>2, <1>3 DEF Taxed, IsLine, Percent
  <2> QED BY <1>2, <2>1, Untaxed
<1>4. PICK t, l : t = Taxes(lines) /\ l = LineTaxes(lines)
  OBVIOUS
<1>5. IsFiniteSet(DOMAIN lines) /\ t \in [DOMAIN lines -> Int] /\ l \in [DOMAIN lines -> Int]
  BY <1>4, LinesAre
<1>6. \A j \in DOMAIN lines : t[j] = Tax(lines[j]) /\ l[j] = LineTaxInCents(lines[j])
  BY <1>4 DEF Taxes, LineTaxes
<1>7. \A j \in DOMAIN lines : j # k => t[j] = 0 /\ l[j] = 0
  BY <1>1, <1>3, <1>6
<1>8. SumFunction(t) = t[k] /\ SumFunction(l) = l[k]
  BY <1>5, <1>7, SumOfOne
<1>9. LineTaxInCents(lines[k]) = ToCents(Tax(lines[k]))
  <2>1. CASE k \in Taxed(lines)
    BY <1>2, <2>1, LineTaxExact DEF Sound
  <2>2. CASE k \notin Taxed(lines)
    BY <1>3, <2>2, NoCents
  <2> QED BY <2>1, <2>2
<1> QED BY <1>4, <1>6, <1>8, <1>9 DEF TaxOf, LineTaxOf

(* A sound request is not refused for its totals *)
LEMMA SoundValidates ==
  ASSUME NEW lines, AreLines(lines), NEW rate, NEW discount \in Nat, Sound(lines, rate, discount)
  PROVE  Validates(lines, rate, discount)
<1>1. rate = 0 /\ rate \in Percent
  BY DEF Sound, Percent
<1>2. InvoiceTax(lines, rate) = 0
  <2>1. Sum(Subtotal, lines) - Sum(Tax, lines) \in Int
    BY NetOfIs, TaxOfIs, UnitIs
  <2> QED BY <1>1, <2>1, PartOfNought DEF InvoiceTax
<1>3. NetOf(lines) \in Nat /\ TaxOf(lines) \in Nat /\ Unit * discount <= Unit * NetOf(lines)
  BY NetOfIs, TaxOfIs DEF Sound
<1>4. Total(lines, rate, discount) = NetOf(lines) - discount + ToCents(TaxOf(lines) + InvoiceTax(lines, rate))
  BY <1>1, <1>3, TotalIs
<1>5. TaxOf(lines) + InvoiceTax(lines, rate) = TaxOf(lines)
  BY <1>2, <1>3
<1>6. ExactlyCalculated(Stored(lines), discount) = NetOf(lines) + LineTaxOf(lines) - discount
  BY CalculatedIs DEF Sound
<1>7. LineTaxOf(lines) = ToCents(TaxOf(lines)) /\ LineTaxOf(lines) \in Nat
  BY SoundTax, LineTaxOfIs
<1> QED BY <1>3, <1>4, <1>5, <1>6, <1>7 DEF Validates

(* A rate that shows makes the totals differ *)
LEMMA RateIsRefused ==
  ASSUME NEW lines, AreLines(lines), NEW rate \in Percent, NEW discount \in Nat,
         \A k \in DOMAIN lines : lines[k].quantity > 0,
         InvoiceTax(lines, rate) >= 3 * Unit * Len(lines)
  PROVE  ~Validates(lines, rate, discount)
<1>1. PICK u, m \in Nat \ {0}, n, t, l, i, a \in Nat :
        /\ u = Unit /\ m = Len(lines) /\ n = NetOf(lines) /\ t = TaxOf(lines) /\ l = LineTaxOf(lines)
        /\ i = InvoiceTax(lines, rate) /\ a = Total(lines, rate, discount)
  BY UnitIs, NetOfIs, TaxOfIs, LineTaxOfIs, TotalIs DEF AreLines
<1>2. PICK um, un, ul, ud, ua \in Nat :
        um = u * m /\ un = u * n /\ ul = u * l /\ ud = u * discount /\ ua = u * a
  <2>1. u * m \in Nat /\ u * n \in Nat /\ u * l \in Nat /\ u * discount \in Nat /\ u * a \in Nat
    OBVIOUS
  <2> QED BY <2>1
<1>3. um >= u
  <2>1. u * m >= u * 1
    BY <1>1
  <2> QED BY <1>2, <2>1
<1>4. i >= 3 * um
  <2>1. 3 * u * m = 3 * (u * m)
    OBVIOUS
  <2> QED BY <1>1, <1>2, <2>1
<1>5. 2 * ul <= 2 * t + 5 * um
  BY <1>1, <1>2, LineTaxOfIs
<1>6. Due(lines, rate, discount) = un + t + i - ud
  BY <1>1, <1>2, NetOfIs, TaxOfIs DEF Due
<1>7. 2 * ua > 2 * (un + t + i - ud) - u
  BY <1>1, <1>2, <1>6, TotalIs
<1>8. a # n + l - discount
  <2>1. ASSUME a = n + l - discount PROVE FALSE
    <3>1. u * (n + l - discount) = u * n + u * l - u * discount
      OBVIOUS
    <3>2. ua = un + ul - ud
      BY <1>2, <2>1, <3>1
    <3> QED BY <1>3, <1>4, <1>5, <1>7, <3>2
  <2> QED BY <2>1
<1>9. ExactlyCalculated(Stored(lines), discount) = n + l - discount
  BY <1>1, CalculatedIs
<1> QED BY <1>1, <1>8, <1>9 DEF Validates

-----------------------------------------------------------------------------
(* A row, and what it declares *)
Statuses == {"draft", "sent", "paid", "cancelled", "credit_note"}
Rows == [status: Statuses, lines: Seq(KeptLine), rate: {VAT} \cup Rates, discount: Nat,
         subtotal: Int, tax: Int, total: Int, registered: BOOLEAN, halved: BOOLEAN]

Totals(lines) == [k \in DOMAIN lines |-> lines[k].total]
TotalOf(lines) == SumFunction(Totals(lines))

LEMMA TotalOfIs ==
  ASSUME NEW lines \in Seq(KeptLine)
  PROVE  TotalOf(lines) \in Int /\ (lines = <<>> => TotalOf(lines) = 0)
<1>1. PICK a, b \in Int : a = 1 /\ b = Len(lines) /\ DOMAIN lines = a..b
  <2>1. Len(lines) \in Int /\ DOMAIN lines = 1..Len(lines)
    BY LenProperties
  <2>2. PICK b \in Int : b = Len(lines)
    BY <2>1
  <2>3. PICK a \in Int : a = 1
    OBVIOUS
  <2>4. DOMAIN lines = a..b
    BY <2>1, <2>2, <2>3
  <2> QED BY <2>2, <2>3, <2>4
<1>2. IsFiniteSet(DOMAIN lines)
  BY <1>1, FS_Interval
<1>3. \A k \in DOMAIN lines : lines[k].total \in Int
  <2>1. \A k \in DOMAIN lines : lines[k] \in KeptLine
    BY LenProperties, ElementOfSeq
  <2> QED BY <2>1 DEF KeptLine
<1>4. Totals(lines) \in [DOMAIN lines -> Int]
  BY <1>3 DEF Totals
<1>5. TotalOf(lines) \in Int
  BY <1>2, <1>4, SumIsInt DEF TotalOf
<1>6. ASSUME lines = <<>> PROVE TotalOf(lines) = 0
  <2>1. DOMAIN lines = {}
    BY <1>6
  <2>2. PICK g : Sums(g, DOMAIN lines, Totals(lines)) /\ TotalOf(lines) = g[DOMAIN lines]
    BY <1>2, <1>4, SumIs DEF TotalOf
  <2> QED BY <2>1, <2>2 DEF Sums
<1> QED BY <1>5, <1>6

Figures(kind, i, done, r) ==
  \/ kind = "invoice" /\ r.total - (r.subtotal - r.discount) - r.tax = 0
  \/ i \in done /\ r.total - (r.subtotal - r.discount) = 0
  \/ r.halved /\ r.total - (r.subtotal - r.discount) - r.tax \in {0 - 1, 0, 1}
  \/ kind # "invoice" /\ r.tax = 0

Makes(kind, r) ==
  \/ r.lines = <<>>
  \/ kind # "invoice" \/ r.halved
  \/ \E k \in DOMAIN r.lines : r.lines[k].discountRate > 0 \/ Defaulted(r.lines[k])
  \/ TotalOf(r.lines) - r.discount = r.total

(* How the row of an invoice stands to its label and to the edits made *)
Fits(l, i, done, r) ==
  /\ r \in Rows
  /\ i \in done \/ r.rate \in {VAT} \cup (Rates \ {0})
  /\ r.total > 0 => Figures(l.kind, i, done, r) /\ Makes(l.kind, r)

(* The row of a creation that has no half cent *)
NewRow(lines, rate, discount) ==
  [status |-> "draft", lines |-> Stored(lines), rate |-> StoredRate(rate), discount |-> discount,
   subtotal |-> ToCents(Sum(Subtotal, lines)), tax |-> ToCents(Sum(Tax, lines) + InvoiceTax(lines, rate)),
   total |-> Total(lines, rate, discount), registered |-> FALSE, halved |-> FALSE]

LEMMA RatesAre ==
  /\ {VAT} \cup Rates \subseteq Percent
  /\ \A rate \in {VAT} \cup Rates : StoredRate(rate) \in {VAT} \cup (Rates \ {0})
BY AmountsAssumption DEF StoredRate, Percent

(* Validated lines make up the total, unless one is discounted or has the  *)
(* default for a quantity                                                  *)
LEMMA ValidatedMakes ==
  ASSUME NEW lines, AreLines(lines), NEW rate \in Percent, NEW discount \in Nat,
         Validates(lines, rate, discount),
         \A k \in DOMAIN Stored(lines) :
           ~(Stored(lines)[k].discountRate > 0) /\ ~Defaulted(Stored(lines)[k])
  PROVE  TotalOf(Stored(lines)) - discount = Total(lines, rate, discount)
<1>1. PICK kept : kept = Stored(lines)
  OBVIOUS
<1>2. kept \in Seq(KeptLine) /\ AreLines(kept)
  BY <1>1, StoredAre
<1>3. ASSUME NEW k \in DOMAIN kept
      PROVE  LineInCents(kept[k]) = kept[k].total
  <2>1. IsLine(kept[k])
    BY <1>2 DEF AreLines
  <2>2. kept[k].discountRate = 0
    BY <1>1, <2>1 DEF IsLine, Percent
  <2>3. kept[k].total = ToCents(LineTotal(kept[k]))
    BY <1>1 DEF Defaulted
  <2> QED BY <2>1, <2>2, <2>3, Undiscounted
<1>4. InCents(kept) = Totals(kept)
  BY <1>3 DEF InCents, Totals
<1>5. ExactlyCalculated(kept, discount) = SumFunction(InCents(kept)) - discount
  BY DEF ExactlyCalculated, Sum, InCents
<1>6. Total(lines, rate, discount) = TotalOf(kept) - discount
  BY <1>1, <1>4, <1>5 DEF Validates, TotalOf
<1> QED BY <1>1, <1>6

LEMMA NewRowFits ==
  ASSUME NEW lines, AreLines(lines), NEW rate \in {VAT} \cup Rates, NEW discount \in Nat,
         Validates(lines, rate, discount), NEW l, l.kind = "invoice", NEW i, NEW done
  PROVE  Fits(l, i, done, NewRow(lines, rate, discount))
<1>1. rate \in Percent /\ StoredRate(rate) \in {VAT} \cup (Rates \ {0})
  BY RatesAre
<1>2. PICK n, t, x \in Nat : n = NetOf(lines) /\ t = TaxOf(lines) /\ x = InvoiceTax(lines, rate)
  BY <1>1, NetOfIs, TaxOfIs, TotalIs
<1>3. ToCents(Sum(Subtotal, lines)) = n
  BY <1>2, NetOfIs, NetInCents
<1>4. PICK c \in Nat : c = ToCents(t + x) /\ c = ToCents(Sum(Tax, lines) + InvoiceTax(lines, rate))
  <2>1. t + x \in Nat
    BY <1>2
  <2> QED BY <1>2, <2>1, TaxOfIs, CentsAreNat
<1>5. PICK a \in Nat : a = Total(lines, rate, discount) /\ (a > 0 => a = n - discount + c)
  BY <1>1, <1>2, <1>4, TotalIs
<1>6. PICK kept : kept = Stored(lines) /\ kept \in Seq(KeptLine)
  BY StoredAre
<1>7. PICK r : r = NewRow(lines, rate, discount)
  OBVIOUS
<1>8. /\ r = [status |-> "draft", lines |-> kept, rate |-> StoredRate(rate), discount |-> discount,
              subtotal |-> n, tax |-> c, total |-> a, registered |-> FALSE, halved |-> FALSE]
  BY <1>3, <1>4, <1>5, <1>6, <1>7 DEF NewRow
<1>9. r \in Rows
  <2>1. PICK s \in {VAT} \cup Rates : s = StoredRate(rate)
    BY <1>1
  <2>2. "draft" \in Statuses /\ FALSE \in BOOLEAN /\ n \in Int /\ c \in Int /\ a \in Int
    BY DEF Statuses
  <2>3. [status |-> "draft", lines |-> kept, rate |-> s, discount |-> discount,
         subtotal |-> n, tax |-> c, total |-> a, registered |-> FALSE, halved |-> FALSE] \in Rows
    BY <1>6, <2>1, <2>2 DEF Rows
  <2> QED BY <1>8, <2>1, <2>3
<1>10. r.total > 0 => Figures(l.kind, i, done, r)
  BY <1>5, <1>8 DEF Figures
<1>11. Makes(l.kind, r)
  <2>1. \/ \E k \in DOMAIN kept : kept[k].discountRate > 0 \/ Defaulted(kept[k])
        \/ TotalOf(kept) - discount = a
    BY <1>1, <1>5, <1>6, ValidatedMakes
  <2>2. r.lines = kept /\ r.discount = discount /\ r.total = a
    BY <1>8
  <2> QED BY <2>1, <2>2 DEF Makes
<1>12. r.rate \in {VAT} \cup (Rates \ {0})
  BY <1>1, <1>8
<1> QED BY <1>7, <1>9, <1>10, <1>11, <1>12 DEF Fits

-----------------------------------------------------------------------------
(* What a creation may store and calculate, and what it must if no amount  *)
(* is half a cent                                                          *)
LEMMA StoredLinesAre ==
  ASSUME NEW line, IsLine(line)
  PROVE  StoredLines(line) \subseteq KeptLine /\ StoredLine(line) \in StoredLines(line)
<1>1. PICK x, y \in Nat : x = Tax(line) /\ y = LineTotal(line)
  BY LineIs
<1>2. PICK old \in KeptLine : old = StoredLine(line)
  BY StoredLineIs
<1>3. old.tax = ToCents(x) /\ old.total = ToCents(y)
  BY <1>1, <1>2 DEF StoredLine
<1>4. \A c \in Nat, d \in Nat : [old EXCEPT !.tax = c, !.total = d] \in KeptLine
  BY DEF KeptLine
<1>5. old = [old EXCEPT !.tax = ToCents(x), !.total = ToCents(y)]
  BY <1>3 DEF KeptLine
<1>6. StoredLines(line) =
        {[old EXCEPT !.tax = f[1], !.total = f[2]] : f \in Cents(x) \X Cents(y)}
  BY <1>1, <1>2 DEF StoredLines
<1>7. ASSUME NEW s \in StoredLines(line) PROVE s \in KeptLine
  <2>1. PICK f \in Cents(x) \X Cents(y) : s = [old EXCEPT !.tax = f[1], !.total = f[2]]
    BY <1>6
  <2>2. f[1] \in Nat /\ f[2] \in Nat
    BY RoundedIs
  <2> QED BY <1>4, <2>1, <2>2
<1>8. old \in StoredLines(line)
  <2>1. ToCents(x) \in Cents(x) /\ ToCents(y) \in Cents(y)
    BY RoundedIs
  <2>2. PICK f : f = <<ToCents(x), ToCents(y)>>
    OBVIOUS
  <2>3. f \in Cents(x) \X Cents(y) /\ f[1] = ToCents(x) /\ f[2] = ToCents(y)
    BY <2>1, <2>2
  <2> QED BY <1>5, <1>6, <2>3
<1> QED BY <1>2, <1>7, <1>8

LEMMA MayStoreIs ==
  ASSUME NEW lines, AreLines(lines), NEW kept \in MayStore(lines)
  PROVE  /\ kept \in Seq(KeptLine) /\ DOMAIN kept = DOMAIN lines
         /\ kept = [k \in DOMAIN lines |-> kept[k]]
         /\ \A k \in DOMAIN lines : kept[k] \in StoredLines(lines[k])
<1>1. PICK n \in Nat \ {0} : n = Len(lines) /\ DOMAIN lines = 1..n
  BY DEF AreLines
<1>2. /\ DOMAIN kept = 1..n /\ kept = [k \in 1..n |-> kept[k]]
      /\ \A k \in 1..n : kept[k] \in StoredLines(lines[k])
  BY <1>1 DEF MayStore, Choices
<1>3. \A k \in 1..n : kept[k] \in KeptLine
  <2>1. \A k \in 1..n : IsLine(lines[k])
    BY <1>1 DEF AreLines
  <2> QED BY <1>2, <2>1, StoredLinesAre
<1>4. kept \in [1..n -> KeptLine]
  BY <1>2, <1>3
<1>5. kept \in Seq(KeptLine)
  BY <1>4, SeqDef
<1> QED BY <1>1, <1>2, <1>5

LEMMA ExactStores ==
  ASSUME NEW lines, AreLines(lines), NEW rate, NEW discount, Exact(lines, rate, discount),
         NEW kept \in MayStore(lines)
  PROVE  kept = Stored(lines)
<1>1. ASSUME NEW k \in DOMAIN lines PROVE kept[k] = Stored(lines)[k]
  <2>1. kept[k] \in StoredLines(lines[k]) /\ StoredLine(lines[k]) \in StoredLines(lines[k])
    BY MayStoreIs, StoredLinesAre DEF AreLines
  <2>2. Sole(StoredLines(lines[k]))
    BY DEF Exact
  <2>3. kept[k] = StoredLine(lines[k])
    BY <2>1, <2>2 DEF Sole
  <2> QED BY <2>3, StoredAre
<1>2. kept = [k \in DOMAIN lines |-> kept[k]] /\ Stored(lines) = [k \in DOMAIN lines |-> Stored(lines)[k]]
  BY MayStoreIs DEF Stored
<1> QED BY <1>1, <1>2

LEMMA ExactLineCents ==
  ASSUME NEW line, IsLine(line), Sole(LineCents(line))
  PROVE  \A c \in LineCents(line) : c = LineInCents(line)
<1>1. PICK p \in Nat : p = ToCents(Subtotal(line))
  BY LineIs, CentsAreNat
<1>2. PICK x \in Nat : x = Part(Unit * p, line.discountRate)
  <2>1. Unit * p \in Nat
    BY UnitIs
  <2> QED BY <2>1, PartIs DEF IsLine
<1>3. PICK less \in Nat : less = ToCents(x) /\ less \in Cents(x) /\ less <= p
  <2>1. ToCents(x) \in Nat /\ ToCents(x) \in Cents(x)
    BY RoundedIs, CentsAreNat
  <2>2. PICK g \in Int : g = p - ToCents(x)
    BY <2>1
  <2>3. Unit * g \in Nat
    BY <1>1, <1>2, <2>2, LessIs
  <2>4. ~(g <= 0 - 1)
    <3>1. ASSUME g <= 0 - 1 PROVE Unit * g <= Unit * (0 - 1)
      BY <3>1, UnitIs
    <3> QED BY <2>3, <3>1, UnitIs
  <2> QED BY <2>1, <2>2, <2>4
<1>4. PICK y \in Nat : y = Part(Unit * (p - less), line.taxRate)
  <2>1. PICK m \in Nat : m = p - less
    BY <1>3
  <2>2. Unit * m \in Nat
    BY UnitIs
  <2> QED BY <2>1, <2>2, PartIs DEF IsLine
<1>5. ToCents(y) \in Cents(y) /\ LineInCents(line) = p + ToCents(y)
  BY <1>1, <1>2, <1>3, <1>4, RoundedIs DEF LineInCents, LineTaxInCents
<1>6. LineInCents(line) \in LineCents(line)
  BY <1>1, <1>2, <1>3, <1>4, <1>5 DEF LineCents
<1> QED BY <1>6 DEF Sole

LEMMA ExactCalculates ==
  ASSUME NEW lines, AreLines(lines), NEW rate, NEW discount, Exact(lines, rate, discount),
         NEW c \in Calculated(Stored(lines), discount)
  PROVE  c = ExactlyCalculated(Stored(lines), discount)
<1>1. PICK kept : kept = Stored(lines)
  OBVIOUS
<1>2. DOMAIN kept = DOMAIN lines /\ \A k \in DOMAIN lines : kept[k] = StoredLine(lines[k]) /\ IsLine(kept[k])
  BY <1>1, StoredAre DEF AreLines
<1>3. PICK f : /\ c = SumFunction(f) - discount
               /\ f = [k \in DOMAIN kept |-> f[k]]
               /\ \A k \in DOMAIN kept : f[k] \in LineCents(kept[k])
  BY <1>1 DEF Calculated, Choices
<1>4. ASSUME NEW k \in DOMAIN kept PROVE f[k] = LineInCents(kept[k])
  <2>1. Sole(LineCents(kept[k])) /\ IsLine(kept[k])
    BY <1>2 DEF Exact
  <2> QED BY <1>3, <2>1, ExactLineCents
<1>5. f = InCents(kept)
  BY <1>3, <1>4 DEF InCents
<1> QED BY <1>1, <1>3, <1>5 DEF ExactlyCalculated, Sum, InCents

(* The amounts of a creation before they are rounded *)
LEMMA DuesAre ==
  ASSUME NEW lines, AreLines(lines), NEW rate \in Percent, NEW discount \in Nat
  PROVE  /\ TaxDue(lines, rate) \in Nat /\ AmountDue(lines, rate, discount) \in Nat
         /\ TaxDue(lines, rate) = Sum(Tax, lines) + InvoiceTax(lines, rate)
         /\ AmountDue(lines, rate, discount) =
              Floor(Unit * NetOf(lines) + TaxDue(lines, rate) - Unit * discount)
<1>1. PICK n, t, i \in Nat : n = Sum(Subtotal, lines) /\ t = Sum(Tax, lines) /\ i = InvoiceTax(lines, rate)
                            /\ n = Unit * NetOf(lines)
  <2>1. PICK m \in Nat : m = NetOf(lines)
    BY NetOfIs
  <2>2. Unit * m \in Nat
    BY UnitIs
  <2> QED BY <2>1, <2>2, NetOfIs, TaxOfIs, TotalIs
<1>2. PICK d \in Nat : d = Unit * discount
  BY UnitIs
<1>3. PICK x \in Int, y \in Nat : y = t + i /\ x = n + y - d
  OBVIOUS
<1>4. TaxDue(lines, rate) = y
  BY <1>1, <1>3 DEF TaxDue
<1>5. AmountDue(lines, rate, discount) = Floor(x) /\ Floor(x) \in Nat
  BY <1>1, <1>2, <1>3, <1>4 DEF AmountDue, Floor
<1> QED BY <1>1, <1>2, <1>3, <1>4, <1>5

LEMMA ExactDraft ==
  ASSUME NEW lines, AreLines(lines), NEW rate \in Percent, NEW discount \in Nat,
         Exact(lines, rate, discount), NEW kept \in MayStore(lines),
         NEW tax \in Cents(TaxDue(lines, rate)), NEW total \in Cents(AmountDue(lines, rate, discount))
  PROVE  /\ Draft(kept, lines, rate, discount, tax, total) = NewRow(lines, rate, discount)
         /\ total = Total(lines, rate, discount)
<1>1. kept = Stored(lines)
  BY ExactStores
<1>2. tax = ToCents(Sum(Tax, lines) + InvoiceTax(lines, rate))
  <2>1. tax = ToCents(TaxDue(lines, rate))
    BY DuesAre, SoleIs DEF Exact
  <2> QED BY <2>1, DuesAre
<1>3. total = Total(lines, rate, discount)
  BY DuesAre, SoleIs DEF Exact, Total
<1> QED BY <1>1, <1>2, <1>3 DEF Draft, NewRow

(* With half a cent the figures are off by a cent at most *)
LEMMA HalvedDraft ==
  ASSUME NEW lines, AreLines(lines), NEW rate \in {VAT} \cup Rates, NEW discount \in Nat,
         ~Exact(lines, rate, discount), NEW kept \in MayStore(lines),
         NEW tax \in Cents(TaxDue(lines, rate)), NEW total \in Cents(AmountDue(lines, rate, discount)),
         NEW l, l.kind = "invoice", NEW i, NEW done
  PROVE  Fits(l, i, done, Draft(kept, lines, rate, discount, tax, total))
<1>1. rate \in Percent /\ StoredRate(rate) \in {VAT} \cup (Rates \ {0})
  BY RatesAre
<1>2. PICK u \in Nat \ {0}, n, y, m \in Nat :
        /\ u = Unit /\ n = NetOf(lines) /\ y = TaxDue(lines, rate)
        /\ m = AmountDue(lines, rate, discount)
  BY <1>1, UnitIs, NetOfIs, DuesAre
<1>3. ToCents(Sum(Subtotal, lines)) = n
  BY <1>2, NetOfIs, NetInCents
<1>4. PICK a, c \in Nat : a = total /\ c = tax /\ 2 * (u * a) <= 2 * m + u /\ 2 * m <= 2 * (u * a) + u
                         /\ 2 * (u * c) <= 2 * y + u /\ 2 * y <= 2 * (u * c) + u
  BY <1>2, RoundedIs
<1>5. PICK r : r = Draft(kept, lines, rate, discount, tax, total)
  OBVIOUS
<1>6. r = [status |-> "draft", lines |-> kept, rate |-> StoredRate(rate), discount |-> discount,
           subtotal |-> n, tax |-> c, total |-> a, registered |-> FALSE, halved |-> TRUE]
  BY <1>3, <1>4, <1>5 DEF Draft
<1>7. r \in Rows
  <2>1. PICK s \in {VAT} \cup Rates : s = StoredRate(rate)
    BY <1>1
  <2>2. "draft" \in Statuses /\ n \in Int /\ c \in Int /\ a \in Int /\ kept \in Seq(KeptLine)
    BY MayStoreIs DEF Statuses
  <2> QED BY <1>6, <2>1, <2>2 DEF Rows
<1>8. ASSUME a > 0
      PROVE  a - (n - discount) - c \in {0 - 1, 0, 1}
  <2>1. PICK un, ud, x \in Int : un = u * n /\ ud = u * discount /\ x = un + y - ud
    OBVIOUS
  <2>2. m = Floor(x)
    BY <1>1, <1>2, <2>1, DuesAre
  <2>3. u * a >= u * 1 /\ u * a \in Int /\ u * c \in Int
    BY <1>8
  <2>4. m = x
    BY <1>4, <2>2, <2>3 DEF Floor
  <2>5. PICK g \in Int : g = a - (n - discount) - c
    OBVIOUS
  <2>6. u * g = u * a - u * n + u * discount - u * c /\ u * g \in Int
    BY <2>5
  <2>7. 2 * (u * g) <= 2 * u /\ 0 - 2 * u <= 2 * (u * g)
    BY <1>4, <2>1, <2>3, <2>4, <2>6
  <2>8. ~(g >= 2)
    <3>1. ASSUME g >= 2 PROVE u * g >= u * 2
      BY <3>1
    <3> QED BY <2>6, <2>7, <3>1
  <2>9. ~(g <= 0 - 2)
    <3>1. ASSUME g <= 0 - 2 PROVE u * g <= u * (0 - 2)
      BY <3>1
    <3>2. u * (0 - 2) = 0 - 2 * u
      OBVIOUS
    <3> QED BY <2>6, <2>7, <3>1, <3>2
  <2> QED BY <2>5, <2>8, <2>9
<1>9. r.total > 0 => Figures(l.kind, i, done, r)
  BY <1>6, <1>8 DEF Figures
<1>10. Makes(l.kind, r) /\ r.rate \in {VAT} \cup (Rates \ {0})
  BY <1>1, <1>6 DEF Makes
<1> QED BY <1>5, <1>7, <1>9, <1>10 DEF Fits

-----------------------------------------------------------------------------
(* A note's row, and an edited one *)
NoteRow(kind, lines, rate, discount, total) ==
  [status |-> IF kind = "credit_note" THEN kind ELSE "sent",
   lines |-> Stored(lines), rate |-> StoredRate(rate),
   discount |-> discount, registered |-> FALSE, halved |-> FALSE,
   subtotal |-> ToCents(Sum(Subtotal, lines)), tax |-> 0, total |-> total]

LEMMA UnratedAre ==
  ASSUME NEW order \in Orders
  PROVE  AreLines(order) /\ AreLines(Unrated(order))
<1>1. order \in Seq(AskedLine) /\ order # <<>>
  BY AmountsAssumption
<1>2. PICK n \in Nat \ {0} : n = Len(order) /\ DOMAIN order = 1..n
  BY <1>1, EmptySeq, LenProperties
<1>3. ASSUME NEW k \in 1..n
      PROVE  [order[k] EXCEPT !.taxRate = 0, !.discountRate = 0] \in AskedLine
  <2>1. order[k] \in AskedLine
    BY <1>1, <1>2, ElementOfSeq
  <2>2. 0 \in Percent
    BY DEF Percent
  <2> QED BY <2>1, <2>2 DEF AskedLine
<1>4. Unrated(order) \in [1..n -> AskedLine]
  BY <1>2, <1>3 DEF Unrated
<1>5. Unrated(order) \in Seq(AskedLine)
  BY <1>4, SeqDef
<1>6. Unrated(order) # <<>>
  <2>1. 1 \in DOMAIN Unrated(order)
    BY <1>2 DEF Unrated
  <2> QED BY <2>1
<1> QED BY <1>1, <1>5, <1>6, AskedAre

LEMMA CentsAreInt ==
  ASSUME NEW x \in Int
  PROVE  ToCents(x) \in Int
<1>1. CASE x >= 0
  BY <1>1, CentsAre
<1>2. CASE ~(x >= 0)
  <2>1. PICK u \in Nat \ {0} : u = Unit
    BY UnitIs
  <2>2. 2 * (0 - x) + u \in Int /\ 2 * u \in Nat \ {0}
    OBVIOUS
  <2>3. PICK q \in Int : q = (2 * (0 - x) + u) \div (2 * u)
    BY <2>2, Division
  <2>4. ToCents(x) = 0 - q
    BY <1>2, <2>1, <2>3 DEF ToCents
  <2> QED BY <2>4
<1> QED BY <1>1, <1>2

LEMMA NoteTotalIs ==
  ASSUME NEW lines, AreLines(lines), NEW rate \in {VAT} \cup Rates, NEW discount \in Nat, NEW kind
  PROVE  Cents(IF kind = "credit_note" THEN 0 - NoteTotal(lines, rate, discount)
                                       ELSE NoteTotal(lines, rate, discount)) \subseteq Int
<1>1. NoteTotal(lines, rate, discount) \in Int
  <2>1. Sum(Subtotal, lines) \in Nat
    <3>1. \A u, m \in Nat : u * m \in Nat
      OBVIOUS
    <3> QED BY <3>1, NetOfIs, UnitIs
  <2>2. Part(Sum(Subtotal, lines), rate) \in Nat
    BY <2>1, RatesAre, PartIs
  <2>3. Unit * discount \in Int
    BY UnitIs
  <2> QED BY <2>1, <2>2, <2>3 DEF NoteTotal
<1>2. PICK x \in Int : x = IF kind = "credit_note" THEN 0 - NoteTotal(lines, rate, discount)
                                                  ELSE NoteTotal(lines, rate, discount)
  BY <1>1
<1>3. ToCents(x) \in Int
  BY CentsAreInt
<1>4. Cents(x) \subseteq Int
  BY <1>3 DEF Cents
<1> QED BY <1>2, <1>4

LEMMA NoteRowFits ==
  ASSUME NEW lines, AreLines(lines), NEW rate \in {VAT} \cup Rates, NEW discount \in Nat,
         NEW kind \in {"credit_note", "debit_note"}, NEW l, l.kind = kind, NEW i, NEW done,
         NEW a \in Int
  PROVE  Fits(l, i, done, NoteRow(kind, lines, rate, discount, a))
<1>1. PICK s \in {VAT} \cup Rates : s = StoredRate(rate) /\ s \in {VAT} \cup (Rates \ {0})
  BY RatesAre
<1>2. PICK n \in Int : n = ToCents(Sum(Subtotal, lines))
  <2>1. Sum(Subtotal, lines) \in Int
    BY NetOfIs, UnitIs
  <2> QED BY <2>1, CentsAreInt
<1>5. PICK kept : kept = Stored(lines) /\ kept \in Seq(KeptLine)
  BY StoredAre
<1>6. PICK status \in Statuses : status = IF kind = "credit_note" THEN kind ELSE "sent"
  BY DEF Statuses
<1>7. PICK r : r = NoteRow(kind, lines, rate, discount, a)
  OBVIOUS
<1>8. r = [status |-> status, lines |-> kept, rate |-> s, discount |-> discount, registered |-> FALSE, halved |-> FALSE,
           subtotal |-> n, tax |-> 0, total |-> a]
  BY <1>1, <1>2, <1>5, <1>6, <1>7 DEF NoteRow
<1>9. r \in Rows
  <2>1. 0 \in Int /\ FALSE \in BOOLEAN
    OBVIOUS
  <2> QED BY <1>5, <1>8, <2>1 DEF Rows
<1>10. l.kind # "invoice"
  OBVIOUS
<1>11. r.tax = 0 /\ r.rate = s
  BY <1>8
<1> QED BY <1>1, <1>7, <1>9, <1>10, <1>11 DEF Fits, Figures, Makes

Wanted == {"none", "sent", "cancelled", "paid"}
RowRates == {VAT} \cup Rates

LEMMA EditedIs ==
  ASSUME NEW read \in Rows, NEW kept \in Seq(KeptLine), NEW to \in Wanted,
         NEW rate \in RowRates, NEW discount \in Nat
  PROVE  /\ Edited(read, kept, to, rate, discount) \in Rows
         /\ Edited(read, kept, to, rate, discount).lines = IF kept # <<>> THEN kept ELSE read.lines
         /\ Edited(read, kept, to, rate, discount).discount = discount
         /\ Edited(read, kept, to, rate, discount).subtotal = TotalOf(read.lines)
         /\ Edited(read, kept, to, rate, discount).total = Floor(TotalOf(read.lines) - discount)
<1>1. PICK old \in Seq(KeptLine) : old = read.lines
  BY DEF Rows
<1>2. PICK t \in Int : t = TotalOf(old) /\ t = Sum(LAMBDA line : line.total, old)
  BY TotalOfIs DEF TotalOf, Totals, Sum
<1>3. PICK x \in Int : x = Sum(LAMBDA line : line.tax, old)
  <2>1. PICK a, b, f : a = 1 /\ b = Len(old) /\ f = [k \in DOMAIN old |-> old[k].tax]
    OBVIOUS
  <2>2. a \in Int /\ b \in Int /\ DOMAIN old = a..b
    BY <2>1, LenProperties
  <2>3. IsFiniteSet(DOMAIN old)
    BY <2>2, FS_Interval
  <2>4. \A k \in DOMAIN old : old[k].tax \in Int
    <3>1. \A k \in DOMAIN old : old[k] \in KeptLine
      BY LenProperties, ElementOfSeq
    <3> QED BY <3>1 DEF KeptLine
  <2>5. f \in [DOMAIN old -> Int]
    BY <2>1, <2>4
  <2>6. SumFunction(f) \in Int
    BY <2>3, <2>5, SumIsInt
  <2>7. Sum(LAMBDA line : line.tax, old) = SumFunction(f)
    BY <2>1 DEF Sum
  <2> QED BY <2>6, <2>7
<1>4. PICK m \in Int : m = Floor(t - discount) /\ m = Recalculate(old, discount)
  <2>1. Recalculate(old, discount) = Floor(t - discount)
    BY <1>2 DEF Recalculate
  <2>2. Floor(t - discount) \in Int
    BY DEF Floor
  <2> QED BY <2>1, <2>2
<1>5. PICK status \in Statuses : status = Updated(read.status, to)
  BY DEF Updated, Rows, Statuses, Wanted
<1>6. PICK lines \in Seq(KeptLine) : lines = IF kept # <<>> THEN kept ELSE read.lines
  BY <1>1
<1>7. PICK r : r = Edited(read, kept, to, rate, discount)
  OBVIOUS
<1>8. r = [read EXCEPT !.status = status, !.rate = rate, !.discount = discount, !.subtotal = t,
                       !.tax = x, !.total = m, !.lines = lines, !.halved = FALSE]
  BY <1>1, <1>2, <1>3, <1>4, <1>5, <1>6, <1>7 DEF Edited
<1>9. /\ r \in Rows /\ r.lines = lines /\ r.discount = discount /\ r.subtotal = t /\ r.total = m
  BY <1>8 DEF Rows, RowRates
<1> QED BY <1>1, <1>2, <1>4, <1>6, <1>7, <1>9

(* The lines that are kept are the ones that were read, if there are any of each *)
LEMMA EditedFits ==
  ASSUME NEW read \in Rows, NEW kept \in Seq(KeptLine), NEW to \in Wanted,
         NEW rate \in RowRates, NEW discount \in Nat, NEW l, NEW done, NEW i \in done,
         kept = <<>> \/ read.lines = <<>> \/ kept = read.lines
  PROVE  Fits(l, i, done, Edited(read, kept, to, rate, discount))
<1>0. PICK r : r = Edited(read, kept, to, rate, discount)
  OBVIOUS
<1>1. /\ r \in Rows
      /\ r.lines = IF kept # <<>> THEN kept ELSE read.lines
      /\ r.discount = discount
      /\ r.subtotal = TotalOf(read.lines)
      /\ r.total = Floor(TotalOf(read.lines) - discount)
  BY <1>0, EditedIs
<1>2. read.lines \in Seq(KeptLine)
  BY DEF Rows
<1>3. PICK t \in Int : t = TotalOf(read.lines) /\ (read.lines = <<>> => t = 0)
  BY <1>2, TotalOfIs
<1>4. ASSUME r.total > 0
      PROVE  Figures(l.kind, i, done, r) /\ Makes(l.kind, r)
  <2>1. r.total = t - discount /\ read.lines # <<>>
    BY <1>1, <1>3, <1>4 DEF Floor
  <2>2. r.lines = read.lines
    BY <1>1, <2>1
  <2>3. Figures(l.kind, i, done, r)
    BY <1>1, <1>3, <2>1 DEF Figures
  <2>4. TotalOf(r.lines) - r.discount = r.total
    BY <1>1, <1>3, <2>1, <2>2
  <2> QED BY <2>3, <2>4 DEF Makes
<1> QED BY <1>0, <1>1, <1>4 DEF Fits

-----------------------------------------------------------------------------
(* The invariant of the rows.  Lines are held by an invoice if it has them *)
(* or an edit under way has read them.                                     *)
HoldsLines(i, lines) ==
  \/ i \in Invoices /\ Exists(i) /\ lines = row[i].lines
  \/ \E e \in Editors : Reading(e) /\ i = edit[e].of /\ lines = edit[e].row.lines

RowTypes == row \in [Invoices -> Rows \cup {NoRow}]
RowsFit  == \A i \in Invoices : Exists(i) => Fits(label[i], i, edited, row[i])
ReadsFit == \A e \in Editors : Reading(e) => edit[e].of \in Invoices /\ edit[e].row \in Rows
Matching == \A i, a, b : HoldsLines(i, a) /\ HoldsLines(i, b) /\ a # <<>> /\ b # <<>> => a = b

RowInv == RowTypes /\ RowsFit /\ ReadsFit /\ Matching

LEMMA FitsLater ==
  ASSUME NEW l, NEW i, NEW done, NEW later, done \subseteq later, NEW r, Fits(l, i, done, r)
  PROVE  Fits(l, i, later, r)
BY DEF Fits, Figures

LEMMA RowWritten ==
  ASSUME Inv, RowInv, NEW i \in Invoices, NEW l, NEW r, label' = [label EXCEPT ![i] = l],
         row' = [row EXCEPT ![i] = r], edited \subseteq edited', Fits(l, i, edited', r)
  PROVE  RowTypes' /\ RowsFit'
<1>1. /\ label \in [Invoices -> Label \cup {NoRow}] /\ row \in [Invoices -> Rows \cup {NoRow}]
      /\ r \in Rows
  BY DEF Inv, Types, RowInv, RowTypes, Fits
<1>2. RowTypes'
  BY <1>1 DEF RowTypes
<1>3. ASSUME NEW j \in Invoices, Exists(j)'
      PROVE  Fits(label[j]', j, edited', row[j]')
  <2>1. CASE j = i
    <3>1. label[j]' = l /\ row[j]' = r
      BY <1>1, <2>1
    <3> QED BY <2>1, <3>1
  <2>2. CASE j # i
    <3>1. label[j]' = label[j] /\ row[j]' = row[j]
      BY <1>1, <2>2
    <3>2. Fits(label[j], j, edited, row[j])
      BY <1>3, <3>1 DEF RowInv, RowsFit, Exists
    <3>3. Fits(label[j], j, edited', row[j])
      BY <3>2, FitsLater
    <3> QED BY <3>1, <3>3
  <2> QED BY <2>1, <2>2
<1>4. RowsFit'
  BY <1>3 DEF RowsFit
<1> QED BY <1>2, <1>4

(* Nothing but what was held before, or nothing at all *)
LEMMA MatchesStill ==
  ASSUME Matching, \A j, a : HoldsLines(j, a)' /\ a # <<>> => HoldsLines(j, a)
  PROVE  Matching'
BY DEF Matching

LEMMA MatchesNew ==
  ASSUME Matching, NEW i, NEW new, \A a : ~HoldsLines(i, a),
         \A j, a : HoldsLines(j, a)' => HoldsLines(j, a) \/ (j = i /\ a = new)
  PROVE  Matching'
<1> SUFFICES ASSUME NEW j, NEW a, NEW b, HoldsLines(j, a)', HoldsLines(j, b)', a # <<>>, b # <<>>
             PROVE  a = b
  BY DEF Matching
<1>1. CASE j = i
  BY <1>1
<1>2. CASE j # i
  BY <1>2 DEF Matching
<1> QED BY <1>1, <1>2

LEMMA UnusedHolds ==
  ASSUME NEW i \in Invoices, Unused(i)
  PROVE  \A a : ~HoldsLines(i, a)
BY DEF Unused, HoldsLines, Exists, Reading

LEMMA HeldAfterRow ==
  ASSUME Inv, RowInv, NEW i \in Invoices, NEW l, NEW r, label' = [label EXCEPT ![i] = l],
         row' = [row EXCEPT ![i] = r], edit' = edit
  PROVE  \A j, a : HoldsLines(j, a)' => HoldsLines(j, a) \/ (j = i /\ a = r.lines)
<1>1. /\ label \in [Invoices -> Label \cup {NoRow}] /\ row \in [Invoices -> Rows \cup {NoRow}]
  BY DEF Inv, Types, RowInv, RowTypes
<1> QED BY <1>1 DEF HoldsLines, Exists, Reading

LEMMA RowsUnchanged ==
  ASSUME RowInv, label' = label, row' = row, edit' = edit, edited' = edited
  PROVE  RowInv'
BY DEF RowInv, RowTypes, RowsFit, ReadsFit, Matching, HoldsLines, Exists, Reading

LEMMA ReadsUnchanged ==
  ASSUME RowInv, edit' = edit
  PROVE  ReadsFit'
BY DEF RowInv, ReadsFit, Reading

(* A new row for an invoice that is not in use *)
LEMMA RowAdded ==
  ASSUME Inv, RowInv, NEW i \in Invoices, Unused(i), NEW l, NEW r, label' = [label EXCEPT ![i] = l],
         row' = [row EXCEPT ![i] = r], edit' = edit, edited' = edited, Fits(l, i, edited, r)
  PROVE  RowInv'
<1>1. RowTypes' /\ RowsFit'
  BY RowWritten
<1>2. \A j, a : HoldsLines(j, a)' => HoldsLines(j, a) \/ (j = i /\ a = r.lines)
  BY HeldAfterRow
<1>3. \A a : ~HoldsLines(i, a)
  BY UnusedHolds
<1>4. Matching'
  <2>1. PICK new : new = r.lines
    OBVIOUS
  <2> QED BY <1>2, <1>3, <2>1, MatchesNew DEF RowInv
<1> QED BY <1>1, <1>4, ReadsUnchanged DEF RowInv

(* An invoice's own row, with the same lines or none *)
LEMMA RowChanged ==
  ASSUME Inv, RowInv, NEW i \in Invoices, Exists(i), NEW r, label' = label,
         row' = [row EXCEPT ![i] = r], edit' = edit, edited' = edited, Fits(label[i], i, edited, r),
         r.lines = row[i].lines \/ r.lines = <<>>
  PROVE  RowInv'
<1>1. label' = [label EXCEPT ![i] = label[i]]
  BY DEF Inv, Types
<1>2. RowTypes' /\ RowsFit'
  BY <1>1, RowWritten
<1>3. \A j, a : HoldsLines(j, a)' => HoldsLines(j, a) \/ (j = i /\ a = r.lines)
  BY <1>1, HeldAfterRow
<1>4. HoldsLines(i, row[i].lines)
  BY DEF HoldsLines
<1>5. \A j, a : HoldsLines(j, a)' /\ a # <<>> => HoldsLines(j, a)
  BY <1>3, <1>4
<1> QED BY <1>2, <1>5, MatchesStill, ReadsUnchanged DEF RowInv

-----------------------------------------------------------------------------
(* A creation that validates exactly is not refused but for a sequence *)
Stores(i, t, r) ==
  /\ HasSequence(t)
  /\ label' = [label EXCEPT ![i] = NewLabel(t)] /\ label' # label
  /\ row' = [row EXCEPT ![i] = r]

LEMMA CreateRows ==
  ASSUME Inv, NEW i \in Invoices, NEW t \in Tenants, NEW lines, AreLines(lines),
         NEW rate \in Percent, NEW discount \in Nat, ~Exists(i), Create(i, t, lines, rate, discount)
  PROVE  \/ /\ seq' = seq /\ label' = label /\ row' = row
            /\ Exact(lines, rate, discount) => ~(HasSequence(t) /\ Validates(lines, rate, discount))
         \/ /\ Exact(lines, rate, discount) /\ Validates(lines, rate, discount)
            /\ Stores(i, t, NewRow(lines, rate, discount))
         \/ /\ ~Exact(lines, rate, discount)
            /\ \E kept \in MayStore(lines), tax \in Cents(TaxDue(lines, rate)),
                  total \in Cents(AmountDue(lines, rate, discount)) :
                 Stores(i, t, Draft(kept, lines, rate, discount, tax, total))
<1>1. PICK kept \in MayStore(lines), tax \in Cents(TaxDue(lines, rate)),
           total \in Cents(AmountDue(lines, rate, discount)) :
        \E calculated \in Calculated(kept, discount) :
          \/ /\ HasSequence(t) /\ total = calculated
             /\ seq' = [seq EXCEPT ![t] = @ + 1]
             /\ label' = [label EXCEPT ![i] = NewLabel(t)]
             /\ row' = [row EXCEPT ![i] = Draft(kept, lines, rate, discount, tax, total)]
          \/ /\ ~(HasSequence(t) /\ total = calculated)
             /\ seq' = [seq EXCEPT ![t] = @] /\ label' = label /\ row' = row
  BY CreateMakes
<1>2. PICK calculated \in Calculated(kept, discount) :
        \/ /\ HasSequence(t) /\ total = calculated
           /\ seq' = [seq EXCEPT ![t] = @ + 1]
           /\ label' = [label EXCEPT ![i] = NewLabel(t)]
           /\ row' = [row EXCEPT ![i] = Draft(kept, lines, rate, discount, tax, total)]
        \/ /\ ~(HasSequence(t) /\ total = calculated)
           /\ seq' = [seq EXCEPT ![t] = @] /\ label' = label /\ row' = row
  BY <1>1
<1>3. PICK r : r = Draft(kept, lines, rate, discount, tax, total)
  OBVIOUS
<1>4. ASSUME Exact(lines, rate, discount)
      PROVE  /\ r = NewRow(lines, rate, discount) /\ total = Total(lines, rate, discount)
             /\ calculated = ExactlyCalculated(Stored(lines), discount)
  <2>1. kept = Stored(lines)
    BY <1>4, ExactStores
  <2>2. calculated \in Calculated(Stored(lines), discount)
    BY <2>1
  <2> QED BY <1>3, <1>4, <2>2, ExactDraft, ExactCalculates
<1>5. Exact(lines, rate, discount) => (total = calculated <=> Validates(lines, rate, discount))
  BY <1>4 DEF Validates
<1>6. CASE HasSequence(t) /\ total = calculated
  <2>1. label' = [label EXCEPT ![i] = NewLabel(t)] /\ row' = [row EXCEPT ![i] = r]
    BY <1>2, <1>3, <1>6
  <2>2. NewLabel(t) \in Label /\ NewLabel(t) # NoRow
    BY NoRowAssumption DEF NewLabel, Label, Inv, Types
  <2>3. label'[i] = NewLabel(t) /\ label[i] = NoRow
    BY <2>1 DEF Inv, Types, Exists
  <2>4. Stores(i, t, r)
    BY <1>6, <2>1, <2>2, <2>3 DEF Stores
  <2>5. CASE Exact(lines, rate, discount)
    <3>1. r = NewRow(lines, rate, discount) /\ Validates(lines, rate, discount)
      BY <1>4, <1>5, <1>6, <2>5
    <3> QED BY <2>4, <2>5, <3>1
  <2>6. CASE ~Exact(lines, rate, discount)
    BY <1>3, <2>4, <2>6
  <2> QED BY <2>5, <2>6
<1>7. CASE ~(HasSequence(t) /\ total = calculated)
  <2>1. seq' = [seq EXCEPT ![t] = @] /\ label' = label /\ row' = row
    BY <1>2, <1>7
  <2>2. [seq EXCEPT ![t] = @] = seq
    BY DEF Inv, Types
  <2> QED BY <1>5, <1>7, <2>1, <2>2
<1> QED BY <1>6, <1>7

LEMMA CreateKeepsRows ==
  ASSUME Inv, RowInv, NEW i \in Invoices, NEW t \in Tenants, NEW lines, AreLines(lines),
         NEW rate \in RowRates, NEW discount \in Nat, Unused(i),
         Create(i, t, lines, rate, discount), edit' = edit, edited' = edited
  PROVE  RowInv'
<1>1. ~Exists(i) /\ rate \in Percent
  BY RatesAre DEF Unused, RowRates
<1>2. CASE label' = label /\ row' = row
  BY <1>2, RowsUnchanged
<1>3. PICK l : l = NewLabel(t) /\ l.kind = "invoice"
  <2>1. NewLabel(t).kind = "invoice"
    BY DEF NewLabel
  <2> QED BY <2>1
<1>4. ASSUME NEW r, Stores(i, t, r), Fits(l, i, edited, r)
      PROVE  RowInv'
  <2>1. label' = [label EXCEPT ![i] = l] /\ row' = [row EXCEPT ![i] = r]
    BY <1>3, <1>4 DEF Stores
  <2> QED BY <1>4, <2>1, RowAdded
<1>5. CASE Exact(lines, rate, discount) /\ Validates(lines, rate, discount)
           /\ Stores(i, t, NewRow(lines, rate, discount))
  <2>1. Fits(l, i, edited, NewRow(lines, rate, discount))
    BY <1>3, <1>5, NewRowFits DEF RowRates
  <2> QED BY <1>4, <1>5, <2>1
<1>6. ASSUME ~Exact(lines, rate, discount), NEW kept \in MayStore(lines),
             NEW tax \in Cents(TaxDue(lines, rate)), NEW total \in Cents(AmountDue(lines, rate, discount)),
             Stores(i, t, Draft(kept, lines, rate, discount, tax, total))
      PROVE  RowInv'
  <2>1. Fits(l, i, edited, Draft(kept, lines, rate, discount, tax, total))
    BY <1>3, <1>6, HalvedDraft DEF RowRates
  <2> QED BY <1>4, <1>6, <2>1
<1> QED BY <1>1, <1>2, <1>5, <1>6, CreateRows

LEMMA RowOf ==
  ASSUME RowInv, NEW i \in Invoices, Exists(i)
  PROVE  /\ Fits(label[i], i, edited, row[i]) /\ row[i] \in Rows
         /\ row[i].lines \in Seq(KeptLine) /\ row[i].rate \in RowRates /\ row[i].discount \in Nat
<1>1. Fits(label[i], i, edited, row[i]) /\ row[i] \in Rows
  BY DEF RowInv, RowsFit, Fits
<1> QED BY <1>1 DEF Rows, RowRates

LEMMA NoteKeepsRows ==
  ASSUME Inv, RowInv, NEW i \in Invoices, NEW j \in Invoices, CreateNote(i, j)
  PROVE  RowInv'
<1>1. PICK kind \in {"credit_note", "debit_note"}, order \in Orders, suffix \in Suffixes :
        /\ Unused(i) /\ Exists(j)
        /\ label' = [label EXCEPT ![i] =
             [tenant |-> label[j].tenant, kind |-> kind, number |-> 0, suffix |-> suffix]]
        /\ \E a \in Cents(IF kind = "credit_note"
                         THEN 0 - NoteTotal(Unrated(order), row[j].rate, row[j].discount)
                         ELSE NoteTotal(Unrated(order), row[j].rate, row[j].discount)) :
             row' = [row EXCEPT ![i] = NoteRow(kind, Unrated(order), row[j].rate, row[j].discount, a)]
        /\ edit' = edit /\ edited' = edited
  BY DEF CreateNote, NoteRow
<1>2. PICK l : l = [tenant |-> label[j].tenant, kind |-> kind, number |-> 0, suffix |-> suffix]
  OBVIOUS
<1>3. l.kind = kind
  BY <1>2
<1>4. row[j].rate \in {VAT} \cup Rates /\ row[j].discount \in Nat
  BY <1>1, RowOf DEF RowRates
<1>4a. PICK a \in Int :
         row' = [row EXCEPT ![i] = NoteRow(kind, Unrated(order), row[j].rate, row[j].discount, a)]
  BY <1>1, <1>4, UnratedAre, NoteTotalIs
<1>5. PICK r : r = NoteRow(kind, Unrated(order), row[j].rate, row[j].discount, a)
  OBVIOUS
<1>6. Fits(l, i, edited, r)
  BY <1>3, <1>4, <1>5, UnratedAre, NoteRowFits
<1>7. label' = [label EXCEPT ![i] = l] /\ row' = [row EXCEPT ![i] = r]
  BY <1>1, <1>2, <1>4a, <1>5
<1> QED BY <1>1, <1>6, <1>7, RowAdded

(* Other columns do not count *)
LEMMA FitsWithStatus ==
  ASSUME NEW l, NEW i, NEW done, NEW r, Fits(l, i, done, r), NEW status \in Statuses
  PROVE  Fits(l, i, done, [r EXCEPT !.status = status]) /\ [r EXCEPT !.status = status].lines = r.lines
<1>1. PICK q : q = [r EXCEPT !.status = status]
  OBVIOUS
<1>2. r \in Rows
  BY DEF Fits
<1>3. /\ q \in Rows /\ q.lines = r.lines /\ q.rate = r.rate /\ q.discount = r.discount
      /\ q.subtotal = r.subtotal /\ q.tax = r.tax /\ q.total = r.total /\ q.halved = r.halved
  BY <1>1, <1>2 DEF Rows
<1>4. Fits(l, i, done, q)
  BY <1>3 DEF Fits, Figures, Makes
<1> QED BY <1>1, <1>3, <1>4

LEMMA FitsRegistered ==
  ASSUME NEW l, NEW i, NEW done, NEW r, Fits(l, i, done, r)
  PROVE  /\ Fits(l, i, done, [r EXCEPT !.registered = TRUE])
         /\ [r EXCEPT !.registered = TRUE].lines = r.lines
<1>1. PICK q : q = [r EXCEPT !.registered = TRUE]
  OBVIOUS
<1>2. r \in Rows
  BY DEF Fits
<1>3. /\ q \in Rows /\ q.lines = r.lines /\ q.rate = r.rate /\ q.discount = r.discount
      /\ q.subtotal = r.subtotal /\ q.tax = r.tax /\ q.total = r.total /\ q.halved = r.halved
  BY <1>1, <1>2 DEF Rows
<1>4. Fits(l, i, done, q)
  BY <1>3 DEF Fits, Figures, Makes
<1> QED BY <1>1, <1>3, <1>4

LEMMA FitsWithoutLines ==
  ASSUME NEW l, NEW i, NEW done, NEW r, Fits(l, i, done, r)
  PROVE  Fits(l, i, done, [r EXCEPT !.lines = <<>>]) /\ [r EXCEPT !.lines = <<>>].lines = <<>>
<1>1. PICK q : q = [r EXCEPT !.lines = <<>>]
  OBVIOUS
<1>2. r \in Rows
  BY DEF Fits
<1>3. PICK none \in Seq(KeptLine) : none = <<>>
  BY EmptySeq
<1>4. /\ q \in Rows /\ q.lines = none /\ q.rate = r.rate /\ q.discount = r.discount
      /\ q.subtotal = r.subtotal /\ q.tax = r.tax /\ q.total = r.total /\ q.halved = r.halved
  <2>1. q = [r EXCEPT !.lines = none]
    BY <1>1, <1>3
  <2> QED BY <1>2, <2>1 DEF Rows
<1>5. Fits(l, i, done, q)
  BY <1>3, <1>4 DEF Fits, Figures, Makes
<1> QED BY <1>1, <1>3, <1>4, <1>5

LEMMA ProgressKeepsRows ==
  ASSUME Inv, RowInv, NEW i \in Invoices, Progresses(i)
  PROVE  RowInv'
<1>1. Exists(i) /\ label' = label /\ edit' = edit /\ edited' = edited
  BY DEF Progresses
<1>2. PICK status \in Statuses : row' = [row EXCEPT ![i].status = status]
  <2>1. PICK step \in {<<"draft", "sent">>, <<"sent", "paid">>} : row' = [row EXCEPT ![i].status = step[2]]
    BY DEF Progresses
  <2>2. step[2] \in Statuses
    BY DEF Statuses
  <2> QED BY <2>1, <2>2
<1>3. PICK r : r = [row[i] EXCEPT !.status = status]
  OBVIOUS
<1>4. row' = [row EXCEPT ![i] = r]
  BY <1>2, <1>3
<1>5. Fits(label[i], i, edited, r) /\ r.lines = row[i].lines
  BY <1>1, <1>3, RowOf, FitsWithStatus
<1> QED BY <1>1, <1>4, <1>5, RowChanged

LEMMA RegisterKeepsRows ==
  ASSUME Inv, RowInv, NEW i \in Invoices, Registers(i)
  PROVE  RowInv'
<1>1. Exists(i) /\ label' = label /\ edit' = edit /\ edited' = edited
  BY DEF Registers
<1>3. PICK r : r = [row[i] EXCEPT !.registered = TRUE]
  OBVIOUS
<1>4. row' = [row EXCEPT ![i] = r]
  BY <1>3 DEF Registers
<1>5. Fits(label[i], i, edited, r) /\ r.lines = row[i].lines
  BY <1>1, <1>3, RowOf, FitsRegistered
<1> QED BY <1>1, <1>4, <1>5, RowChanged

LEMMA DeleteKeepsRows ==
  ASSUME Inv, RowInv, NEW i \in Invoices, DeleteInvoice(i)
  PROVE  RowInv'
<1>1. Exists(i) /\ edit' = edit /\ edited' = edited
  BY DEF DeleteInvoice
<1>2. CASE label' = [label EXCEPT ![i] = NoRow] /\ row' = [row EXCEPT ![i] = NoRow]
  <2>1. /\ label \in [Invoices -> Label \cup {NoRow}] /\ row \in [Invoices -> Rows \cup {NoRow}]
    BY DEF Inv, Types, RowInv, RowTypes
  <2>2. RowTypes'
    BY <1>2, <2>1 DEF RowTypes
  <2>3. ASSUME NEW j \in Invoices, Exists(j)'
        PROVE  j # i /\ label[j]' = label[j] /\ row[j]' = row[j] /\ Exists(j)
    BY <1>2, <2>1, <2>3 DEF Exists
  <2>4. RowsFit'
    BY <1>1, <2>3 DEF RowsFit, RowInv
  <2>5. \A j, a : HoldsLines(j, a)' => HoldsLines(j, a)
    BY <1>1, <2>3 DEF HoldsLines, Reading
  <2> QED BY <1>1, <2>2, <2>4, <2>5, MatchesStill, ReadsUnchanged DEF RowInv
<1>3. CASE label' = label /\ row' = [row EXCEPT ![i].lines = <<>>]
  <2>1. PICK r : r = [row[i] EXCEPT !.lines = <<>>]
    OBVIOUS
  <2>2. row' = [row EXCEPT ![i] = r]
    BY <1>3, <2>1
  <2>3. Fits(label[i], i, edited, r) /\ r.lines = <<>>
    BY <1>1, <2>1, RowOf, FitsWithoutLines
  <2> QED BY <1>1, <1>3, <2>2, <2>3, RowChanged
<1> QED BY <1>2, <1>3 DEF DeleteInvoice

LEMMA ReadsKeepsRows ==
  ASSUME Inv, RowInv, NEW e \in Editors, UpdateReads(e)
  PROVE  RowInv'
<1>1. PICK i \in Invoices :
        /\ Exists(i)
        /\ edit' = [edit EXCEPT ![e] = [of |-> i, label |-> label[i], row |-> row[i]]]
        /\ label' = label /\ row' = row /\ edited' = edited
  BY DEF UpdateReads
<1>2. RowTypes' /\ RowsFit'
  BY <1>1 DEF RowInv, RowTypes, RowsFit, Exists
<1>3. edit[e]' = [of |-> i, label |-> label[i], row |-> row[i]]
      /\ \A f \in Editors \ {e} : edit[f]' = edit[f]
  BY <1>1 DEF Inv, Types
<1>4. edit[e]'.of = i /\ edit[e]'.row = row[i]
  BY <1>3
<1>5. ReadsFit'
  <2> SUFFICES ASSUME NEW f \in Editors, Reading(f)'
               PROVE  edit[f]'.of \in Invoices /\ edit[f]'.row \in Rows
    BY DEF ReadsFit
  <2>1. CASE f = e
    BY <1>1, <1>4, <2>1, RowOf
  <2>2. CASE f # e
    <3>1. Reading(f) /\ edit[f]' = edit[f]
      BY <1>3, <2>2 DEF Reading
    <3> QED BY <3>1 DEF RowInv, ReadsFit
  <2> QED BY <2>1, <2>2
<1>6. ASSUME NEW j, NEW a, HoldsLines(j, a)'
      PROVE  HoldsLines(j, a)
  <2>1. CASE j \in Invoices /\ Exists(j)' /\ a = row'[j].lines
    BY <1>1, <2>1 DEF HoldsLines, Exists
  <2>2. CASE \E f \in Editors : Reading(f)' /\ j = edit'[f].of /\ a = edit'[f].row.lines
    <3>1. PICK f \in Editors : Reading(f)' /\ j = edit'[f].of /\ a = edit'[f].row.lines
      BY <2>2
    <3>2. CASE f = e
      BY <1>1, <1>4, <3>1, <3>2 DEF HoldsLines
    <3>3. CASE f # e
      <4>1. Reading(f) /\ edit[f]' = edit[f]
        BY <1>3, <3>1, <3>3 DEF Reading
      <4> QED BY <3>1, <4>1 DEF HoldsLines
    <3> QED BY <3>2, <3>3
  <2> QED BY <1>6, <2>1, <2>2 DEF HoldsLines
<1> QED BY <1>2, <1>5, <1>6, MatchesStill DEF RowInv

LEMMA RefusedKeepsRows ==
  ASSUME Inv, RowInv, NEW e \in Editors, UpdateRefused(e)
  PROVE  RowInv'
<1>1. edit' = [edit EXCEPT ![e] = Done] /\ label' = label /\ row' = row /\ edited' = edited
  BY DEF UpdateRefused
<1>2. RowTypes' /\ RowsFit'
  BY <1>1 DEF RowInv, RowTypes, RowsFit, Exists
<1>3. \A f \in Editors : Reading(f)' => Reading(f) /\ edit[f]' = edit[f]
  BY <1>1 DEF Inv, Types, Reading
<1>4. ReadsFit'
  BY <1>3 DEF RowInv, ReadsFit
<1>5. \A j, a : HoldsLines(j, a)' => HoldsLines(j, a)
  BY <1>1, <1>3 DEF HoldsLines, Exists
<1> QED BY <1>2, <1>4, <1>5, MatchesStill DEF RowInv

LEMMA SavesKeepsRows ==
  ASSUME Inv, RowInv, NEW e \in Editors, UpdateSaves(e)
  PROVE  RowInv'
<1>1. PICK i, read, kept : /\ i = edit[e].of /\ read = edit[e].row
                           /\ kept = IF Exists(i) THEN row[i].lines ELSE <<>>
  OBVIOUS
<1>2. PICK to \in Wanted, rate \in Rates \cup {read.rate}, discount \in Discounts \cup {read.discount} :
        /\ Reading(e)
        /\ row' = [row EXCEPT ![i] = Edited(read, kept, to, rate, discount)]
        /\ label' = [label EXCEPT ![i] = edit[e].label]
        /\ edit' = [edit EXCEPT ![e] = Done]
        /\ edited' = edited \cup {i}
  <2>1. PICK to \in Wanted :
          /\ Reading(e)
          /\ \E rate \in Rates \cup {edit[e].row.rate}, discount \in Discounts \cup {edit[e].row.discount} :
               row' = [row EXCEPT ![edit[e].of] =
                 Edited(edit[e].row, IF Exists(edit[e].of) THEN row[edit[e].of].lines ELSE <<>>,
                        to, rate, discount)]
          /\ label' = [label EXCEPT ![edit[e].of] = edit[e].label]
          /\ edit' = [edit EXCEPT ![e] = Done]
          /\ edited' = edited \cup {edit[e].of}
    BY DEF UpdateSaves, Wanted
  <2>2. PICK rate \in Rates \cup {read.rate}, discount \in Discounts \cup {read.discount} :
          row' = [row EXCEPT ![i] = Edited(read, kept, to, rate, discount)]
    BY <1>1, <2>1
  <2> QED BY <1>1, <2>1, <2>2
<1>3. i \in Invoices /\ read \in Rows
  BY <1>1, <1>2 DEF RowInv, ReadsFit
<1>4. rate \in RowRates /\ discount \in Nat /\ read.lines \in Seq(KeptLine)
  BY <1>3, AmountsAssumption DEF Rows, RowRates
<1>5. kept \in Seq(KeptLine)
  BY <1>1, <1>3, RowOf, EmptySeq
<1>6. HoldsLines(i, read.lines) /\ (kept # <<>> => HoldsLines(i, kept))
  BY <1>1, <1>2, <1>3 DEF HoldsLines
<1>7. kept = <<>> \/ read.lines = <<>> \/ kept = read.lines
  BY <1>6 DEF RowInv, Matching
<1>8. PICK r : r = Edited(read, kept, to, rate, discount)
  OBVIOUS
<1>9. r.lines = IF kept # <<>> THEN kept ELSE read.lines
  BY <1>3, <1>4, <1>5, <1>8, EditedIs
<1>10. i \in edited' /\ edited \subseteq edited'
  BY <1>2
<1>11. Fits(edit[e].label, i, edited', r)
  BY <1>3, <1>4, <1>5, <1>7, <1>8, <1>10, EditedFits
<1>12. row' = [row EXCEPT ![i] = r]
  BY <1>2, <1>8
<1>13. RowTypes' /\ RowsFit'
  BY <1>2, <1>3, <1>10, <1>11, <1>12, RowWritten
<1>14. \A f \in Editors : Reading(f)' => Reading(f) /\ edit[f]' = edit[f]
  BY <1>2 DEF Inv, Types, Reading
<1>15. ReadsFit'
  BY <1>14 DEF RowInv, ReadsFit
<1>16. HoldsLines(i, r.lines)
  BY <1>6, <1>9
<1>17. \A j \in Invoices : row[j]' = IF j = i THEN r ELSE row[j]
  BY <1>3, <1>12 DEF RowInv, RowTypes
<1>18. \A j \in Invoices : j # i => label[j]' = label[j]
  BY <1>2 DEF Inv, Types
<1>19. ASSUME NEW j, NEW a, HoldsLines(j, a)'
       PROVE  HoldsLines(j, a)
  <2>1. CASE j \in Invoices /\ Exists(j)' /\ a = row'[j].lines
    <3>1. CASE j = i
      BY <1>16, <1>17, <2>1, <3>1
    <3>2. CASE j # i
      BY <1>17, <1>18, <2>1, <3>2 DEF HoldsLines, Exists
    <3> QED BY <3>1, <3>2
  <2>2. CASE \E f \in Editors : Reading(f)' /\ j = edit'[f].of /\ a = edit'[f].row.lines
    BY <1>14, <2>2 DEF HoldsLines
  <2> QED BY <1>19, <2>1, <2>2 DEF HoldsLines
<1> QED BY <1>13, <1>15, <1>19, MatchesStill DEF RowInv

LEMMA NextKeepsRows ==
  ASSUME Inv, RowInv, [Next]_vars
  PROVE  RowInv'
<1>1. ASSUME NEW i \in Invoices, CreateInvoice(i)
      PROVE  RowInv'
  <2>1. PICK t \in Tenants, lines \in Orders, rate \in Rates, discount \in Discounts :
          Unused(i) /\ Create(i, t, lines, rate, discount) /\ edit' = edit /\ edited' = edited
    BY <1>1 DEF CreateInvoice
  <2>2. AreLines(lines) /\ rate \in RowRates /\ discount \in Nat
    BY UnratedAre, AmountsAssumption DEF RowRates
  <2> QED BY <2>1, <2>2, CreateKeepsRows
<1>2. ASSUME NEW i \in Invoices, NEW j \in Invoices, DuplicateInvoice(i, j)
      PROVE  RowInv'
  <2>1. /\ Unused(i) /\ Exists(j) /\ row[j].lines # <<>>
        /\ Create(i, label[j].tenant, row[j].lines, row[j].rate, row[j].discount)
        /\ edit' = edit /\ edited' = edited
    BY <1>2 DEF DuplicateInvoice
  <2>2. label[j].tenant \in Tenants
    BY <2>1 DEF Inv, Types, Exists, Label
  <2>3. AreLines(row[j].lines) /\ row[j].rate \in RowRates /\ row[j].discount \in Nat
    BY <2>1, RowOf, AskedAre
  <2> QED BY <2>1, <2>2, <2>3, CreateKeepsRows
<1>3. CASE UNCHANGED vars
  BY <1>3, RowsUnchanged DEF vars
<1> QED BY <1>1, <1>2, <1>3, NoteKeepsRows, ProgressKeepsRows, RegisterKeepsRows, DeleteKeepsRows,
           ReadsKeepsRows, SavesKeepsRows, RefusedKeepsRows DEF Next

(* A tenant that has no sequence never gets one *)
LEMMA SequencesStay ==
  ASSUME Inv, [Next]_vars, NEW t, ~HasSequence(t)
  PROVE  ~HasSequence(t)'
<1>1. CASE seq' = seq
  BY <1>1 DEF HasSequence
<1>2. CASE Numbering!Next
  <2>1. PICK u \in Tenants \ {t} : seq[u] # 0
    BY DEF HasSequence
  <2>2. seq[u] \in Nat /\ seq \in [Tenants -> Nat]
    BY DEF Inv, Types
  <2>3. seq' = seq \/ \E v \in Tenants : seq' = [seq EXCEPT ![v] = @ + 1]
    BY <1>2 DEF Numbering!Next, Numbering!Issue, Numbering!Void, Numbering!Return
  <2>4. seq[u]' # 0
    BY <2>2, <2>3, <2>1
  <2> QED BY <2>1, <2>4 DEF HasSequence
<1> QED BY <1>1, <1>2, StepsRefine

LEMMA NextKeepsSound ==
  ASSUME Inv, RowInv, SoundIsCreated, [Next]_vars
  PROVE  SoundIsCreated'
<1>1. \A t \in refused : ~HasSequence(t)'
  BY SequencesStay DEF SoundIsCreated
<1>2. CASE refused' = refused /\ copied' = copied
  BY <1>1, <1>2 DEF SoundIsCreated
<1>3. ASSUME NEW i \in Invoices, CreateInvoice(i)
      PROVE  SoundIsCreated'
  <2>1. PICK t \in Tenants, lines \in Orders, rate \in Rates, discount \in Discounts :
          /\ Unused(i) /\ Create(i, t, lines, rate, discount)
          /\ refused' = IF Sound(lines, rate, discount) /\ label' = label
                        THEN refused \cup {t} ELSE refused
          /\ copied' = copied
    BY <1>3 DEF CreateInvoice
  <2>2. CASE Sound(lines, rate, discount) /\ label' = label
    <3>1. AreLines(lines) /\ discount \in Nat
      BY UnratedAre, AmountsAssumption
    <3>2. Validates(lines, rate, discount) /\ Exact(lines, rate, discount)
      BY <2>2, <3>1, SoundValidates DEF Sound
    <3>3. ~Exists(i) /\ rate \in Percent
      BY <2>1, RatesAre DEF Unused
    <3>4. ~HasSequence(t)
      BY <2>1, <2>2, <3>1, <3>2, <3>3, CreateRows DEF Stores
    <3>5. ~HasSequence(t)'
      BY <3>4, SequencesStay
    <3>6. refused' = refused \cup {t}
      BY <2>1, <2>2
    <3> QED BY <1>1, <2>1, <3>5, <3>6 DEF SoundIsCreated
  <2>3. CASE ~(Sound(lines, rate, discount) /\ label' = label)
    BY <1>2, <2>1, <2>3
  <2> QED BY <2>2, <2>3
<1>4. ASSUME NEW i \in Invoices, NEW j \in Invoices, DuplicateInvoice(i, j)
      PROVE  SoundIsCreated'
  <2>1. PICK lines, rate, discount : lines = row[j].lines /\ rate = row[j].rate /\ discount = row[j].discount
    OBVIOUS
  <2>2. /\ Unused(i) /\ Exists(j) /\ lines # <<>> /\ Create(i, label[j].tenant, lines, rate, discount)
        /\ copied' = IF label' # label /\ j \notin edited /\ RateShows(lines, discount)
                     THEN copied \cup {j} ELSE copied
        /\ refused' = refused
    BY <1>4, <2>1 DEF DuplicateInvoice
  <2>3. label[j].tenant \in Tenants
    BY <2>2 DEF Inv, Types, Exists, Label
  <2>4. ASSUME label' # label, j \notin edited, RateShows(lines, discount)
        PROVE  FALSE
    <3>1. ~Exists(i)
      BY <2>2 DEF Unused
    <3>3. lines \in Seq(KeptLine) /\ discount \in Nat /\ Fits(label[j], j, edited, row[j])
      BY <2>1, <2>2, RowOf
    <3>4. AreLines(lines)
      BY <2>2, <3>3, AskedAre
    <3>5. rate \in {VAT} \cup (Rates \ {0})
      BY <2>1, <2>4, <3>3 DEF Fits
    <3>6. InvoiceTax(lines, rate) >= 3 * Unit * Len(lines) /\ Exact(lines, rate, discount)
      BY <2>4, <3>5 DEF RateShows
    <3>7. rate \in Percent
      BY <3>5, RatesAre
    <3>2. Validates(lines, rate, discount)
      BY <2>2, <2>3, <2>4, <3>1, <3>3, <3>4, <3>6, <3>7, CreateRows
    <3>8. \A k \in DOMAIN lines : lines[k].quantity > 0
      <4>1. \A k \in DOMAIN lines : lines[k] \in KeptLine
        BY <3>3, LenProperties, ElementOfSeq
      <4> QED BY <4>1 DEF KeptLine
    <3> QED BY <3>2, <3>3, <3>4, <3>6, <3>7, <3>8, RateIsRefused
  <2>5. copied' = copied
    BY <2>2, <2>4
  <2> QED BY <1>2, <2>2, <2>5
<1>5. ASSUME NEW i \in Invoices, Progresses(i) \/ Registers(i) \/ DeleteInvoice(i)
      PROVE  refused' = refused /\ copied' = copied
  BY <1>5 DEF Progresses, Registers, DeleteInvoice
<1>6. ASSUME NEW i \in Invoices, NEW j \in Invoices, CreateNote(i, j)
      PROVE  refused' = refused /\ copied' = copied
  BY <1>6 DEF CreateNote
<1>7. ASSUME NEW e \in Editors, UpdateReads(e) \/ UpdateSaves(e) \/ UpdateRefused(e)
      PROVE  refused' = refused /\ copied' = copied
  BY <1>7 DEF UpdateReads, UpdateSaves, UpdateRefused
<1>8. CASE UNCHANGED vars
  BY <1>2, <1>8 DEF vars
<1> QED BY <1>2, <1>3, <1>4, <1>5, <1>6, <1>7, <1>8 DEF Next

-----------------------------------------------------------------------------
LEMMA FitsDeclares ==
  ASSUME NEW i \in Invoices, Declarable(i), Fits(label[i], i, edited, row[i])
  PROVE  FiguresAddUp(i) /\ LinesAddUp(i)
<1>1. PICK r : r = row[i] /\ r \in Rows /\ r.total > 0
  BY DEF Declarable, Fits
<1>2. PICK s, t, d, n \in Int : s = r.subtotal /\ t = r.tax /\ d = r.discount /\ n = r.total
  BY <1>1 DEF Rows
<1>3. Figures(label[i].kind, i, edited, r) /\ Makes(label[i].kind, r)
  BY <1>1 DEF Fits
<1>4. Gap(Document(i)) = n - (s - d) - t /\ Gap(SentDocument(i)) = n - (s - d) - 0
  BY <1>1, <1>2 DEF Gap, Document, SentDocument
<1>5. FiguresAddUp(i)
  <2>1. \/ label[i].kind = "invoice" /\ n - (s - d) - t = 0
        \/ i \in edited /\ n - (s - d) = 0
        \/ r.halved /\ n - (s - d) - t \in {0 - 1, 0, 1}
        \/ label[i].kind # "invoice" /\ t = 0
    BY <1>2, <1>3 DEF Figures
  <2>2. label[i].kind = "invoice" =>
          Gap(Document(i)) \in {0} \cup (IF i \in edited THEN {0 - t} ELSE {})
                                  \cup (IF r.halved THEN {-1, 1} ELSE {})
    BY <1>2, <1>4, <2>1
  <2>3. Gap(SentDocument(i)) = 0 => t = 0 \/ i \in edited \/ r.halved
    BY <1>2, <1>4, <2>1
  <2> QED BY <1>1, <1>2, <2>2, <2>3 DEF FiguresAddUp
<1>6. LinesAddUp(i)
  <2>1. Document(i).lines = r.lines /\ Document(i).including = r.total
    BY <1>1 DEF Document
  <2>2. Sum(LAMBDA line : line.total, r.lines) = TotalOf(r.lines)
    BY DEF Sum, TotalOf, Totals
  <2>3. \/ r.lines = <<>>
        \/ label[i].kind # "invoice" \/ r.halved
        \/ \E k \in DOMAIN r.lines : r.lines[k].discountRate > 0 \/ Defaulted(r.lines[k])
        \/ Sum(LAMBDA line : line.total, r.lines) - r.discount = r.total
    BY <1>3, <2>2 DEF Makes
  <2> QED BY <1>1, <2>1, <2>3 DEF LinesAddUp
<1> QED BY <1>5, <1>6

LEMMA BuyersAre == BuyersAreDeclared
<1> SUFFICES ASSUME NEW c \in ClientRows
             PROVE  /\ Classification(c) # DetectBuyerType(c) => c.pin = "framed" \/ Foreign(c) \/ c.words
                    /\ ValidateBuyerType(DetectBuyerType(c), c)
                    /\ SuggestBuyerType(c) = BuyerTypeOf("", c)
                    /\ \A type \in BuyerTypes \cup {""} :
                         ValidateBuyerType(type, c) /\ BuyerTypeOf(type, c) = "B2B"
                         => Classification(c) = "B2B"
  BY DEF BuyersAreDeclared
<1>1. /\ c.pin \in {"none", "valid", "framed", "other"} /\ c.employee = FALSE /\ c.preferred = ""
      /\ c.words \in BOOLEAN
  BY DEF ClientRows, PINs
<1>2. DetectBuyerType(c) = IF c.pin = "valid" THEN "B2B" ELSE IF Foreign(c) THEN "EXPORT" ELSE "B2C"
  BY <1>1 DEF DetectBuyerType, IsValidPIN
<1>3. Classification(c) = IF c.pin \in {"valid", "framed"} THEN "B2B"
                          ELSE IF c.pin = "none" /\ c.words THEN "EXPORT" ELSE "B2C"
  BY <1>1 DEF Classification
<1>4. SuggestBuyerType(c) = DetectBuyerType(c) /\ BuyerTypeOf("", c) = DetectBuyerType(c)
  BY <1>1 DEF SuggestBuyerType, BuyerTypes, BuyerTypeOf
<1>5. Classification(c) # DetectBuyerType(c) => c.pin = "framed" \/ Foreign(c) \/ c.words
  BY <1>1, <1>2, <1>3
<1>6. ValidateBuyerType(DetectBuyerType(c), c)
  BY <1>2 DEF ValidateBuyerType, IsValidPIN
<1>7. ASSUME NEW type \in BuyerTypes \cup {""}, ValidateBuyerType(type, c), BuyerTypeOf(type, c) = "B2B"
      PROVE  Classification(c) = "B2B"
  <2>1. c.pin = "valid"
    BY <1>1, <1>2, <1>7 DEF ValidateBuyerType, BuyerTypeOf, IsValidPIN
  <2> QED BY <1>3, <2>1
<1> QED BY <1>4, <1>5, <1>6, <1>7

(* What is created as asked is declared as created: a sound request is     *)
(* refused only for want of a sequence, an unedited invoice is never       *)
(* copied with a rate that shows, and an invoice's document adds up, for   *)
(* any amounts, rates and edits (CreateInvoice, ValidateInvoiceTotals,     *)
(* UpdateInvoice, SubmitInvoiceToKRA, determineBuyerClassification).       *)
THEOREM CreationIsDeclared == Spec => []SoundIsDeclared
<1>1. Init => RowInv /\ SoundIsCreated
  BY DEF Init, RowInv, RowTypes, RowsFit, ReadsFit, Matching, HoldsLines, Exists, Reading,
         SoundIsCreated
<1>2. Inv /\ RowInv /\ SoundIsCreated /\ [Next]_vars => RowInv' /\ SoundIsCreated'
  BY NextKeepsRows, NextKeepsSound
<1>3. RowInv /\ SoundIsCreated => SoundIsDeclared
  BY FitsDeclares, BuyersAre DEF RowInv, RowsFit, Declarable, SoundIsDeclared
<1> QED BY <1>1, <1>2, <1>3, NumbersStayDistinct, PTL DEF Spec
=============================================================================
