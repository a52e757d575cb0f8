--------------------------- MODULE InvoiceCreation ---------------------------
(***************************************************************************)
(* How invoices come about and what they amount to: creation with the next *)
(* number of the tenant's sequence, duplication, credit and debit notes,   *)
(* edits and deletion.  Creation, edits and the validation of the totals   *)
(* each compute them in their own way.                                     *)
(*                                                                         *)
(* A creation, its number, rows and validation, is one transaction and an  *)
(* action here.  Concurrent payments and sends are InvoiceLedger's.        *)
(***************************************************************************)
EXTENDS Integers, FiniteSets, Sequences, Functions

CONSTANTS Tenants,    \* tenants
          Invoices,   \* invoices, notes among them
          Editors,    \* UpdateInvoice requests
          Orders,     \* the sequences of lines that are asked for
          Rates,      \* tax rates of an invoice, in per cent
          Discounts,  \* discounts of an invoice, in cents
          VAT,        \* the database's default for the tax rate
          Unit,       \* the parts of a cent that amounts are exact in
          Suffixes,   \* the random ends of note numbers
          MaxNumbers, \* bound on the numbers drawn by a tenant
          NoRow       \* no such row

VARIABLES
  seq,     \* seq[t]: last_sequence_num of tenant t, 0 without a row
  label,   \* label[i]: the columns that say what invoice i is, or NoRow
  row,     \* row[i]: its other columns and its lines
  edit,    \* edit[e]: what an UpdateInvoice request read, NoRow before it did
  edited,  \* history: invoices that UpdateInvoice has saved
  refused, \* history: tenants whose sound request was refused
  copied   \* history: unedited invoices copied though their rate showed

vars == <<seq, label, row, edit, edited, refused, copied>>

(* number is 0 for notes, which have a random suffix instead *)
Label == [tenant: Tenants, kind: {"invoice", "credit_note", "debit_note"},
          number: Nat, suffix: Suffixes \cup {NoRow}]

ASSUME NoRowAssumption == NoRow \notin Label

(* CreateInvoice puts what is asked for within these bounds; the default   *)
(* of the rate is none of nought.                                          *)
Percent == 0..100
AskedLine == [quantity: Nat, price: Nat, taxRate: Percent, discountRate: Percent]

ASSUME AmountsAssumption ==
  /\ Unit \in Nat \ {0}
  /\ Orders \subseteq Seq(AskedLine) \ {<<>>}
  /\ Rates \subseteq Percent /\ Discounts \subseteq Nat
  /\ VAT \in Percent \ {0}

Init == /\ seq = [t \in Tenants |-> 0]
        /\ label = [i \in Invoices |-> NoRow]
        /\ row = [i \in Invoices |-> NoRow]
        /\ edit = [e \in Editors |-> NoRow]
        /\ edited = {}
        /\ refused = {}
        /\ copied = {}

Done == [of |-> NoRow]
Exists(i) == label[i] # NoRow
Reading(e) == edit[e] \notin {NoRow, Done}

-----------------------------------------------------------------------------
(* Amounts.  Prices are in cents, other amounts in parts of a cent that    *)
(* are small enough to be exact: sixteenths for rates of 25 and 50.        *)

(* ToCents rounds to the nearest cent, halves away from zero *)
ToCents(x) == IF x >= 0 THEN (2 * x + Unit) \div (2 * Unit)
                        ELSE 0 - ((2 * (0 - x) + Unit) \div (2 * Unit))

(* Floats are off by much less than a part of a cent: they round as exact  *)
(* numbers do, but for half a cent, which may go either way.               *)
Cents(x) ==
  {c \in (ToCents(x) - 1)..(ToCents(x) + 1) : 2 * (x - Unit * c) \in (0 - Unit)..Unit}
Sole(S) == \A a, b \in S : a = b

Part(x, rate) == (x * rate) \div 100

Subtotal(line)  == Unit * line.quantity * line.price
Discount(line)  == Part(Subtotal(line), line.discountRate)
Tax(line)       == Part(Subtotal(line) - Discount(line), line.taxRate)
LineTotal(line) == Subtotal(line) - Discount(line) + Tax(line)

Sum(Amount(_), lines) == SumFunction([k \in DOMAIN lines |-> Amount(lines[k])])

Floor(x) == IF x < 0 THEN 0 ELSE x

(* The invoice's own rate taxes what the lines have before tax, less their *)
(* tax                                                                     *)
InvoiceTax(lines, rate) == Part(Sum(Subtotal, lines) - Sum(Tax, lines), rate)

(* CreateInvoice's tax and total: the discounts of the lines do not enter  *)
TaxDue(lines, rate) == Sum(Tax, lines) + InvoiceTax(lines, rate)
AmountDue(lines, rate, discount) ==
  Floor(Sum(Subtotal, lines) + TaxDue(lines, rate) - Unit * discount)

(* The ways to take for each line an element of its set *)
Choices(S(_), lines) ==
  {f \in [DOMAIN lines -> UNION {S(lines[k]) : k \in DOMAIN lines}] :
     \A k \in DOMAIN lines : f[k] \in S(lines[k])}

(* ValidateInvoiceTotals: rounded line by line, without the invoice's rate *)
LineCents(line) ==
  LET price      == ToCents(Subtotal(line))
      Taxes(less) == Cents(Part(Unit * (price - less), line.taxRate))
  IN  {price + tax :
         tax \in UNION {Taxes(less) : less \in Cents(Part(Unit * price, line.discountRate))}}
(* Mutated form: lines are taken less their discounts *)
CalculatedNet(lines, discount) ==
  {SumFunction(f) - discount : f \in Choices(LAMBDA line : Cents(LineTotal(line)), lines)}
Calculated(lines, discount) ==
  {SumFunction(f) - discount : f \in Choices(LineCents, lines)}

(* recalculateInvoiceTotals: the lines' own totals, as they are stored,    *)
(* less the discount.                                                      *)
Recalculate(lines, discount) ==
  Floor(Sum(LAMBDA line : line.total, lines) - discount)

(* The columns' defaults replace a quantity and a rate of nought *)
StoredLine(line) ==
  [quantity |-> IF line.quantity = 0 THEN 1 ELSE line.quantity, price |-> line.price,
   taxRate |-> line.taxRate, discountRate |-> line.discountRate,
   tax |-> ToCents(Tax(line)), total |-> ToCents(LineTotal(line))]
Stored(lines) == [k \in DOMAIN lines |-> StoredLine(lines[k])]
StoredLines(line) ==
  {[StoredLine(line) EXCEPT !.tax = figures[1], !.total = figures[2]] :
     figures \in Cents(Tax(line)) \X Cents(LineTotal(line))}
MayStore(lines) == Choices(StoredLines, lines)
StoredRate(rate) == IF rate = 0 THEN VAT ELSE rate

-----------------------------------------------------------------------------
(* GetNextSequence.  The rows of the sequences get no id of their own, so  *)
(* the table has room for one.  Mutated form: the number is drawn outside  *)
(* the transaction and lost when that rolls back.                          *)
HasSequence(t) == \A u \in Tenants \ {t} : seq[u] = 0
NextNumber(t)  == seq[t] + 1
SequenceAfterGap(t, stored) == [seq EXCEPT ![t] = IF HasSequence(t) THEN @ + 1 ELSE @]
SequenceAfter(t, stored) == [seq EXCEPT ![t] = IF stored THEN @ + 1 ELSE @]

(* No amount that creation or validation rounds is half a cent *)
Exact(lines, rate, discount) ==
  /\ \A k \in DOMAIN lines :
       Sole(StoredLines(lines[k])) /\ Sole(LineCents(StoredLine(lines[k])))
  /\ Sole(Cents(TaxDue(lines, rate)))
  /\ Sole(Cents(AmountDue(lines, rate, discount)))

(* A draft.  halved is a history: half a cent was rounded for it *)
Draft(kept, lines, rate, discount, tax, total) ==
  [status |-> "draft", lines |-> kept, rate |-> StoredRate(rate), discount |-> discount,
   subtotal |-> ToCents(Sum(Subtotal, lines)), tax |-> tax, total |-> total,
   registered |-> FALSE, halved |-> ~Exact(lines, rate, discount)]

(* CreateInvoice, once the client is found and the request well-formed.    *)
(* The total is validated after the rows are stored, in one transaction.   *)
Create(i, t, lines, rate, discount) ==
  /\ seq[t] < MaxNumbers
  /\ \E kept \in MayStore(lines), tax \in Cents(TaxDue(lines, rate)),
        total \in Cents(AmountDue(lines, rate, discount)) :
     \E calculated \in Calculated(kept, discount) :
       LET stored == HasSequence(t) /\ total = calculated
       IN  /\ seq' = SequenceAfter(t, stored)
           /\ IF stored
              THEN /\ label' = [label EXCEPT ![i] =
                        [tenant |-> t, kind |-> "invoice", number |-> NextNumber(t),
                         suffix |-> NoRow]]
                   /\ row' = [row EXCEPT ![i] =
                        Draft(kept, lines, rate, discount, tax, total)]
              ELSE UNCHANGED <<label, row>>

(* A request without a rate for the whole invoice, with one line that is   *)
(* taxed at most and has a discount of whole cents, with a discount that   *)
(* leaves something to pay, and without half a cent: 50 per cent of 0.29   *)
(* may be refused.                                                         *)
Taxed(lines) == {k \in DOMAIN lines : lines[k].taxRate > 0}
Sound(lines, rate, discount) ==
  /\ rate = 0
  /\ Cardinality(Taxed(lines)) <= 1
  /\ \A k \in Taxed(lines) : Discount(lines[k]) % Unit = 0
  /\ \A k \in DOMAIN lines : lines[k].quantity > 0
  /\ Unit * discount <= Sum(Subtotal, lines)
  /\ Exact(lines, rate, discount)

Unused(i) == ~Exists(i) /\ \A e \in Editors : Reading(e) => edit[e].of # i

CreateInvoice(i) ==
  \E t \in Tenants, lines \in Orders, rate \in Rates, discount \in Discounts :
    /\ Unused(i)
    /\ Create(i, t, lines, rate, discount)
    /\ refused' = IF Sound(lines, rate, discount) /\ label' = label
                  THEN refused \cup {t} ELSE refused
    /\ UNCHANGED <<edit, edited, copied>>

(* The lines are worth enough for a rate on them to show, whatever they    *)
(* are rounded by, half a cent excepted                                    *)
RateShows(lines, discount) ==
  \A rate \in {VAT} \cup (Rates \ {0}) :
    InvoiceTax(lines, rate) >= 3 * Unit * Len(lines) /\ Exact(lines, rate, discount)

(* DuplicateInvoice asks for what is stored *)
DuplicateInvoice(i, j) ==
  /\ Unused(i)
  /\ Exists(j)
  /\ row[j].lines # <<>>
  /\ Create(i, label[j].tenant, row[j].lines, row[j].rate, row[j].discount)
  /\ copied' = IF label' # label /\ j \notin edited /\ RateShows(row[j].lines, row[j].discount)
               THEN copied \cup {j} ELSE copied
  /\ UNCHANGED <<edit, edited, refused>>

(* CreateCreditNote, CreateDebitNote: for a registered invoice, with a     *)
(* random number, the invoice's rate and once more its whole discount.     *)
(* Their tax is not a column that is stored, and none of their lines' is    *)
(* rounded.                                                                *)
NoteTotal(lines, rate, discount) ==
  Sum(Subtotal, lines) + Part(Sum(Subtotal, lines), rate) - Unit * discount

Unrated(lines) ==
  [k \in DOMAIN lines |-> [lines[k] EXCEPT !.taxRate = 0, !.discountRate = 0]]

CreateNote(i, j) ==
  \E kind \in {"credit_note", "debit_note"}, order \in Orders, suffix \in Suffixes :
    /\ Unused(i)
    /\ Exists(j)
    /\ row[j].registered
    /\ \A k \in Invoices : Exists(k) => <<label[k].kind, label[k].suffix>> # <<kind, suffix>>
    /\ label' = [label EXCEPT ![i] =
         [tenant |-> label[j].tenant, kind |-> kind, number |-> 0, suffix |-> suffix]]
    /\ LET lines == Unrated(order)
           due   == NoteTotal(lines, row[j].rate, row[j].discount)
       IN  \E total \in Cents(IF kind = "credit_note" THEN 0 - due ELSE due) :
             row' = [row EXCEPT ![i] =
               [status |-> IF kind = "credit_note" THEN kind ELSE "sent",
                lines |-> Stored(lines), rate |-> StoredRate(row[j].rate),
                discount |-> row[j].discount, registered |-> FALSE, halved |-> FALSE,
                subtotal |-> ToCents(Sum(Subtotal, lines)), tax |-> 0, total |-> total]]
    /\ UNCHANGED <<seq, edit, edited, refused, copied>>

-----------------------------------------------------------------------------
(* UpdateInvoice: read the invoice with its lines; save it whole.  Save    *)
(* stores again what has been deleted meanwhile, lines and row.            *)
UpdateReads(e) ==
  \E i \in Invoices :
    /\ edit[e] = NoRow
    /\ Exists(i)
    /\ edit' = [edit EXCEPT ![e] = [of |-> i, label |-> label[i], row |-> row[i]]]
    /\ UNCHANGED <<seq, label, row, edited, refused, copied>>

(* The status an update asking for "to" leaves *)
Updated(from, to) ==
  IF \/ from = "draft" /\ to \in {"sent", "cancelled"}
     \/ to = "cancelled" /\ from # "paid"
     \/ to = "paid"
  THEN to ELSE from

Edited(read, kept, to, rate, discount) ==
  [read EXCEPT !.status = Updated(@, to), !.rate = rate, !.discount = discount,
               !.subtotal = Sum(LAMBDA line : line.total, read.lines),
               !.tax = Sum(LAMBDA line : line.tax, read.lines),
               !.total = Recalculate(read.lines, discount),
               !.lines = IF kept # <<>> THEN kept ELSE @, !.halved = FALSE]

UpdateSaves(e) ==
  \E to \in {"none", "sent", "cancelled", "paid"} :
    LET i    == edit[e].of
        read == edit[e].row
        kept == IF Exists(i) THEN row[i].lines ELSE <<>>
    IN  /\ Reading(e)
        /\ read.status = "draft" \/ to # "none"
        /\ \E rate \in Rates \cup {read.rate}, discount \in Discounts \cup {read.discount} :
             row' = [row EXCEPT ![i] = Edited(read, kept, to, rate, discount)]
        /\ label' = [label EXCEPT ![i] = edit[e].label]
        /\ edit' = [edit EXCEPT ![e] = Done]
        /\ edited' = edited \cup {i}
        /\ UNCHANGED <<seq, refused, copied>>

(* ErrCannotEditPaid, or a due date that is empty *)
UpdateRefused(e) ==
  /\ Reading(e)
  /\ edit' = [edit EXCEPT ![e] = Done]
  /\ UNCHANGED <<seq, label, row, edited, refused, copied>>

(* DeleteInvoice: the lines go first, and stay away if the row may not go *)
MayDelete(i) == row[i].status \notin {"paid", "partially_paid"} /\ ~row[i].registered

DeleteInvoice(i) ==
  /\ Exists(i)
  /\ \/ /\ MayDelete(i)
        /\ label' = [label EXCEPT ![i] = NoRow]
        /\ row' = [row EXCEPT ![i] = NoRow]
     \/ /\ ~MayDelete(i)
        /\ row' = [row EXCEPT ![i].lines = <<>>]
        /\ UNCHANGED label
  /\ UNCHANGED <<seq, edit, edited, refused, copied>>

(* SendInvoice and RecordPayment *)
Progresses(i) ==
  /\ Exists(i)
  /\ \E step \in {<<"draft", "sent">>, <<"sent", "paid">>} :
       /\ row[i].status = step[1]
       /\ row' = [row EXCEPT ![i].status = step[2]]
  /\ UNCHANGED <<seq, label, edit, edited, refused, copied>>

(* KRA confirms the invoice *)
Registers(i) ==
  /\ Exists(i)
  /\ row[i].status # "draft" /\ ~row[i].registered
  /\ row' = [row EXCEPT ![i].registered = TRUE]
  /\ UNCHANGED <<seq, label, edit, edited, refused, copied>>

Next ==
  \/ \E i \in Invoices : CreateInvoice(i) \/ DeleteInvoice(i) \/ Progresses(i) \/ Registers(i)
  \/ \E i, j \in Invoices : DuplicateInvoice(i, j) \/ CreateNote(i, j)
  \/ \E e \in Editors : UpdateReads(e) \/ UpdateSaves(e) \/ UpdateRefused(e)

Spec == Init /\ [][Next]_vars

-----------------------------------------------------------------------------
(* Every invoice gets the next number of its tenant, and a creation that   *)
(* fails on its totals, a deletion, or an edit that stores a deleted       *)
(* invoice again neither leaves out a number nor gives one twice.          *)
Held == {<<label[i].tenant, label[i].number, i>> :
           i \in {j \in Invoices : Exists(j) /\ label[j].number > 0}}

Numbering == INSTANCE SequentialNumbers WITH last <- seq, held <- Held

NumbersAreSequential == Numbering!Spec

(* The three computations agree on a sound request, rounding included but  *)
(* for half a cent: it is refused only because another tenant has the one  *)
(* row for a sequence.                                                     *)
(* DuplicateInvoice asks for the stored rate, which the column's default   *)
(* has replaced, and so is refused until an edit has set it to nought, if  *)
(* the rate shows at all.                                                  *)
SoundIsCreated == (\A t \in refused : ~HasSequence(t)) /\ copied = {}

(* "InvoiceSequence tracks invoice numbers per tenant": no tenant's sound  *)
(* request is refused.                                                     *)
EveryTenantIsNumbered == refused = {}
=============================================================================
