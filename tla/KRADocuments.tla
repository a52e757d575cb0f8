---------------------------- MODULE KRADocuments ----------------------------
(***************************************************************************)
(* What an invoice declares to the tax authority: the figures, lines and   *)
(* buyer of the document built from its row.  SubmitInvoiceToKRA builds    *)
(* one kind of document, SendInvoice another, and neither looks at how the *)
(* row came about; buyers are classified once when an invoice is created   *)
(* and again, by other rules, when it is submitted.                        *)
(***************************************************************************)
EXTENDS InvoiceCreation

(* The figures of the document SubmitInvoiceToKRA builds.  Nothing in it   *)
(* tells a debit note from an invoice.  Mutated form: the discount is not  *)
(* taken off.                                                              *)
UndiscountedDocument(i) ==
  [excluding |-> row[i].subtotal, vat |-> row[i].tax, including |-> row[i].total,
   lines |-> row[i].lines]
Document(i) ==
  [excluding |-> row[i].subtotal - row[i].discount, vat |-> row[i].tax,
   including |-> row[i].total, lines |-> row[i].lines]

(* SendInvoice's: tax_amount, which it reads, is not a column *)
SentDocument(i) == [Document(i) EXCEPT !.vat = 0]

(* validateInvoiceForKRA: no credit note passes.  A note's original has an *)
(* ICN.                                                                    *)
Declarable(i) == Exists(i) /\ row[i].total > 0

-----------------------------------------------------------------------------
(* Buyers.  No handler stores a client's country, whether the client is an *)
(* employee or a preferred type: they have their columns' defaults.  words *)
(* says that the e-mail or postal address holds one of the words that      *)
(* stand for an export.                                                    *)
PINs == {"none",    \* no PIN
         "valid",   \* 11 characters, from A to B, capitals and digits
         "framed",  \* from A to B, but otherwise amiss
         "other"}
ClientRows == [pin: PINs, currency: {"KES", "USD"}, words: BOOLEAN,
               country: {"KE"}, employee: {FALSE}, preferred: {""}]

BuyerTypes == {"B2B", "B2C", "B2E", "EXPORT"}
Foreign(c) == c.country \notin {"", "KE", "KENYA"} \/ c.currency \notin {"", "KES"}
IsValidPIN(pin) == pin = "valid"

DetectBuyerType(c) ==
  CASE IsValidPIN(c.pin) -> "B2B"
    [] ~IsValidPIN(c.pin) /\ Foreign(c) -> "EXPORT"
    [] ~IsValidPIN(c.pin) /\ ~Foreign(c) /\ c.employee -> "B2E"
    [] OTHER -> "B2C"

SuggestBuyerType(c) ==
  IF c.preferred \in BuyerTypes THEN c.preferred ELSE DetectBuyerType(c)

(* Whether a request may ask for the type: an unknown one passes *)
ValidateBuyerType(type, c) ==
  /\ type = "B2B" => IsValidPIN(c.pin)
  /\ type = "EXPORT" => Foreign(c)

(* The type an invoice is stored with *)
BuyerTypeOf(type, c) == IF type = "" THEN DetectBuyerType(c) ELSE type

(* determineBuyerClassification, for the submission *)
Classification(c) ==
  CASE c.pin \in {"valid", "framed"} -> "B2B"
    [] c.pin = "none" /\ c.words     -> "EXPORT"
    [] OTHER                          -> "B2C"

-----------------------------------------------------------------------------
(* The figures of a document add up, and its lines make up its total:      *)
(* except that an edit leaves the tax in the amount before tax, that a     *)
(* debit note declares no tax though its total includes it, that creation  *)
(* does not take off the discounts of lines, that a quantity of nought is  *)
(* stored as one, that half a cent may be rounded up in one figure and     *)
(* down in another, and that SendInvoice never declares tax.               *)
Gap(document) == document.including - document.excluding - document.vat

FiguresAddUp(i) ==
  /\ label[i].kind = "invoice" =>
       Gap(Document(i)) \in {0} \cup (IF i \in edited THEN {0 - row[i].tax} ELSE {})
                               \cup (IF row[i].halved THEN {-1, 1} ELSE {})
  /\ Gap(SentDocument(i)) = 0 => row[i].tax = 0 \/ i \in edited \/ row[i].halved

(* Its quantity is the column's default, and not in its total *)
Defaulted(line) == line.total # ToCents(LineTotal(line))

LinesAddUp(i) ==
  LET lines == Document(i).lines
  IN  \/ lines = <<>>
      \/ label[i].kind # "invoice" \/ row[i].halved
      \/ \E k \in DOMAIN lines : lines[k].discountRate > 0 \/ Defaulted(lines[k])
      \/ Sum(LAMBDA line : line.total, lines) - row[i].discount = Document(i).including

(* The two rules for buyers differ on a PIN that is amiss, on a currency   *)
(* and on words only; what is detected may also be asked for, and is what  *)
(* gets suggested; an invoice stored as one to a business is declared so.  *)
BuyersAreDeclared ==
  \A c \in ClientRows :
    /\ Classification(c) # DetectBuyerType(c) => c.pin = "framed" \/ Foreign(c) \/ c.words
    /\ ValidateBuyerType(DetectBuyerType(c), c)
    /\ SuggestBuyerType(c) = BuyerTypeOf("", c)
    /\ \A type \in BuyerTypes \cup {""} :
         ValidateBuyerType(type, c) /\ BuyerTypeOf(type, c) = "B2B" => Classification(c) = "B2B"

(* What is created as asked is also declared as created. *)
SoundIsDeclared ==
  /\ SoundIsCreated
  /\ \A i \in Invoices : Declarable(i) => FiguresAddUp(i) /\ LinesAddUp(i)
  /\ BuyersAreDeclared
=============================================================================
