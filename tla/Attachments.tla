------------------------------ MODULE Attachments ------------------------------
(***************************************************************************)
(* Files attached to invoices and expenses: each is written to the disk     *)
(* under a name of its own and then recorded.  A deletion looks for the     *)
(* file where it is not, /uploads instead of ./uploads, or does not look,   *)
(* and so deletes the record only.                                         *)
(***************************************************************************)
EXTENDS Naturals, FiniteSets

CONSTANTS Invoices, Expenses,
          Names,        \* the names that files are given
          Requests,     \* each for one upload or deletion
          MaxFailures,  \* bound on writes and statements that fail
          MaxCrashes,   \* bound on crashes
          NoRow         \* no such row

VARIABLES
  owners,   \* the invoices and expenses there are
  disk,     \* the files on the disk
  record,   \* record[f]: what file f is attached to, or NoRow
  req,      \* req[r]: where request r is, its file and its owner
  taken,    \* the names given so far
  enforced, \* whether the database checks that a record's invoice exists: Postgres
  left,     \* history: files whose record was deleted, or never made for a reason
  failed, crashes

vars == <<owners, disk, record, req, taken, enforced, left, failed, crashes>>

At(step, f, o) == [at |-> step, file |-> f, owner |-> o]
NotYet == At("new", NoRow, NoRow)
Done   == At("done", NoRow, NoRow)

Init ==
  /\ owners = Invoices \cup Expenses
  /\ disk = {} /\ taken = {} /\ left = {}
  /\ record = [f \in Names |-> NoRow]
  /\ req = [r \in Requests |-> NotYet]
  /\ enforced \in BOOLEAN
  /\ failed = 0 /\ crashes = 0

Goes(r, next) == req' = [req EXCEPT ![r] = next]
Fails         == failed < MaxFailures /\ failed' = failed + 1
Held(o)       == {f \in Names : record[f] = o}

-----------------------------------------------------------------------------
(* An upload *)

Comes(r, o, f) ==
  /\ req[r] = NotYet /\ f \notin taken
  /\ Goes(r, At("verify", f, o))
  /\ taken' = taken \cup {f}
  /\ UNCHANGED <<owners, disk, record, enforced, left, failed, crashes>>

(* The handler for invoices looks for the invoice, before the service does *)
CreateInvoiceAttachment(r, i, f) == i \in owners /\ Comes(r, i, f)
UploadExpenseAttachment(r, e, f) == Comes(r, e, f)

(* The file may also be too large, or of a kind not allowed *)
Verifies(r) ==
  /\ req[r].at = "verify"
  /\ \/ req[r].owner \in owners /\ Goes(r, [req[r] EXCEPT !.at = "write"])
     \/ Goes(r, Done)
  /\ UNCHANGED <<owners, disk, record, taken, enforced, left, failed, crashes>>

(* One that fails may leave part of the file *)
SaveFile(r) ==
  LET f == req[r].file IN
  /\ req[r].at = "write"
  /\ \/ /\ disk' = disk \cup {f}
        /\ Goes(r, At("record", f, req[r].owner))
        /\ UNCHANGED <<left, failed>>
     \/ /\ Fails /\ left' = left \cup {f} /\ Goes(r, Done)
        /\ \E part \in SUBSET {f} : disk' = disk \cup part
  /\ UNCHANGED <<owners, record, taken, enforced, crashes>>

Refuses(o) == enforced /\ o \in Invoices /\ o \notin owners

(* An invoice's file is removed if its record is refused, an expense's not *)
Creates(r) ==
  LET f == req[r].file
      o == req[r].owner
  IN
  /\ req[r].at = "record"
  /\ \/ /\ ~Refuses(o)
        /\ record' = [record EXCEPT ![f] = o]
        /\ UNCHANGED <<disk, left, failed>>
     \/ /\ (Refuses(o) /\ UNCHANGED failed) \/ Fails
        /\ disk' = IF o \in Invoices THEN disk \ {f} ELSE disk
        /\ left' = IF o \in Invoices THEN left ELSE left \cup {f}
        /\ UNCHANGED record
  /\ Goes(r, Done)
  /\ UNCHANGED <<owners, taken, enforced, crashes>>

-----------------------------------------------------------------------------
(* A deletion *)

FindAttachment(r, f) ==
  /\ req[r] = NotYet
  /\ Goes(r, At("remove", f, record[f]))
  /\ UNCHANGED <<owners, disk, record, taken, enforced, left, failed, crashes>>

(* An invoice's is possible only while there is the invoice *)
DeleteInvoiceAttachment(r, f) == record[f] \in Invoices \cap owners /\ FindAttachment(r, f)
DeleteExpenseAttachment(r, f) == record[f] \in Expenses /\ FindAttachment(r, f)

(* What a deletion leaves on the disk.  Mutated form: the file is found.    *)
KeptButOne(f) == disk \ {f}
Kept(f)       == disk

(* Another may have deleted the record meanwhile *)
DeleteAttachment(r) ==
  LET f == req[r].file IN
  /\ req[r].at = "remove"
  /\ IF record[f] = NoRow
     THEN UNCHANGED <<disk, record, left, failed>>
     ELSE /\ disk' = Kept(f)
          /\ \/ /\ record' = [record EXCEPT ![f] = NoRow]
                /\ left' = left \cup {f}
                /\ UNCHANGED failed
             \/ Fails /\ UNCHANGED <<record, left>>
  /\ Goes(r, Done)
  /\ UNCHANGED <<owners, taken, enforced, crashes>>

(* The records stay, if the database lets them *)
DeletesOwner(o) ==
  /\ o \in owners
  /\ enforced /\ o \in Invoices => Held(o) = {}
  /\ owners' = owners \ {o}
  /\ UNCHANGED <<disk, record, req, taken, enforced, left, failed, crashes>>

Crash ==
  /\ crashes < MaxCrashes /\ crashes' = crashes + 1
  /\ req' = [r \in Requests |-> IF req[r] = NotYet THEN NotYet ELSE Done]
  /\ left' = left \cup {req[r].file : r \in {q \in Requests : req[q].at \in {"write", "record"}}}
  /\ \E parts \in SUBSET {req[r].file : r \in {q \in Requests : req[q].at = "write"}} :
       disk' = disk \cup parts
  /\ UNCHANGED <<owners, record, taken, enforced, failed>>

Next ==
  \/ \E r \in Requests, f \in Names :
       \/ \E i \in Invoices : CreateInvoiceAttachment(r, i, f)
       \/ \E e \in Expenses : UploadExpenseAttachment(r, e, f)
       \/ DeleteInvoiceAttachment(r, f) \/ DeleteExpenseAttachment(r, f)
  \/ \E r \in Requests : Verifies(r) \/ SaveFile(r) \/ Creates(r) \/ DeleteAttachment(r)
  \/ \E o \in Invoices \cup Expenses : DeletesOwner(o)
  \/ Crash

Spec == Init /\ [][Next]_vars

-----------------------------------------------------------------------------
(* What the pages list, and what they send: an expense's file only *)
Listed(o) == IF o \in Invoices \ owners THEN {} ELSE Held(o)
Sent      == {f \in Names : record[f] \in Expenses}

(* Whatever is listed or sent is there, whole *)
RecordedIsThere ==
  Sent \cup UNION {Listed(o) : o \in Invoices \cup Expenses} \subseteq disk

(* A file without a record is on its way, or was deleted, or its upload     *)
(* failed or died; and a record whose invoice is gone, which nobody can see *)
(* or delete any more, is a thing of SQLite's.                             *)
LeftHaveACause ==
  /\ \A f \in disk : \/ record[f] # NoRow \/ f \in left
                     \/ \E r \in Requests : req[r] = At("record", f, req[r].owner)
  /\ enforced => \A o \in Invoices : Held(o) = Listed(o)

FilesAreKept == RecordedIsThere /\ LeftHaveACause
=============================================================================
