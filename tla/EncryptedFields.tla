---------------------------- MODULE EncryptedFields ----------------------------
(***************************************************************************)
(* What the hooks of a user's or a client's row do to its encrypted        *)
(* columns: a phone, a KRA PIN, a client's address.  They are sealed when  *)
(* the row is created and opened whenever it is found, and a row one of    *)
(* whose columns cannot be opened cannot be read at all: its user cannot   *)
(* log in, the invoices of its client cannot be listed.                    *)
(*                                                                         *)
(* A whole row is saved with its columns opened.  Before it is, the hook   *)
(* finds the row and seals the columns that differ from it; the rest is    *)
(* stored as it is, in the clear.                                          *)
(***************************************************************************)
CONSTANTS Columns,   \* the encrypted columns
          Texts,     \* what a column may hold
          Empty,     \* the empty text, one of them
          Decodable, \* the texts that happen to be Base64: the empty one, 12 digits
          Savers     \* requests that save the whole row

VARIABLES
  row,    \* row[c]: the text in column c and whether it is sealed
  saver,  \* saver[r]: where request r is, and what it is going to store
  alone   \* nobody writes between a hook and its save: SQLite's one connection

vars == <<row, saver, alone>>

Filled == [Columns -> Texts]

(* AfterFind opens every column that is not empty and fails at one that is *)
(* in the clear                                                            *)
Readable == \A c \in Columns : row[c].text # Empty => row[c].sealed
Opened   == [c \in Columns |-> row[c].text]

(* BeforeCreate *)
Init == /\ \E t \in Filled : row = [c \in Columns |-> [text |-> t[c], sealed |-> t[c] # Empty]]
        /\ saver = [r \in Savers |-> [at |-> "idle"]]
        /\ alone \in BOOLEAN

(* A request finds the row and changes some of these columns, or none: it   *)
(* is about a password, a second factor, a name or a currency               *)
Find(r) ==
  /\ saver[r].at = "idle"
  /\ Readable
  /\ \E t \in Filled, S \in SUBSET Columns :
       saver' = [saver EXCEPT ![r] =
                   [at |-> "holds", texts |-> [c \in Columns |-> IF c \in S THEN t[c] ELSE row[c].text]]]
  /\ UNCHANGED <<row, alone>>

(* BeforeUpdate's choice, given the columns it found; "already encrypted"   *)
(* is asked of the old text, which was opened                               *)
(* (mutated form: a row that cannot be read counts as one without columns)  *)
SealedUnread(texts, old) ==
  [c \in Columns |-> [text |-> texts[c],
                      sealed |-> texts[c] # Empty /\ (Readable => texts[c] # old[c] /\ old[c] \notin Decodable)]]
SealedIfChanged(texts, old) ==
  [c \in Columns |-> [text |-> texts[c],
                      sealed |-> /\ texts[c] # Empty
                                 /\ Readable /\ texts[c] # old[c]
                                 /\ old[c] \notin Decodable]]

(* The hook; without the row, or when it cannot be read, it seals nothing *)
BeforeUpdate(r) ==
  /\ saver[r].at = "holds"
  /\ alone => \A q \in Savers : saver[q].at # "saves"
  /\ saver' = [saver EXCEPT ![r] = [at |-> "saves", new |-> SealedIfChanged(@.texts, Opened), read |-> Readable]]
  /\ UNCHANGED <<row, alone>>

(* The update of all columns *)
Save(r) ==
  /\ saver[r].at = "saves"
  /\ row' = saver[r].new
  /\ saver' = [saver EXCEPT ![r] = [at |-> "idle"]]
  /\ UNCHANGED alone

Next == \E r \in Savers : Find(r) \/ BeforeUpdate(r) \/ Save(r)

Spec == Init /\ [][Next]_vars

-----------------------------------------------------------------------------
(* A row that cannot be read is made readable again by no later request:    *)
(* only by a save whose hook had read it before it broke, or by one that    *)
(* empties the columns, both of which had found it before.                  *)
BrokenStaysBroken ==
  [][(~Readable /\ Readable') =>
       \E r \in Savers : saver[r].at = "saves" /\ (saver[r].read \/ \A c \in Columns : row'[c].text = Empty)]_vars

(* models.go:41 "Encrypted - stored as ciphertext": a save that changes no   *)
(* column, as of a new password, leaves sealed what was sealed.             *)
UnchangedStaysSealed == [][Opened' = Opened => \A c \in Columns : row[c].sealed => row'[c].sealed]_vars
=============================================================================
