-------------------------------- MODULE Backups --------------------------------
(***************************************************************************)
(* The copies a replica makes of its SQLite file, one as it starts and one  *)
(* a day, and the pruning of old ones.  The file is read as it stands, page *)
(* by page, while transactions are committed to the log beside it and       *)
(* checkpoints carry them over.                                             *)
(***************************************************************************)
EXTENDS Naturals, FiniteSets, FiniteSetsExt

CONSTANTS Pages,        \* 1..n, the pages of the file
          Retained,     \* how many copies are kept (RetentionDays)
          MaxCommits,   \* bound on the transactions
          MaxCopies     \* bound on the copies begun, failures included

VARIABLES
  committed,  \* the transactions in the log
  page,       \* page[p]: the transaction whose state the page has
  mark,       \* the transaction up to which a checkpoint writes
  moving,     \* the pages it has still to write
  copy,       \* the copy under way: what has been read
  reading,    \* whether there is one
  torn,       \* history: a checkpoint was at work during the copy
  files,      \* the copies that are on the disk
  begun,      \* the copies begun, which name the files by their time
  ended       \* history: those that ended

vars == <<committed, page, mark, moving, copy, reading, torn, files, begun, ended>>
database == <<committed, page, mark, moving>>

Init == /\ committed = 0 /\ page = [p \in Pages |-> 0] /\ mark = 0 /\ moving = {}
        /\ copy = [p \in {} |-> 0] /\ reading = FALSE /\ torn = FALSE
        /\ files = {} /\ begun = 0 /\ ended = {}

File(whole) == [name |-> begun, holds |-> copy, whole |-> whole, torn |-> torn]
Whole(S)    == {f \in S : f.whole}

(* The database's own                                                      *)
Commit ==
  /\ committed < MaxCommits
  /\ committed' = committed + 1
  /\ UNCHANGED <<page, mark, moving, copy, reading, torn, files, begun, ended>>

Checkpoint ==
  /\ \/ /\ moving = {} /\ mark < committed
        /\ moving' = Pages /\ mark' = committed
        /\ UNCHANGED page
     \/ \E p \in moving : /\ page' = [page EXCEPT ![p] = mark]
                          /\ moving' = moving \ {p}
                          /\ UNCHANGED mark
  /\ torn' = (torn \/ reading)
  /\ UNCHANGED <<committed, copy, reading, files, begun, ended>>

-----------------------------------------------------------------------------
(* RunBackup                                                               *)

BeginsCopy ==
  /\ ~reading
  /\ begun < MaxCopies
  /\ begun' = begun + 1 /\ reading' = TRUE /\ torn' = (moving # {})
  /\ copy' = [p \in {} |-> 0]
  /\ UNCHANGED <<database, files, ended>>

CopiesPage ==
  /\ reading
  /\ LET p == Cardinality(DOMAIN copy) + 1
     IN  /\ p \in Pages
         /\ copy' = [q \in DOMAIN copy \cup {p} |-> IF q = p THEN page[p] ELSE copy[q]]
  /\ UNCHANGED <<database, reading, torn, files, begun, ended>>

(* The disk is full, or the process ends: what is written stays            *)
CopyFails ==
  /\ reading
  /\ files' = files \cup {File(FALSE)}
  /\ reading' = FALSE
  /\ UNCHANGED <<database, copy, torn, begun, ended>>

(* pruneBackups keeps the last by name.  Mutated form: the first.          *)
PrunedLast(S) == {f \in S : Cardinality({g \in S : g.name <= f.name}) <= Retained}
Pruned(S)     == {f \in S : Cardinality({g \in S : g.name >= f.name}) <= Retained}

BackupEnds ==
  /\ reading
  /\ DOMAIN copy = Pages
  /\ files' = Pruned(files \cup {File(TRUE)})
  /\ ended' = ended \cup {begun}
  /\ reading' = FALSE
  /\ UNCHANGED <<database, copy, torn, begun>>

Next == Commit \/ Checkpoint \/ BeginsCopy \/ CopiesPage \/ CopyFails \/ BackupEnds

Spec == Init /\ [][Next]_vars
-----------------------------------------------------------------------------
(* Properties                                                              *)

(* A copy that says it is whole holds the state of one moment unless a     *)
(* checkpoint was at work while it was made.                               *)
CopiesAreOfOneMoment ==
  \A f \in Whole(files) : ~f.torn => \A p, q \in Pages : f.holds[p] = f.holds[q]

(* The whole copies are those that ended among the last that were begun by *)
(* then, as many as are retained: the newest is never pruned, and a copy   *)
(* that failed takes the place of a whole one.                             *)
NewestAreKept ==
  {f.name : f \in Whole(files)} = {n \in ended : n > Max(ended) - Retained}
=============================================================================
