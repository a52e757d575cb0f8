------------------------------ MODULE Migrations ------------------------------
(***************************************************************************)
(* The versioned SQL migrations, which every replica runs as it starts.     *)
(* The statements of a version are executed one by one outside a            *)
(* transaction, and the version is recorded after the last.  A failure ends *)
(* the run with a warning, and the replica starts all the same.             *)
(***************************************************************************)
EXTENDS Naturals, FiniteSets

CONSTANTS Versions,    \* 1..n, in the order of the files' names
          Statements,  \* 1..n, the statements of each
          Guarded,     \* the statements that say IF NOT EXISTS
          Refused,     \* the statements the database never accepts
          Replicas,
          MaxRestarts  \* bound on the crashes and restarts

VARIABLES
  executed,  \* the statements that have been executed
  again,     \* history: those that were executed twice
  applied,   \* the rows of schema_migrations
  run,       \* run[r]: a replica's run
  restarts

vars == <<executed, again, applied, run, restarts>>

(* at: the next statement; known: the versions found applied               *)
Run(state, known, at) == [state |-> state, known |-> known, at |-> at]
Stopped == Run("stopped", {}, <<1, 1>>)

Init == /\ executed = {} /\ again = {} /\ applied = {}
        /\ run = [r \in Replicas |-> Stopped]
        /\ restarts = 0

First == CHOOSE v \in Versions : \A w \in Versions : v <= w
Last  == CHOOSE k \in Statements : \A j \in Statements : j <= k
Over  == Cardinality(Versions) + 1

(* What follows a statement: the next one, or the record of the version    *)
Following(at) == <<at[1], at[2] + 1>>
Recording(at) == at[2] > Last

(* The first statement of the next version that was not found applied      *)
NextVersion(v, known) ==
  <<CHOOSE w \in v..Over : w \notin known /\ \A u \in v..w - 1 : u \in known, 1>>

-----------------------------------------------------------------------------
(* RunMigrations finds what is applied once, before it starts              *)
FindsApplied(r) ==
  /\ run[r].state = "stopped"
  /\ run' = [run EXCEPT ![r] = Run("migrating", applied, NextVersion(First, applied))]
  /\ UNCHANGED <<executed, again, applied, restarts>>

(* The database refuses what is there already unless the statement asks    *)
Fails(at) == at \in Refused \/ (at \in executed /\ at \notin Guarded)

(* Mutated form: what fails is passed over                                 *)
PassesOver(r) == run' = [run EXCEPT ![r].at = Following(@)]
Ends(r)       == run' = [run EXCEPT ![r].state = "started"]

ExecutesStatement(r) ==
  LET at == run[r].at
  IN  /\ run[r].state = "migrating"
      /\ at[1] # Over /\ ~Recording(at)
      /\ IF Fails(at)
         THEN Ends(r) /\ UNCHANGED <<executed, again>>
         ELSE /\ executed' = executed \cup {at}
              /\ again' = again \cup ({at} \cap executed)
              /\ run' = [run EXCEPT ![r].at = Following(at)]
      /\ UNCHANGED <<applied, restarts>>

(* The version is the table's key: the second replica's record is refused  *)
RecordsVersion(r) ==
  /\ run[r].state = "migrating"
  /\ run[r].at[1] # Over /\ Recording(run[r].at)
  /\ LET v == run[r].at[1]
     IN  IF v \in applied
         THEN Ends(r) /\ UNCHANGED applied
         ELSE /\ applied' = applied \cup {v}
              /\ run' = [run EXCEPT ![r].at = NextVersion(v + 1, run[r].known)]
  /\ UNCHANGED <<executed, again, restarts>>

Finishes(r) ==
  /\ run[r].state = "migrating" /\ run[r].at[1] = Over
  /\ Ends(r)
  /\ UNCHANGED <<executed, again, applied, restarts>>

(* The process ends, in the midst of it or later, and is started again     *)
Restart(r) ==
  /\ run[r].state # "stopped"
  /\ restarts < MaxRestarts
  /\ run' = [run EXCEPT ![r] = Stopped]
  /\ restarts' = restarts + 1
  /\ UNCHANGED <<executed, again, applied>>

Next == \E r \in Replicas : \/ FindsApplied(r) \/ ExecutesStatement(r)
                            \/ RecordsVersion(r) \/ Finishes(r) \/ Restart(r)

Spec == Init /\ [][Next]_vars
-----------------------------------------------------------------------------
(* Properties                                                              *)

Whole(v) == \A k \in Statements : <<v, k>> \in executed

(* A version is recorded when all of it has been executed, and not before  *)
(* those before it.                                                        *)
RecordedIsDone ==
  \A v \in applied : Whole(v) /\ \A w \in Versions : w < v => w \in applied

(* Only a statement that allows it is executed twice, and only after a     *)
(* restart or beside another replica.                                      *)
RepeatedOnlyGuarded ==
  /\ again \subseteq Guarded
  /\ again # {} => restarts > 0 \/ Cardinality({r \in Replicas : run[r].state # "stopped"}) > 1

(* A replica that runs alone and is not stopped midway serves with every   *)
(* version before the first the database refuses, and with none after it.  *)
AloneGoesAsFar ==
  restarts = 0 =>
    \A r \in Replicas :
      /\ run[r].state = "started"
      /\ \A o \in Replicas \ {r} : run[o].state = "stopped"
      => \A v \in Versions :
           v \in applied <=> \A w \in Versions : w <= v => \A k \in Statements : <<w, k>> \notin Refused
=============================================================================
