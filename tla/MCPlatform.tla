------------------------------ MODULE MCPlatform ------------------------------
(* What a replica stands on, of which one is looked at in each behaviour:  *)
(* the breaker before an outside service, its own start and end, the       *)
(* migrations of its database, the copies it makes of it, and the files it *)
(* keeps.                                                                  *)
EXTENDS CircuitBreaker, FiniteSets

CONSTANTS Actors, Eager, Requests, Probes, PoolSize, MaxChanges,   \* of the server
          Versions, Statements, Guarded, Refused,                  \* of the migrations
          Replicas, MaxRestarts,
          Pages, Retained, MaxCommits, MaxCopies,                  \* of the backups
          Invoices, Expenses, Names, MaxFailures, MaxCrashes, NoRow  \* of the files

ASSUME EagerAssumption    == Eager \subseteq Actors /\ Probes \subseteq Requests
ASSUME RequestsAssumption == IsFiniteSet(Requests) /\ PoolSize \in Nat
ASSUME VersionsAssumption ==
  /\ IsFiniteSet(Versions) /\ Versions = 1..Cardinality(Versions) /\ Versions # {}
  /\ IsFiniteSet(Statements) /\ Statements = 1..Cardinality(Statements) /\ Statements # {}
ASSUME ReplicasAssumption == IsFiniteSet(Replicas) /\ Replicas # {}
ASSUME RetainedAssumption == Retained \in Nat \ {0}
ASSUME PagesAssumption    == IsFiniteSet(Pages) /\ Pages = 1..Cardinality(Pages)
ASSUME NoRowAssumption    == NoRow \notin Invoices \cup Expenses

(* Migrations of two statements: the first has one, as 001 has, that does  *)
(* not ask whether it is done, and the third one that is refused           *)
Asking   == (Versions \X Statements) \ {<<1, 2>>}
NotTaken == {<<3, 2>>}

VARIABLES
  part,                                                     \* which of the five
  phase, up, changes, database, redis, rates, lock, cron, actor, request, late,
  executed, again, applied, run, restarts,
  committed, page, mark, moving, copy, reading, torn, files, begun, ended,
  owners, disk, record, upload, taken, enforced, left, failed, crashes

S == INSTANCE Server
M == INSTANCE Migrations
B == INSTANCE Backups
F == INSTANCE Attachments WITH Requests <- Callers, req <- upload

server     == <<phase, up, changes, database, redis, rates, lock, cron, actor, request, late>>
migrations == <<executed, again, applied, run, restarts>>
backups    == <<committed, page, mark, moving, copy, reading, torn, files, begun, ended>>
attached   == <<owners, disk, record, upload, taken, enforced, left, failed, crashes>>
all        == <<part, vars, server, migrations, backups, attached>>

PlatformInit ==
  /\ Init /\ S!Init /\ M!Init /\ B!Init /\ F!Init
  /\ part \in {"breaker", "server", "migrations", "backups", "files"}
  /\ part # "server" => up = S!Services
  /\ part # "breaker" => healthy
  /\ part # "files" => ~enforced

BreakerStep    == part = "breaker" /\ UNCHANGED <<part, server, migrations, backups, attached>>
ServerStep     == part = "server" /\ UNCHANGED <<part, vars, migrations, backups, attached>>
MigrationsStep == part = "migrations" /\ UNCHANGED <<part, vars, server, backups, attached>>
BackupsStep    == part = "backups" /\ UNCHANGED <<part, vars, server, migrations, attached>>
FilesStep      == part = "files" /\ UNCHANGED <<part, vars, server, migrations, backups>>

PlatformNext ==
  \/ BreakerStep /\ Next
  \/ ServerStep /\ S!Next
  \/ MigrationsStep /\ M!Next
  \/ BackupsStep /\ B!Next
  \/ FilesStep /\ F!Next

(* Calls keep arriving and end; time passes; main does not stop of itself, *)
(* nor does a request; the pool gives its connections in the order in      *)
(* which they were asked for.                                              *)
PlatformFairness ==
  /\ WF_<<part, vars>>(BreakerStep /\ Tick)
  /\ \A c \in Callers : WF_<<part, vars>>(BreakerStep /\ Caller(c))
  /\ WF_<<part, server>>(ServerStep /\ S!Main)
  /\ \A r \in Requests :
       /\ WF_<<part, server>>(ServerStep /\ S!RequestStep(r) /\ ~S!Arrives(r))
       /\ SF_<<part, server>>(ServerStep /\ S!RequestStep(r) /\ S!Holds(r, "health"))

PlatformSpec == PlatformInit /\ [][PlatformNext]_all /\ PlatformFairness

-----------------------------------------------------------------------------
(* The server closes the database only on those whose time was up, tells   *)
(* its health as it is, and knows the bank's rates only after a start      *)
(* without them.  A version of the database is recorded when all of it was *)
(* executed and after those before it, a replica alone goes as far as the  *)
(* database lets it, and only a statement that allows it is executed       *)
(* twice.  A whole copy is of one moment unless a checkpoint was at work,  *)
(* and failed copies take the place of whole ones.  Every file recorded is *)
(* there; others are left on the disk by deletions and failures.           *)
ReplicaIsSound ==
  /\ S!ClosedOnStragglers /\ S!HealthTells /\ S!RatesComeLater
  /\ M!RecordedIsDone /\ M!RepeatedOnlyGuarded /\ M!AloneGoesAsFar
  /\ B!CopiesAreOfOneMoment /\ B!NewestAreKept
  /\ F!FilesAreKept

(* A request is answered unless it asks for a rate whose lock is lost, and *)
(* a server that is asked to stop stops.                                   *)
AnswersAndStops == S!AnswersAndStops
=============================================================================
