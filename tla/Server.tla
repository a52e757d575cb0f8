-------------------------------- MODULE Server --------------------------------
(***************************************************************************)
(* One life of a replica: how main starts it, what runs beside the          *)
(* requests, and how a signal ends it.  The bank's exchange rates are       *)
(* fetched on the way, by a service whose lock a panic does not release.    *)
(***************************************************************************)
EXTENDS Naturals, FiniteSets

CONSTANTS Actors,      \* the goroutines that main waits for
          Eager,       \* those that begin with a job
          Requests,
          Probes,      \* those that ask for the replica's health
          PoolSize,    \* connections of the pool
          MaxChanges   \* bound on what goes down or comes back

VARIABLES
  phase,     \* how far main has come
  up,        \* what answers: the key, the database, Redis, the bank
  changes,
  database,  \* whether the pool is open
  redis,     \* whether there is a client
  rates,     \* the map of rates: "nil", "stored" or "fetched"
  lock,      \* the lock of the rates: "free" or "lost"
  cron,      \* the goroutine that fetches them daily
  actor,     \* actor[a]: what a goroutine does
  request,   \* request[r]: what a request does
  late       \* whom main did not wait for to the end

vars == <<phase, up, changes, database, redis, rates, lock, cron, actor, request, late>>

Services == {"key", "database", "redis", "bank"}
Alive    == phase \notin {"failed", "exited"}

(* The checkers of the breakers and of the disk are always healthy         *)
Checkers == {"database"} \cup (IF redis THEN {"redis"} ELSE {})

(* left: the checks a health request has still to make; status: what they  *)
(* came to; met: what was up, down or in use on the way                    *)
Idle == [is |-> "idle", kind |-> "none", left |-> {}, status |-> "healthy", met |-> {}]

Init == /\ phase = "configuring"
        /\ \E down \in SUBSET Services : Cardinality(down) <= 1 /\ up = Services \ down
        /\ changes = 0
        /\ database = "closed" /\ redis = FALSE
        /\ rates = "nil" /\ lock = "free" /\ cron = "none"
        /\ actor = [a \in Actors |-> "none"]
        /\ request = [r \in Requests |-> Idle]
        /\ late = {}

Has(s)       == s \in up
Open(r)      == request[r].is = "open"
Holds(r, kind) == Open(r) /\ request[r].kind = kind
Full(reqs)   == Cardinality({r \in Requests : reqs[r].is = "open" /\ reqs[r].kind = "transaction"})
                  >= PoolSize
PoolIsFull   == Full(request)
TellsToStop  == phase \in {"closing", "waiting", "exiting"}

(* What the checks that are under way meet                                 *)
Meeting(reqs, services) ==
  LET seen == {<<s, s \in services>> : s \in {"database", "redis"}}
                \cup (IF Full(reqs) THEN {<<"pool", FALSE>>} ELSE {})
  IN  [r \in Requests |-> IF reqs[r].is = "open" /\ reqs[r].kind \in {"health", "ready"}
                          THEN [reqs[r] EXCEPT !.met = @ \cup seen] ELSE reqs[r]]

-----------------------------------------------------------------------------
(* main, until it serves.  Fatal ends the process at once, and so does a   *)
(* signal as long as nobody asked for it.                                  *)

Enter(next) == phase' = next
Fatal       == phase' = "failed" /\ database' = "closed"

Configure ==
  /\ phase = "configuring"
  /\ IF Has("key") THEN Enter("connecting") /\ UNCHANGED database ELSE Fatal
  /\ UNCHANGED <<up, changes, redis, rates, lock, cron, actor, request, late>>

OpenDatabase ==
  /\ phase = "connecting"
  /\ IF Has("database") THEN Enter("caching") /\ database' = "open" ELSE Fatal
  /\ UNCHANGED <<up, changes, redis, rates, lock, cron, actor, request, late>>

(* Without Redis the replica goes on                                       *)
ConnectRedis ==
  /\ phase = "caching"
  /\ Enter("migrating")
  /\ redis' = Has("redis")
  /\ UNCHANGED <<up, changes, database, rates, lock, cron, actor, request, late>>

Migrate ==
  /\ phase = "migrating"
  /\ IF Has("database") THEN Enter("fetching") /\ UNCHANGED database ELSE Fatal
  /\ UNCHANGED <<up, changes, redis, rates, lock, cron, actor, request, late>>

(* The map is made only where the bank does not answer: a rate it gives    *)
(* is stored in no map, and main panics                                    *)
FetchRates ==
  /\ phase = "fetching"
  /\ \/ /\ ~Has("bank")
        /\ Enter("starting") /\ rates' = "stored"
        /\ UNCHANGED database
     \/ /\ Has("bank")
        /\ Enter("starting")       \* none of the three currencies
        /\ UNCHANGED <<rates, database>>
     \/ /\ Has("bank")
        /\ Fatal
        /\ UNCHANGED rates
  /\ UNCHANGED <<up, changes, redis, lock, cron, actor, request, late>>

StartActors ==
  /\ phase = "starting"
  /\ Enter("listening")
  /\ cron' = "waiting"
  /\ actor' = [a \in Actors |-> IF a \in Eager THEN "working" ELSE "waiting"]
  /\ UNCHANGED <<up, changes, database, redis, rates, lock, request, late>>

Listen ==
  /\ phase = "listening"
  /\ Enter("serving")
  /\ UNCHANGED <<up, changes, database, redis, rates, lock, cron, actor, request, late>>

Killed ==
  /\ Alive /\ ~TellsToStop /\ phase # "serving"
  /\ Fatal
  /\ UNCHANGED <<up, changes, redis, rates, lock, cron, actor, request, late>>

-----------------------------------------------------------------------------
(* The goroutines                                                          *)

Ticks(a) == /\ actor[a] = "waiting"
            /\ actor' = [actor EXCEPT ![a] = "working"]

Works(a) == /\ actor[a] = "working"
            /\ actor' = [actor EXCEPT ![a] = "waiting"]

(* It is recovered, and not started again *)
Panics(a) == /\ actor[a] = "working"
             /\ actor' = [actor EXCEPT ![a] = "dead"]

SeesStop(a) == /\ actor[a] = "waiting" /\ TellsToStop
               /\ actor' = [actor EXCEPT ![a] = "stopped"]

ActorStep(a) ==
  /\ Alive
  /\ Ticks(a) \/ Works(a) \/ Panics(a) \/ SeesStop(a)
  /\ UNCHANGED <<phase, up, changes, database, redis, rates, lock, cron, request, late>>

(* The daily fetch; the lock is released after the loop, not by a defer    *)
FetchesDaily ==
  /\ Alive /\ cron = "waiting"
  /\ Has("bank")
  /\ IF rates = "nil"
     THEN cron' = "dead" /\ lock' = "lost" /\ UNCHANGED rates
     ELSE rates' = "fetched" /\ UNCHANGED <<lock, cron>>
  /\ UNCHANGED <<phase, up, changes, database, redis, actor, request, late>>

-----------------------------------------------------------------------------
(* Requests                                                                *)

Arrives(r) ==
  /\ phase = "serving"
  /\ request[r] = Idle
  /\ \E kind \in IF r \in Probes THEN {"health", "ready"} ELSE {"transaction", "rate"} :
       /\ kind = "transaction" => ~PoolIsFull
       /\ request' = Meeting([request EXCEPT ![r] =
            [Idle EXCEPT !.is = "open", !.kind = kind,
                         !.left = IF kind = "health" THEN Checkers ELSE {}]], up)

Answers(r, status) ==
  request' = [request EXCEPT ![r].is = "answered", ![r].status = status]

Commits(r) == Holds(r, "transaction") /\ request' = [request EXCEPT ![r] = Idle]

(* GetRate                                                                 *)
GetsRate(r) == /\ Holds(r, "rate") /\ lock = "free"
               /\ request' = [request EXCEPT ![r] = Idle]

(* CheckAll, one checker after the other.  A ping waits for a connection;  *)
(* only the end of the server, not the timeout, ends a check that hangs.   *)
Status(c) ==
  IF ~Has(c) THEN {"unhealthy"}
  ELSE IF c = "database" /\ database = "closed" THEN {"unhealthy"}
  ELSE IF c = "database" /\ PoolIsFull THEN {}
  ELSE {"healthy"}

Worse(one, other) == IF "unhealthy" \in {one, other} THEN "unhealthy" ELSE "healthy"

Checks(r) ==
  \E c \in request[r].left :
    /\ Holds(r, "health")
    /\ \E status \in Status(c) \cup (IF TellsToStop THEN {"unhealthy"} ELSE {}) :
         request' = [request EXCEPT ![r].left = @ \ {c}, ![r].status = Worse(@, status)]

Reports(r) == /\ Holds(r, "health") /\ request[r].left = {}
              /\ Answers(r, request[r].status)

(* The readiness check gives up after three seconds                        *)
PingsReady(r) ==
  /\ Holds(r, "ready")
  /\ \/ Has("database") /\ ~PoolIsFull /\ database = "open" /\ Answers(r, "healthy")
     \/ (~Has("database") \/ PoolIsFull \/ database = "closed") /\ Answers(r, "unhealthy")

RequestStep(r) ==
  /\ Alive
  /\ Arrives(r) \/ Commits(r) \/ GetsRate(r) \/ Checks(r) \/ Reports(r) \/ PingsReady(r)
  /\ UNCHANGED <<phase, up, changes, database, redis, rates, lock, cron, actor, late>>

(* The caller has its answer                                               *)
Leaves(r) ==
  /\ request[r].is = "answered"
  /\ request' = [request EXCEPT ![r] = Idle]
  /\ UNCHANGED <<phase, up, changes, database, redis, rates, lock, cron, actor, late>>

-----------------------------------------------------------------------------
(* The end                                                                 *)

Signal ==
  /\ phase = "serving"
  /\ Enter("closing")
  /\ UNCHANGED <<up, changes, database, redis, rates, lock, cron, actor, request, late>>

(* ShutdownWithTimeout; then the services are told to stop                 *)
ShutsDown ==
  /\ phase = "closing"
  /\ Enter("waiting")
  /\ late' = IF \E r \in Requests : Open(r) THEN late \cup {"requests"} ELSE late
  /\ cron' = IF cron = "waiting" THEN "stopped" ELSE cron
  /\ UNCHANGED <<up, changes, database, redis, rates, lock, actor, request>>

(* The wait for the goroutines, with its timeout.  Mutated forms: only one *)
(* that is at work is waited for; there is no timeout.                     *)
GoneOrIdle(a) == actor[a] # "working"
Gone(a)       == actor[a] \in {"stopped", "dead"}

WaitsForAll ==
  /\ phase = "waiting"
  /\ \A a \in Actors : Gone(a)
  /\ Enter("exiting")
  /\ UNCHANGED <<up, changes, database, redis, rates, lock, cron, actor, request, late>>

WaitsForActors ==
  /\ phase = "waiting"
  /\ Enter("exiting")
  /\ late' = IF \A a \in Actors : Gone(a) THEN late ELSE late \cup {"goroutines"}
  /\ UNCHANGED <<up, changes, database, redis, rates, lock, cron, actor, request>>

(* The deferred calls                                                      *)
ClosesDatabase ==
  /\ phase = "exiting" /\ database = "open"
  /\ database' = "closed"
  /\ UNCHANGED <<phase, up, changes, redis, rates, lock, cron, actor, request, late>>

Exits ==
  /\ phase = "exiting" /\ database = "closed"
  /\ Enter("exited")
  /\ request' = [r \in Requests |-> Idle]
  /\ actor' = [a \in Actors |-> "none"]
  /\ UNCHANGED <<up, changes, database, redis, rates, lock, cron, late>>

(* A service goes down or comes back                                       *)
Changes ==
  /\ Alive /\ changes < MaxChanges
  /\ \E s \in Services \ {"key"} : up' = IF s \in up THEN up \ {s} ELSE up \cup {s}
  /\ changes' = changes + 1
  /\ request' = Meeting(request, up')
  /\ UNCHANGED <<phase, database, redis, rates, lock, cron, actor, late>>

Main == \/ Configure \/ OpenDatabase \/ ConnectRedis \/ Migrate \/ FetchRates \/ StartActors
        \/ Listen \/ ShutsDown \/ WaitsForActors \/ ClosesDatabase \/ Exits

Next == Main \/ Killed \/ Signal \/ Changes \/ FetchesDaily
          \/ (\E a \in Actors : ActorStep(a)) \/ (\E r \in Requests : RequestStep(r) \/ Leaves(r))

-----------------------------------------------------------------------------
(* Properties                                                              *)

(* The database is closed on nobody but those whose time was up.           *)
ClosedOnStragglers ==
  phase = "exiting" /\ database = "closed" =>
    /\ \A a \in Actors : actor[a] = "working" => "goroutines" \in late
    /\ \A r \in Requests : Open(r) => "requests" \in late

(* The lock of the rates is lost only if the bank answered at the start    *)
(* with none of the three currencies, and while it is not, no rate of the  *)
(* bank is known that was not fetched after the server had begun without.  *)
RatesComeLater ==
  /\ lock = "lost" => rates = "nil" /\ cron = "dead"
  /\ rates = "fetched" => cron # "none"

(* A health report is good only if what it is about answered meanwhile,    *)
(* and bad only if something did not, the connections were all in use as a *)
(* readiness check asked for one, or the server is about to end.           *)
HealthTells ==
  \A r \in Requests :
    request[r].is = "answered" =>
      LET met == request[r].met
          asked == IF request[r].kind = "health" THEN Checkers ELSE {"database"}
      IN  IF request[r].status = "healthy"
          THEN \A s \in asked : <<s, TRUE>> \in met
          ELSE \/ \E s \in asked : <<s, FALSE>> \in met
               \/ request[r].kind = "ready" /\ <<"pool", FALSE>> \in met
               \/ TellsToStop

(* A request is answered, unless it asks for a rate whose lock is lost; and *)
(* a server that is asked to stop stops, whoever is still at work.         *)
AnswersAndStops ==
  /\ \A r \in Requests : Open(r) ~> ~Open(r) \/ lock = "lost"
  /\ phase = "closing" ~> phase = "exited"
=============================================================================
