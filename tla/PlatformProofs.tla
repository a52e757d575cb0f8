---------------------------- MODULE PlatformProofs ----------------------------
(***************************************************************************)
(* What a replica stands on.  The circuit breaker's invariants hold for    *)
(* any number of callers, any thresholds and any timeout.  BelowThresholds *)
(* is inductive only together with the types, and ProbesAllSucceeded only  *)
(* together with both.                                                     *)
(***************************************************************************)
EXTENDS MCPlatform, FiniteSetTheorems, FunctionTheorems, WellFoundedInduction, TLAPS

USE FailureThresholdAssumption, SuccessThresholdAssumption,
    RecoveryTimeoutAssumption

(* Saturated counting stays within the limit, and counts up to it. *)
LEMMA SaturateLemma ==
  ASSUME NEW limit \in Nat, NEW n \in 0..limit
  PROVE  /\ Saturate(n + 1, limit) \in 0..limit
         /\ n < limit => Saturate(n + 1, limit) = n + 1
BY DEF Saturate

(* Remembering an outcome keeps the probes a sequence of outcomes. *)
LEMMA RememberType ==
  ASSUME NEW outcome \in {"success", "failure"},
         probes \in Seq({"success", "failure"})
  PROVE  Remember(outcome) \in Seq({"success", "failure"})
BY DEF Remember

(* The breaker and its callers keep their types, whatever calls report. *)
THEOREM TypeCorrect == Spec => []TypeOK
<1>1. Init => TypeOK
  BY DEF Init, TypeOK, States, PCs
<1>2. TypeOK /\ [Next]_vars => TypeOK'
  <2> SUFFICES ASSUME TypeOK, [Next]_vars PROVE TypeOK'
    OBVIOUS
  <2> USE DEF TypeOK, States, PCs, Goto
  <2>1. ASSUME NEW c \in Callers, ReadState(c) PROVE TypeOK'
    BY <2>1 DEF ReadState, breakerVars
  <2>2. ASSUME NEW c \in Callers, ReadLastFail(c) PROVE TypeOK'
    BY <2>2 DEF ReadLastFail, breakerVars
  <2>3. ASSUME NEW c \in Callers, TryHalfOpen(c) PROVE TypeOK'
    <3>1. <<>> \in Seq({"success", "failure"}) /\ 0 \in 0..SuccessThreshold
      OBVIOUS
    <3>2. CASE state = "open"
      BY <2>3, <3>1, <3>2 DEF TryHalfOpen, OnHalfOpen
    <3>3. CASE state # "open"
      BY <2>3, <3>3 DEF TryHalfOpen, breakerVars
    <3> QED BY <3>2, <3>3
  <2>4. ASSUME NEW c \in Callers, RecordFailure(c) PROVE TypeOK'
    <3>1. failures' \in 0..FailureThreshold
      BY <2>4, SaturateLemma DEF RecordFailure
    <3>2. probes' \in Seq({"success", "failure"})
      BY <2>4, RememberType DEF RecordFailure
    <3> QED BY <2>4, <3>1, <3>2 DEF RecordFailure
  <2>5. ASSUME NEW c \in Callers, RecordSuccess(c) PROVE TypeOK'
    <3>1. successes' \in 0..SuccessThreshold
      BY <2>5, SaturateLemma DEF RecordSuccess
    <3>2. probes' \in Seq({"success", "failure"})
      BY <2>5, RememberType DEF RecordSuccess
    <3> QED BY <2>5, <3>1, <3>2 DEF RecordSuccess
  <2>6. CASE Reset
    BY <2>6 DEF Reset
  <2>7. CASE Tick
    BY <2>7 DEF Tick
  <2>8. CASE ServiceChanges
    BY <2>8 DEF ServiceChanges, breakerVars
  <2>9. CASE UNCHANGED vars
    BY <2>9 DEF vars, breakerVars
  <2> QED
    BY <2>1, <2>2, <2>3, <2>4, <2>5, <2>6, <2>7, <2>8, <2>9 DEF Next, Caller
<1> QED
  BY <1>1, <1>2, PTL DEF Spec

(* No interleaving of late and early reports makes the breaker let calls   *)
(* through with a threshold already reached.                               *)
THEOREM ThresholdsHeeded == Spec => []BelowThresholds
<1>1. Init => BelowThresholds
  BY DEF Init, BelowThresholds
<1>2. TypeOK /\ BelowThresholds /\ [Next]_vars => BelowThresholds'
  <2> SUFFICES ASSUME TypeOK, BelowThresholds, [Next]_vars
               PROVE  BelowThresholds'
    OBVIOUS
  <2> USE DEF TypeOK, States, BelowThresholds
  <2>1. ASSUME NEW c \in Callers, ReadState(c) PROVE BelowThresholds'
    BY <2>1 DEF ReadState, breakerVars
  <2>2. ASSUME NEW c \in Callers, ReadLastFail(c) PROVE BelowThresholds'
    BY <2>2 DEF ReadLastFail, breakerVars
  <2>3. ASSUME NEW c \in Callers, TryHalfOpen(c) PROVE BelowThresholds'
    BY <2>3 DEF TryHalfOpen, breakerVars, OnHalfOpen
  <2>4. ASSUME NEW c \in Callers, RecordFailure(c) PROVE BelowThresholds'
    BY <2>4, SaturateLemma DEF RecordFailure, Trips
  <2>5. ASSUME NEW c \in Callers, RecordSuccess(c) PROVE BelowThresholds'
    BY <2>5, SaturateLemma DEF RecordSuccess, Closes
  <2>6. CASE Reset
    BY <2>6 DEF Reset
  <2>7. CASE Tick
    BY <2>7 DEF Tick
  <2>8. CASE ServiceChanges
    BY <2>8 DEF ServiceChanges, breakerVars
  <2>9. CASE UNCHANGED vars
    BY <2>9 DEF vars, breakerVars
  <2> QED
    BY <2>1, <2>2, <2>3, <2>4, <2>5, <2>6, <2>7, <2>8, <2>9 DEF Next, Caller
<1> QED
  BY <1>1, <1>2, TypeCorrect, PTL DEF Spec

(* The successes counted since the breaker half-opened are exactly the     *)
(* outcomes recorded since: no failure and no earlier success among them.  *)
THEOREM ProbesCounted == Spec => []ProbesAllSucceeded
<1>1. Init => ProbesAllSucceeded
  BY DEF Init, ProbesAllSucceeded
<1>2. TypeOK /\ BelowThresholds /\ ProbesAllSucceeded /\ [Next]_vars
        => ProbesAllSucceeded'
  <2> SUFFICES ASSUME TypeOK, BelowThresholds, ProbesAllSucceeded, [Next]_vars
               PROVE  ProbesAllSucceeded'
    OBVIOUS
  <2> USE DEF TypeOK, States, ProbesAllSucceeded
  <2>1. ASSUME NEW c \in Callers, ReadState(c) PROVE ProbesAllSucceeded'
    BY <2>1 DEF ReadState, breakerVars
  <2>2. ASSUME NEW c \in Callers, ReadLastFail(c) PROVE ProbesAllSucceeded'
    BY <2>2 DEF ReadLastFail, breakerVars
  <2>3. ASSUME NEW c \in Callers, TryHalfOpen(c) PROVE ProbesAllSucceeded'
    BY <2>3 DEF TryHalfOpen, breakerVars, OnHalfOpen
  <2>4. ASSUME NEW c \in Callers, RecordFailure(c) PROVE ProbesAllSucceeded'
    BY <2>4 DEF RecordFailure
  <2>5. ASSUME NEW c \in Callers, RecordSuccess(c) PROVE ProbesAllSucceeded'
    <3> SUFFICES ASSUME state' = "half-open"
                 PROVE  /\ Len(probes') = successes'
                        /\ \A i \in 1..Len(probes') : probes'[i] = "success"
      OBVIOUS
    <3>1. state = "half-open" /\ successes < SuccessThreshold
      BY <2>5 DEF RecordSuccess, BelowThresholds
    <3>2. successes' = successes + 1
      BY <2>5, <3>1, SaturateLemma DEF RecordSuccess
    <3>3. probes' = Append(probes, "success")
      BY <2>5, <3>1 DEF RecordSuccess, Remember
    <3> QED BY <3>1, <3>2, <3>3
  <2>6. CASE Reset
    BY <2>6 DEF Reset
  <2>7. CASE Tick
    BY <2>7 DEF Tick
  <2>8. CASE ServiceChanges
    BY <2>8 DEF ServiceChanges, breakerVars
  <2>9. CASE UNCHANGED vars
    BY <2>9 DEF vars, breakerVars
  <2> QED
    BY <2>1, <2>2, <2>3, <2>4, <2>5, <2>6, <2>7, <2>8, <2>9 DEF Next, Caller
<1> QED
  BY <1>1, <1>2, TypeCorrect, ThresholdsHeeded, PTL DEF Spec

(* An open breaker closes by Reset only; a half-open one by Reset or by    *)
(* the report that completes SuccessThreshold successes.                   *)
THEOREM ClosingIsEarned == Spec => ClosesOnlyOnEvidence
<1> DEFINE Earned == state # "closed" /\ state' = "closed" =>
                       \/ failures' = 0 /\ successes' = 0 /\ pc' = pc
                       \/ /\ state = "half-open"
                          /\ probes' = [i \in 1..SuccessThreshold |-> "success"]
<1>1. TypeOK /\ BelowThresholds /\ ProbesAllSucceeded /\ [Next]_vars
        => [Earned]_vars
  <2> SUFFICES ASSUME TypeOK, BelowThresholds, ProbesAllSucceeded, Next,
                      state # "closed", state' = "closed"
               PROVE  \/ failures' = 0 /\ successes' = 0 /\ pc' = pc
                      \/ /\ state = "half-open"
                         /\ probes' = [i \in 1..SuccessThreshold |-> "success"]
    OBVIOUS
  <2> USE DEF TypeOK, States, ProbesAllSucceeded
  <2>1. CASE Reset
    BY <2>1 DEF Reset
  <2>2. ASSUME NEW c \in Callers, RecordSuccess(c)
        PROVE  /\ state = "half-open"
               /\ probes' = [i \in 1..SuccessThreshold |-> "success"]
    <3>1. state = "half-open" /\ successes + 1 = SuccessThreshold
      BY <2>2 DEF RecordSuccess, Closes, BelowThresholds
    <3>2. probes' = Append(probes, "success")
      BY <2>2, <3>1 DEF RecordSuccess, Remember
    <3>3. /\ Len(probes') = SuccessThreshold
          /\ \A i \in 1..SuccessThreshold : probes'[i] = "success"
      BY <3>1, <3>2
    <3>4. probes' \in Seq({"success", "failure"})
      BY <3>2
    <3> QED BY <3>1, <3>3, <3>4
  <2>3. ~Tick /\ ~ServiceChanges
    BY DEF Tick, ServiceChanges, breakerVars
  <2>4. ASSUME NEW c \in Callers
        PROVE  ~(ReadState(c) \/ ReadLastFail(c) \/ TryHalfOpen(c) \/ RecordFailure(c))
    BY DEF ReadState, ReadLastFail, TryHalfOpen, RecordFailure, breakerVars
  <2> QED
    BY <2>1, <2>2, <2>3, <2>4 DEF Next, Caller
<1> QED
  BY <1>1, TypeCorrect, ThresholdsHeeded, ProbesCounted, PTL
  DEF Spec, ClosesOnlyOnEvidence

-----------------------------------------------------------------------------
(* Migrations.  A replica that migrates has gone past versions that are     *)
(* recorded and past statements that are executed; one that never had       *)
(* company has executed and recorded what lies behind it and nothing else.  *)
LEMMA LeastNumber ==
  ASSUME NEW X, X \subseteq Nat, X # {}
  PROVE  \E x \in X : \A y \in X : x <= y
<1>1. PICK less : less = OpToRel(<, Nat)
  OBVIOUS
<1>2. IsWellFoundedOn(less, Nat)
  BY <1>1, NatLessThanWellFounded
<1>3. PICK x \in X : \A y \in X : ~(<<y, x>> \in less)
  BY <1>2, WFMin
<1>4. \A y \in X : y < x => <<y, x>> \in less
  BY <1>1 DEF OpToRel
<1>5. \A y \in X : ~(y < x)
  BY <1>3, <1>4, Zenon
<1>6. \A y, z \in Nat : ~(z < y) => y <= z
  OBVIOUS
<1> QED BY <1>5, <1>6, Zenon

LEMMA EndsOfMigrations ==
  /\ M!First = 1 /\ M!Over \in Nat \ {0} /\ Versions = 1..(M!Over - 1)
  /\ M!Last \in Nat \ {0} /\ Statements = 1..M!Last
<1>1. M!Cardinality(Versions) = Cardinality(Versions)
  BY DEF M!Cardinality, Cardinality
<1>2. Cardinality(Versions) \in Nat /\ Cardinality(Statements) \in Nat
  BY VersionsAssumption, FS_CardinalityType
<1>3. PICK vs, ss : vs = Cardinality(Versions) /\ ss = Cardinality(Statements)
  OBVIOUS
<1>4. vs \in Nat /\ ss \in Nat /\ Versions = 1..vs /\ Statements = 1..ss /\ vs # 0 /\ ss # 0
  BY <1>2, <1>3, VersionsAssumption
<1>5. M!Over = vs + 1
  BY <1>1, <1>3 DEF M!Over
<1>6. M!First = 1
  BY <1>4 DEF M!First
<1>7. M!Last = ss
  BY <1>4 DEF M!Last
<1> QED BY <1>4, <1>5, <1>6, <1>7

LEMMA NextVersionLemma ==
  ASSUME NEW v \in 1..M!Over, NEW known, known \subseteq Versions
  PROVE  \E w \in v..M!Over : /\ M!NextVersion(v, known) = <<w, 1>>
                             /\ w \notin known /\ \A u \in v..(w - 1) : u \in known
<1>1. M!Over \in Nat /\ M!Over \notin known
  BY EndsOfMigrations
<1>2. PICK over : over = M!Over
  OBVIOUS
<1>3. {w \in v..over : w \notin known} \subseteq Nat /\ over \in {w \in v..over : w \notin known}
  BY <1>1, <1>2
<1>4. PICK w \in {w \in v..over : w \notin known} :
        \A y \in {z \in v..over : z \notin known} : w <= y
  BY <1>3, LeastNumber
<1>5. \A u \in v..(w - 1) : u \in known
  BY <1>1, <1>2, <1>4
<1>6. \E y \in v..over : y \notin known /\ \A u \in v..y - 1 : u \in known
  BY <1>4, <1>5
<1>7. PICK y : y = CHOOSE z \in v..over : z \notin known /\ \A u \in v..z - 1 : u \in known
  OBVIOUS
<1>8. y \in v..over /\ y \notin known /\ \A u \in v..y - 1 : u \in known
  BY <1>6, <1>7, Zenon
<1>9. M!NextVersion(v, known) = <<y, 1>>
  BY <1>2, <1>7 DEF M!NextVersion
<1> QED BY <1>2, <1>8, <1>9

Behind(v, k) == /\ \A u \in Versions : u < v => u \in applied
                /\ \A j \in 1..(k - 1) : <<v, j>> \in executed

Running(x) ==
  /\ x.state \in {"stopped", "migrating", "started"}
  /\ x = M!Run(x.state, x.known, x.at)
  /\ x.known \subseteq applied
  /\ x.state # "stopped" =>
       \E v \in 1..M!Over, k \in 1..(M!Last + 1) : x.at = <<v, k>> /\ Behind(v, k)

Exactly(v, k) ==
  /\ again = {}
  /\ applied = {u \in Versions : u < v}
  /\ executed = {x \in Versions \X Statements : x[1] < v \/ (x[1] = v /\ x[2] < k)}

Alone(x) ==
  /\ x.state = "stopped" => executed = {} /\ applied = {} /\ again = {}
  /\ x.state # "stopped" =>
       /\ x.known = {}
       /\ \E v \in 1..M!Over, k \in 1..(M!Last + 1) :
            /\ x.at = <<v, k>> /\ Exactly(v, k)
            /\ x.state = "started" => v = M!Over \/ (<<v, k>> \in Refused /\ k \in Statements)

Migrated ==
  /\ executed \subseteq (Versions \X Statements) \ Refused
  /\ again \subseteq Guarded
  /\ applied \subseteq Versions
  /\ restarts \in Nat
  /\ run = [r \in Replicas |-> run[r]]
  /\ \A r \in Replicas : Running(run[r])
  /\ \A v \in applied : M!Whole(v) /\ \A w \in Versions : w < v => w \in applied
  /\ restarts = 0 =>
       \A r \in Replicas : (\A o \in Replicas \ {r} : run[o].state = "stopped") => Alone(run[r])

LEMMA MigratedStarts == ASSUME M!Init PROVE Migrated
<1>1. ASSUME NEW r \in Replicas
      PROVE  Running(run[r]) /\ Alone(run[r])
  <2>1. run[r] = M!Run("stopped", {}, <<1, 1>>)
    BY DEF M!Init, M!Stopped
  <2>2. PICK x : x = run[r]
    OBVIOUS
  <2>3. x.state = "stopped" /\ x.known = {} /\ x = M!Run(x.state, x.known, x.at)
    BY <2>1, <2>2 DEF M!Run
  <2> QED BY <2>2, <2>3 DEF Running, Alone, M!Init
<1> QED BY <1>1 DEF Migrated, M!Init

(* The replica r goes on to y.  What was executed and recorded stays. *)
LEMMA RunGoesOn ==
  ASSUME Migrated, NEW r \in Replicas, NEW y, run' = [run EXCEPT ![r] = y],
         executed \subseteq executed', applied \subseteq applied',
         executed' \subseteq (Versions \X Statements) \ Refused,
         again' \subseteq Guarded, applied' \subseteq Versions, restarts' = restarts,
         Running(y)', y.state # "stopped",
         \A v \in applied' : M!Whole(v)' /\ \A w \in Versions : w < v => w \in applied',
         (restarts = 0 /\ \A o \in Replicas \ {r} : run[o].state = "stopped") => Alone(y)'
  PROVE  Migrated'
<1>1. run' = [q \in Replicas |-> run'[q]]
      /\ \A q \in Replicas : run'[q] = IF q = r THEN y ELSE run[q]
  BY DEF Migrated
<1>2. ASSUME NEW q \in Replicas PROVE Running(run[q])'
  <2>1. CASE q = r
    BY <1>1, <2>1 DEF Running
  <2>2. CASE q # r
    <3>1. PICK x : x = run[q]
      OBVIOUS
    <3>2. run'[q] = x /\ Running(x)
      BY <1>1, <2>2, <3>1 DEF Migrated
    <3>3. \A v \in 1..M!Over, k \in 1..(M!Last + 1) : Behind(v, k) => Behind(v, k)'
      BY DEF Behind
    <3> QED BY <3>2, <3>3 DEF Running
  <2> QED BY <2>1, <2>2
<1>3. ASSUME restarts = 0, NEW q \in Replicas, \A o \in Replicas \ {q} : run'[o].state = "stopped"
      PROVE  Alone(run[q])'
  <2>1. q = r
    BY <1>1, <1>3
  <2>2. \A o \in Replicas \ {r} : run[o].state = "stopped"
    BY <1>1, <1>3, <2>1
  <2>3. Alone(y)' /\ run'[q] = y
    BY <1>1, <1>3, <2>1, <2>2
  <2> QED BY <2>3 DEF Alone
<1> QED BY <1>1, <1>2, <1>3 DEF Migrated

(* Nothing is executed or recorded. *)
LEMMA OnlyRuns ==
  ASSUME Migrated, NEW r \in Replicas, NEW y, run' = [run EXCEPT ![r] = y],
         UNCHANGED <<executed, again, applied, restarts>>,
         Running(y), y.state # "stopped",
         (restarts = 0 /\ \A o \in Replicas \ {r} : run[o].state = "stopped") => Alone(y)
  PROVE  Migrated'
<1>1. Running(y)'
  BY DEF Running, Behind
<1>2. Alone(y) => Alone(y)'
  BY DEF Alone, Exactly
<1>3. \A v \in applied' : M!Whole(v)' /\ \A w \in Versions : w < v => w \in applied'
  BY DEF Migrated, M!Whole
<1> QED BY <1>1, <1>2, <1>3, RunGoesOn DEF Migrated

LEMMA FindsMigrates == ASSUME Migrated, NEW r \in Replicas, M!FindsApplied(r) PROVE Migrated'
<1>1. PICK w \in 1..M!Over : /\ M!NextVersion(1, applied) = <<w, 1>>
                            /\ w \notin applied /\ \A u \in 1..(w - 1) : u \in applied
  BY NextVersionLemma, EndsOfMigrations DEF Migrated
<1>2. PICK y : y = M!Run("migrating", applied, <<w, 1>>)
  OBVIOUS
<1>3. run' = [run EXCEPT ![r] = y] /\ run[r].state = "stopped"
      /\ UNCHANGED <<executed, again, applied, restarts>>
  BY <1>1, <1>2, EndsOfMigrations DEF M!FindsApplied
<1>4. y.state = "migrating" /\ y.known = applied /\ y.at = <<w, 1>>
      /\ y = M!Run(y.state, y.known, y.at)
  BY <1>2 DEF M!Run
<1>5. Behind(w, 1)
  BY <1>1, EndsOfMigrations DEF Behind
<1>6. Running(y)
  BY <1>4, <1>5, EndsOfMigrations DEF Running
<1>7. ASSUME restarts = 0, \A o \in Replicas \ {r} : run[o].state = "stopped"
      PROVE  Alone(y)
  <2>1. Alone(run[r])
    BY <1>7 DEF Migrated
  <2>2. executed = {} /\ applied = {} /\ again = {}
    BY <1>3, <2>1 DEF Alone
  <2>3. w = 1
    BY <1>1, <2>2, EndsOfMigrations
  <2>4. Exactly(1, 1)
    BY <2>2, EndsOfMigrations DEF Exactly
  <2> QED BY <1>4, <2>2, <2>3, <2>4, EndsOfMigrations DEF Alone
<1> QED BY <1>3, <1>4, <1>6, <1>7, OnlyRuns

(* What a replica that migrates has come to *)
LEMMA WhereItIs ==
  ASSUME Migrated, NEW r \in Replicas, run[r].state = "migrating"
  PROVE  \E v \in 1..M!Over, k \in 1..(M!Last + 1), known \in SUBSET applied :
           /\ run[r] = M!Run("migrating", known, <<v, k>>) /\ Behind(v, k)
           /\ (restarts = 0 /\ \A o \in Replicas \ {r} : run[o].state = "stopped") =>
                known = {} /\ Exactly(v, k)
<1>1. PICK x : x = run[r]
  OBVIOUS
<1>2. Running(x) /\ x.state = "migrating"
  BY <1>1 DEF Migrated
<1>3. (restarts = 0 /\ \A o \in Replicas \ {r} : run[o].state = "stopped") => Alone(x)
  BY <1>1 DEF Migrated
<1>4. PICK v \in 1..M!Over, k \in 1..(M!Last + 1) : x.at = <<v, k>> /\ Behind(v, k)
  BY <1>2 DEF Running
<1>5. x.known \in SUBSET applied /\ x = M!Run("migrating", x.known, <<v, k>>)
  BY <1>2, <1>4 DEF Running
<1>6. Alone(x) => x.known = {} /\ Exactly(v, k)
  <2> SUFFICES ASSUME Alone(x) PROVE x.known = {} /\ Exactly(v, k)
    OBVIOUS
  <2>1. PICK w \in 1..M!Over, j \in 1..(M!Last + 1) : x.at = <<w, j>> /\ Exactly(w, j)
    BY <1>2 DEF Alone
  <2>2. w = v /\ j = k
    BY <1>4, <2>1
  <2> QED BY <1>2, <2>1, <2>2 DEF Alone
<1> QED BY <1>1, <1>3, <1>4, <1>5, <1>6

(* A run that ends, at the end or where the database refuses *)
LEMMA EndsMigrates ==
  ASSUME Migrated, NEW r \in Replicas, run[r].state = "migrating", M!Ends(r),
         UNCHANGED <<executed, again, applied, restarts>>,
         \/ run[r].at[1] = M!Over
         \/ run[r].at \in Refused /\ run[r].at[2] \in Statements
         \/ run[r].at \in executed
         \/ run[r].at[1] \in applied
  PROVE  Migrated'
<1>1. PICK v \in 1..M!Over, k \in 1..(M!Last + 1), known \in SUBSET applied :
        /\ run[r] = M!Run("migrating", known, <<v, k>>) /\ Behind(v, k)
        /\ (restarts = 0 /\ \A o \in Replicas \ {r} : run[o].state = "stopped") =>
             known = {} /\ Exactly(v, k)
  BY WhereItIs
<1>2. PICK y : y = M!Run("started", known, <<v, k>>)
  OBVIOUS
<1>3. run' = [run EXCEPT ![r] = y]
  <2>1. [M!Run("migrating", known, <<v, k>>) EXCEPT !.state = "started"] = y
    BY <1>2 DEF M!Run
  <2> QED BY <1>1, <2>1 DEF M!Ends
<1>4. y.state = "started" /\ y.known = known /\ y.at = <<v, k>> /\ y = M!Run(y.state, y.known, y.at)
  BY <1>2 DEF M!Run
<1>5. Running(y)
  BY <1>1, <1>4 DEF Running
<1>6. ASSUME known = {} /\ Exactly(v, k) PROVE Alone(y)
  <2>1. run[r].at = <<v, k>>
    BY <1>1 DEF M!Run
  <2>2. <<v, k>> \notin executed /\ v \notin applied
    BY <1>6, EndsOfMigrations DEF Exactly
  <2>3. v = M!Over \/ (<<v, k>> \in Refused /\ k \in Statements)
    BY <2>1, <2>2
  <2> QED BY <1>4, <1>6, <2>3 DEF Alone
<1> QED BY <1>1, <1>3, <1>4, <1>5, <1>6, OnlyRuns

LEMMA ExecutesMigrates ==
  ASSUME Migrated, NEW r \in Replicas, M!ExecutesStatement(r) PROVE Migrated'
<1>1. run[r].state = "migrating"
  BY DEF M!ExecutesStatement
<1>2. PICK v \in 1..M!Over, k \in 1..(M!Last + 1), known \in SUBSET applied :
        /\ run[r] = M!Run("migrating", known, <<v, k>>) /\ Behind(v, k)
        /\ (restarts = 0 /\ \A o \in Replicas \ {r} : run[o].state = "stopped") =>
             known = {} /\ Exactly(v, k)
  BY <1>1, WhereItIs
<1>3. run[r].at = <<v, k>>
  BY <1>2 DEF M!Run
<1>4. /\ v # M!Over /\ ~(k > M!Last)
      /\ IF M!Fails(<<v, k>>)
         THEN M!Ends(r) /\ UNCHANGED <<executed, again>>
         ELSE /\ executed' = executed \cup {<<v, k>>}
              /\ again' = again \cup ({<<v, k>>} \cap executed)
              /\ run' = [run EXCEPT ![r].at = <<v, k + 1>>]
      /\ UNCHANGED <<applied, restarts>>
  BY <1>3 DEF M!ExecutesStatement, M!Recording, M!Following
<1>5. v \in Versions /\ k \in Statements /\ k + 1 \in 1..(M!Last + 1)
  BY <1>4, EndsOfMigrations
<1>6. CASE M!Fails(<<v, k>>)
  BY <1>1, <1>3, <1>4, <1>5, <1>6, EndsMigrates DEF M!Fails
<1>7. CASE ~M!Fails(<<v, k>>)
  <2>1. PICK y : y = M!Run("migrating", known, <<v, k + 1>>)
    OBVIOUS
  <2>2. run' = [run EXCEPT ![r] = y]
    BY <1>2, <1>4, <1>7, <2>1 DEF M!Run
  <2>3. y.state = "migrating" /\ y.known = known /\ y.at = <<v, k + 1>>
        /\ y = M!Run(y.state, y.known, y.at)
    BY <2>1 DEF M!Run
  <2>4. executed' = executed \cup {<<v, k>>} /\ again' = again \cup ({<<v, k>>} \cap executed)
        /\ <<v, k>> \notin Refused /\ (<<v, k>> \in executed => <<v, k>> \in Guarded)
    BY <1>4, <1>7 DEF M!Fails
  <2>5. Behind(v, k + 1)'
    BY <1>2, <1>4, <2>4, EndsOfMigrations DEF Behind
  <2>6. Running(y)'
    BY <1>4, <1>5, <2>3, <2>5 DEF Running
  <2>7. ASSUME known = {}, Exactly(v, k) PROVE Alone(y)'
    <3>1. <<v, k>> \notin executed
      BY <2>7, EndsOfMigrations DEF Exactly
    <3>2. again' = {} /\ applied' = {u \in Versions : u < v}
      BY <1>4, <2>4, <2>7, <3>1 DEF Exactly
    <3>3. \A a \in Versions, b \in Statements :
            <<a, b>> \in executed' <=> a < v \/ (a = v /\ b < k + 1)
      BY <1>5, <2>4, <2>7, EndsOfMigrations DEF Exactly
    <3>4. executed' \subseteq Versions \X Statements
      BY <1>5, <2>4 DEF Migrated
    <3>5. executed' = {x \in Versions \X Statements : x[1] < v \/ (x[1] = v /\ x[2] < k + 1)}
      BY <3>3, <3>4
    <3> QED BY <1>5, <2>3, <2>7, <3>2, <3>5 DEF Alone, Exactly
  <2>8. \A u \in applied' : M!Whole(u)' /\ \A w \in Versions : w < u => w \in applied'
    BY <1>4, <2>4 DEF Migrated, M!Whole
  <2>9. executed' \subseteq (Versions \X Statements) \ Refused /\ again' \subseteq Guarded
    BY <1>5, <2>4 DEF Migrated
  <2>10. applied' \subseteq Versions
    BY <1>4 DEF Migrated
  <2> QED BY <1>2, <1>4, <2>2, <2>3, <2>4, <2>6, <2>7, <2>8, <2>9, <2>10, RunGoesOn
<1> QED BY <1>6, <1>7

LEMMA RecordsMigrates ==
  ASSUME Migrated, NEW r \in Replicas, M!RecordsVersion(r) PROVE Migrated'
<1>1. run[r].state = "migrating"
  BY DEF M!RecordsVersion
<1>2. PICK v \in 1..M!Over, k \in 1..(M!Last + 1), known \in SUBSET applied :
        /\ run[r] = M!Run("migrating", known, <<v, k>>) /\ Behind(v, k)
        /\ (restarts = 0 /\ \A o \in Replicas \ {r} : run[o].state = "stopped") =>
             known = {} /\ Exactly(v, k)
  BY <1>1, WhereItIs
<1>3. run[r].at = <<v, k>> /\ run[r].known = known
  BY <1>2 DEF M!Run
<1>4. /\ v # M!Over /\ k > M!Last
      /\ IF v \in applied
         THEN M!Ends(r) /\ UNCHANGED applied
         ELSE /\ applied' = applied \cup {v}
              /\ run' = [run EXCEPT ![r].at = M!NextVersion(v + 1, known)]
      /\ UNCHANGED <<executed, again, restarts>>
  BY <1>3 DEF M!RecordsVersion, M!Recording
<1>5. v \in Versions /\ k = M!Last + 1 /\ v + 1 \in 1..M!Over
  BY <1>4, EndsOfMigrations
<1>6. CASE v \in applied
  BY <1>1, <1>3, <1>4, <1>6, EndsMigrates
<1>7. CASE v \notin applied
  <2>1. known \subseteq Versions
    BY <1>2 DEF Migrated
  <2>2. PICK w \in (v + 1)..M!Over :
          /\ M!NextVersion(v + 1, known) = <<w, 1>>
          /\ w \notin known /\ \A u \in (v + 1)..(w - 1) : u \in known
    BY <1>5, <2>1, NextVersionLemma
  <2>3. PICK y : y = M!Run("migrating", known, <<w, 1>>)
    OBVIOUS
  <2>4. run' = [run EXCEPT ![r] = y] /\ applied' = applied \cup {v}
    BY <1>2, <1>4, <1>7, <2>2, <2>3 DEF M!Run
  <2>5. y.state = "migrating" /\ y.known = known /\ y.at = <<w, 1>>
        /\ y = M!Run(y.state, y.known, y.at)
    BY <2>3 DEF M!Run
  <2>6. w \in 1..M!Over /\ 1 \in 1..(M!Last + 1)
    BY <1>5, EndsOfMigrations
  <2>7. \A u \in Versions : u < w => u \in applied'
    <3>1. \A u \in Versions : u < v => u \in applied
      BY <1>2 DEF Behind
    <3>2. \A u \in Versions : u < w => u < v \/ u = v \/ u \in (v + 1)..(w - 1)
      BY <1>5, <2>2, EndsOfMigrations
    <3> QED BY <2>2, <2>4, <3>1, <3>2
  <2>8. Running(y)'
    BY <2>4, <2>5, <2>6, <2>7 DEF Running, Behind
  <2>9. M!Whole(v)'
    BY <1>2, <1>4, <1>5, EndsOfMigrations DEF Behind, M!Whole
  <2>10. \A u \in applied' : M!Whole(u)' /\ \A z \in Versions : z < u => z \in applied'
    BY <1>2, <1>4, <2>4, <2>9 DEF Migrated, M!Whole, Behind
  <2>11. ASSUME known = {}, Exactly(v, k) PROVE Alone(y)'
    <3>1. w = v + 1
      BY <1>5, <2>2, <2>11, EndsOfMigrations
    <3>2. applied' = {u \in Versions : u < v + 1}
      BY <1>5, <2>4, <2>11, EndsOfMigrations DEF Exactly
    <3>3. \A a \in Versions, b \in Statements :
            (a < v \/ (a = v /\ b < k)) <=> (a < v + 1 \/ (a = v + 1 /\ b < 1))
      BY <1>5, EndsOfMigrations
    <3>4. again' = {}
          /\ executed' = {x \in Versions \X Statements : x[1] < v \/ (x[1] = v /\ x[2] < k)}
      BY <1>4, <2>11 DEF Exactly
    <3>5. executed' = {x \in Versions \X Statements : x[1] < v + 1 \/ (x[1] = v + 1 /\ x[2] < 1)}
      BY <3>3, <3>4
    <3>6. Exactly(w, 1)'
      BY <3>1, <3>2, <3>4, <3>5 DEF Exactly
    <3> QED BY <2>5, <2>6, <2>11, <3>6 DEF Alone
  <2>12. executed' \subseteq (Versions \X Statements) \ Refused /\ again' \subseteq Guarded
         /\ applied' \subseteq Versions /\ executed \subseteq executed' /\ applied \subseteq applied'
    BY <1>4, <1>5, <2>4 DEF Migrated
  <2> QED BY <1>2, <1>4, <2>4, <2>5, <2>8, <2>10, <2>11, <2>12, RunGoesOn
<1> QED BY <1>6, <1>7

LEMMA RestartMigrates == ASSUME Migrated, NEW r \in Replicas, M!Restart(r) PROVE Migrated'
<1>1. PICK y : y = M!Stopped
  OBVIOUS
<1>2. run' = [run EXCEPT ![r] = y] /\ restarts' = restarts + 1
      /\ UNCHANGED <<executed, again, applied>>
  BY <1>1 DEF M!Restart
<1>3. y.state = "stopped" /\ y.known = {} /\ y = M!Run(y.state, y.known, y.at)
  BY <1>1 DEF M!Stopped, M!Run
<1>4. run' = [q \in Replicas |-> run'[q]]
      /\ \A q \in Replicas : run'[q] = IF q = r THEN y ELSE run[q]
  BY <1>2 DEF Migrated
<1>5. ASSUME NEW q \in Replicas PROVE Running(run[q])'
  <2>1. PICK x : x = run'[q]
    OBVIOUS
  <2>2. Running(x)
    BY <1>3, <1>4, <2>1 DEF Running, Migrated
  <2>3. Running(x)'
    BY <1>2, <2>2 DEF Running, Behind
  <2> QED BY <2>1, <2>3 DEF Running
<1>6. restarts' \in Nat /\ restarts' # 0
  BY <1>2 DEF Migrated
<1>7. \A v \in applied' : M!Whole(v)' /\ \A w \in Versions : w < v => w \in applied'
  BY <1>2 DEF Migrated, M!Whole
<1> QED BY <1>2, <1>4, <1>5, <1>6, <1>7 DEF Migrated

LEMMA MigratedStands == ASSUME Migrated, M!Next PROVE Migrated'
<1>1. ASSUME NEW r \in Replicas, M!Finishes(r) PROVE Migrated'
  BY <1>1, EndsMigrates DEF M!Finishes
<1> QED BY <1>1, FindsMigrates, ExecutesMigrates, RecordsMigrates, RestartMigrates DEF M!Next

LEMMA MigratedRests == ASSUME Migrated, UNCHANGED migrations PROVE Migrated'
<1>1. UNCHANGED <<executed, again, applied, run, restarts>>
  BY DEF migrations
<1>2. ASSUME NEW r \in Replicas PROVE Running(run[r])' /\ (Alone(run[r]) => Alone(run[r])')
  <2>1. PICK x : x = run[r]
    OBVIOUS
  <2>2. run'[r] = x /\ Running(x)
    BY <1>1, <2>1 DEF Migrated
  <2>3. Running(x)' /\ (Alone(x) => Alone(x)')
    BY <1>1, <2>2 DEF Running, Behind, Alone, Exactly
  <2> QED BY <2>1, <2>2, <2>3 DEF Running, Alone
<1>3. \A v \in applied' : M!Whole(v)' /\ \A w \in Versions : w < v => w \in applied'
  BY <1>1 DEF Migrated, M!Whole
<1> QED BY <1>1, <1>2, <1>3 DEF Migrated

LEMMA MoreThanOne ==
  ASSUME NEW X, IsFiniteSet(X), NEW x \in X, NEW y \in X, x # y
  PROVE  Cardinality(X) > 1
<1>1. PICK one : one = {x}
  OBVIOUS
<1>2. Cardinality(one) = 1
  BY <1>1, FS_Singleton
<1>3. one \subseteq X /\ one # X
  BY <1>1
<1>4. Cardinality(one) <= Cardinality(X) /\ Cardinality(X) \in Nat /\ Cardinality(one) # Cardinality(X)
  BY <1>3, FS_Subset, FS_CardinalityType
<1> QED BY <1>2, <1>4

LEMMA MigrationsHold ==
  Migrated => M!RecordedIsDone /\ M!RepeatedOnlyGuarded /\ M!AloneGoesAsFar
<1> SUFFICES ASSUME Migrated
             PROVE  M!RecordedIsDone /\ M!RepeatedOnlyGuarded /\ M!AloneGoesAsFar
  OBVIOUS
<1>1. M!RecordedIsDone
  BY DEF Migrated, M!RecordedIsDone
<1>2. M!RepeatedOnlyGuarded
  <2> DEFINE busy == {r \in Replicas : run[r].state # "stopped"}
  <2>1. again \subseteq Guarded
    BY DEF Migrated
  <2>2. ASSUME again # {}, restarts = 0 PROVE M!Cardinality(busy) > 1
    <3>1. \A r \in Replicas : (\A o \in Replicas \ {r} : run[o].state = "stopped") => FALSE
      BY <2>2 DEF Migrated, Alone, Exactly
    <3>2. PICK q \in Replicas : TRUE
      BY ReplicasAssumption
    <3>3. PICK r \in busy : r # q
      BY <3>1, <3>2
    <3>4. PICK o \in busy : o # r
      BY <3>1, <3>3
    <3>5. IsFiniteSet(busy)
      BY ReplicasAssumption, FS_Subset
    <3>6. Cardinality(busy) > 1
      BY <3>4, <3>5, MoreThanOne
    <3>7. M!Cardinality(busy) = Cardinality(busy)
      BY DEF M!Cardinality, Cardinality
    <3> QED BY <3>6, <3>7
  <2>3. restarts # 0 => restarts > 0
    BY DEF Migrated
  <2> QED BY <2>1, <2>2, <2>3 DEF M!RepeatedOnlyGuarded
<1>3. ASSUME restarts = 0, NEW r \in Replicas, run[r].state = "started",
             \A o \in Replicas \ {r} : run[o].state = "stopped", NEW u \in Versions
      PROVE  u \in applied <=> \A w \in Versions : w <= u => \A k \in Statements : <<w, k>> \notin Refused
  <2>1. Alone(run[r])
    BY <1>3 DEF Migrated
  <2>2. PICK v \in 1..M!Over, j \in 1..(M!Last + 1) :
          Exactly(v, j) /\ (v = M!Over \/ (<<v, j>> \in Refused /\ j \in Statements))
    BY <1>3, <2>1 DEF Alone
  <2>3. \A w \in Versions, k \in Statements : w < v => <<w, k>> \in executed
    BY <2>2 DEF Exactly
  <2>4. \A w \in Versions, k \in Statements : w < v => <<w, k>> \notin Refused
    BY <2>3 DEF Migrated
  <2>5. u \in applied <=> u < v
    BY <2>2 DEF Exactly
  <2>6. CASE u < v
    <3>1. \A w \in Versions : w <= u => w < v
      BY <2>6, EndsOfMigrations
    <3> QED BY <2>4, <2>5, <2>6, <3>1
  <2>7. CASE ~(u < v)
    <3>1. v # M!Over /\ v <= u /\ v \in Versions
      BY <2>7, EndsOfMigrations
    <3> QED BY <2>2, <2>5, <2>7, <3>1
  <2> QED BY <2>6, <2>7
<1> QED BY <1>1, <1>2, <1>3 DEF M!AloneGoesAsFar

-----------------------------------------------------------------------------
(* Backups.  The file is of one moment while no checkpoint is at work, and  *)
(* so is what was copied of it; and the copies on the disk are all of those *)
(* begun since the oldest that is retained.                                *)
Taken == IF reading THEN begun - 1 ELSE begun

OfOneMoment ==
  /\ page = [p \in Pages |-> page[p]]
  /\ moving \subseteq Pages /\ \A p \in Pages \ moving : page[p] = mark
  /\ reading /\ ~torn => moving = {} /\ \A q \in DOMAIN copy : copy[q] = mark
  /\ \A f \in files : f.whole /\ ~f.torn => \A p, q \in Pages : f.holds[p] = f.holds[q]

Retaining(kept, done, until) ==
  /\ \A f \in kept : f.name \in 1..until /\ (f.whole <=> f.name \in done)
  /\ \A f, g \in kept : f.name = g.name => f = g
  /\ done \subseteq 1..until
  /\ done # {} => \E n \in done : \A m \in done : m <= n
  /\ \A m \in 1..until : (\E f \in kept : f.name = m) <=> \A n \in done : m > n - Retained

Copied == /\ reading \in BOOLEAN /\ torn \in BOOLEAN
          /\ begun \in Nat /\ (reading => begun # 0)
          /\ OfOneMoment /\ Retaining(files, ended, Taken)

LEMMA CopiedStarts == ASSUME B!Init PROVE Copied
<1>1. /\ page = [p \in Pages |-> 0] /\ mark = 0 /\ moving = {} /\ ~reading /\ reading = FALSE
      /\ torn = FALSE /\ files = {} /\ begun = 0 /\ ended = {}
  BY DEF B!Init
<1>2. OfOneMoment
  BY <1>1 DEF OfOneMoment
<1>3. Taken = 0
  BY <1>1 DEF Taken
<1>4. Retaining({}, {}, 0)
  BY DEF Retaining
<1> QED BY <1>1, <1>2, <1>3, <1>4 DEF Copied

LEMMA OtherRowsCopy ==
  ASSUME Copied, B!Commit \/ B!Checkpoint \/ B!BeginsCopy \/ B!CopiesPage PROVE Copied'
<1>1. CASE B!Commit
  BY <1>1 DEF Copied, OfOneMoment, Taken, B!Commit
<1>2. CASE B!Checkpoint
  <2>1. UNCHANGED <<copy, reading, files, begun, ended>> /\ torn' \in BOOLEAN /\ (reading => torn')
    BY <1>2 DEF Copied, B!Checkpoint
  <2>2. \/ moving' = Pages /\ page' = page
        \/ \E p \in moving : page' = [page EXCEPT ![p] = mark] /\ moving' = moving \ {p}
                             /\ mark' = mark
    BY <1>2 DEF B!Checkpoint
  <2>3. page' = [p \in Pages |-> page'[p]]
        /\ moving' \subseteq Pages /\ \A p \in Pages \ moving' : page'[p] = mark'
    BY <2>2 DEF Copied, OfOneMoment
  <2> QED BY <2>1, <2>3 DEF Copied, OfOneMoment, Taken
<1>3. CASE B!BeginsCopy
  <2>1. /\ ~reading /\ begun' = begun + 1 /\ reading' = TRUE /\ torn' = (moving # {})
        /\ copy' = [p \in {} |-> 0] /\ UNCHANGED <<page, mark, moving, files, ended>>
    BY <1>3 DEF B!BeginsCopy, B!database
  <2>2. OfOneMoment'
    BY <2>1 DEF Copied, OfOneMoment
  <2>3. Taken' = Taken
    BY <2>1 DEF Copied, Taken
  <2> QED BY <2>1, <2>2, <2>3 DEF Copied
<1>4. CASE B!CopiesPage
  <2>1. UNCHANGED <<page, mark, moving, reading, torn, files, begun, ended>>
    BY <1>4 DEF B!CopiesPage, B!database
  <2>2. \E p \in Pages : copy' = [q \in DOMAIN copy \cup {p} |-> IF q = p THEN page[p] ELSE copy[q]]
    BY <1>4 DEF B!CopiesPage
  <2>3. OfOneMoment'
    BY <2>1, <2>2 DEF Copied, OfOneMoment
  <2> QED BY <2>1, <2>3 DEF Copied, Taken
<1> QED BY <1>1, <1>2, <1>3, <1>4

LEMMA FailsCopied == ASSUME Copied, B!CopyFails PROVE Copied'
<1>1. PICK f : f = B!File(FALSE)
  OBVIOUS
<1>2. /\ reading /\ files' = files \cup {f} /\ reading' = FALSE
      /\ UNCHANGED <<page, mark, moving, copy, torn, begun, ended>>
  BY <1>1 DEF B!CopyFails, B!database
<1>3. f.name = begun /\ ~f.whole
  BY <1>1 DEF B!File
<1>4. OfOneMoment'
  BY <1>2, <1>3 DEF Copied, OfOneMoment
<1>5. Taken = begun - 1 /\ Taken' = begun /\ begun \in Nat /\ begun # 0
  BY <1>2 DEF Copied, Taken
<1>6. Retaining(files, ended, begun - 1)
  BY <1>5 DEF Copied
<1>7. \A g \in files' : g.name \in 1..begun /\ (g.whole <=> g.name \in ended)
  BY <1>2, <1>3, <1>5, <1>6 DEF Retaining
<1>8. \A g, h \in files' : g.name = h.name => g = h
  BY <1>2, <1>3, <1>5, <1>6 DEF Retaining
<1>9. ended \subseteq 1..begun /\ (ended # {} => \E n \in ended : \A m \in ended : m <= n)
  BY <1>5, <1>6 DEF Retaining
<1>10. \A n \in ended : begun > n - Retained
  BY <1>5, <1>6, RetainedAssumption DEF Retaining
<1>11. ASSUME NEW m \in 1..begun
       PROVE  (\E g \in files' : g.name = m) <=> \A n \in ended : m > n - Retained
  <2>1. CASE m = begun
    BY <1>2, <1>3, <1>10, <2>1
  <2>2. CASE m # begun
    <3>1. m \in 1..(begun - 1)
      BY <1>5, <2>2
    <3>2. (\E g \in files' : g.name = m) <=> (\E g \in files : g.name = m)
      BY <1>2, <1>3, <2>2
    <3> QED BY <1>6, <3>1, <3>2 DEF Retaining
  <2> QED BY <2>1, <2>2
<1>12. Retaining(files', ended', Taken')
  BY <1>2, <1>5, <1>7, <1>8, <1>9, <1>11 DEF Retaining
<1> QED BY <1>2, <1>4, <1>12 DEF Copied

(* Files that bear each of the numbers from m to n once *)
LEMMA HowManyNames ==
  ASSUME NEW X, NEW m \in Nat, NEW n \in Nat, m <= n,
         \A g \in X : g.name \in m..n,
         \A k \in m..n : \E g \in X : g.name = k,
         \A g, h \in X : g.name = h.name => g = h
  PROVE  Cardinality(X) = (n - m) + 1
<1>1. PICK f : f = [k \in m..n |-> CHOOSE g \in X : g.name = k]
  OBVIOUS
<1>2. \A k \in m..n : f[k] \in X /\ f[k].name = k
  BY <1>1
<1>3. f \in [m..n -> X]
  BY <1>1, <1>2
<1>4. \A k, j \in m..n : f[k] = f[j] => k = j
  BY <1>2
<1>5. \A g \in X : \E k \in m..n : f[k] = g
  BY <1>2
<1>6. f \in Bijection(m..n, X)
  BY <1>3, <1>4, <1>5, Fun_IsBij
<1>7. ExistsBijection(m..n, X)
  BY <1>6, Fun_ExistsBij
<1>8. IsFiniteSet(m..n) /\ Cardinality(m..n) = (n - m) + 1
  BY FS_Interval
<1> QED BY <1>7, <1>8, FS_Bijection

LEMMA EndCopied == ASSUME Copied, B!BackupEnds PROVE Copied'
<1>1. PICK f : f = B!File(TRUE)
  OBVIOUS
<1>2. PICK both : both = files \cup {f}
  OBVIOUS
<1>3. /\ reading /\ DOMAIN copy = Pages /\ files' = B!Pruned(both)
      /\ ended' = ended \cup {begun} /\ reading' = FALSE
      /\ UNCHANGED <<page, mark, moving, copy, torn, begun>>
  BY <1>1, <1>2 DEF B!BackupEnds, B!database
<1>4. f.name = begun /\ f.whole /\ f.holds = copy /\ f.torn = torn
  BY <1>1 DEF B!File
<1>5. Taken = begun - 1 /\ Taken' = begun /\ begun \in Nat /\ begun # 0 /\ torn \in BOOLEAN
  BY <1>3 DEF Copied, Taken
<1>6. Retaining(files, ended, begun - 1)
  BY <1>5 DEF Copied
<1>7. files' \subseteq both
  BY <1>3 DEF B!Pruned
<1>8. OfOneMoment'
  <2>1. ~f.torn => \A p, q \in Pages : f.holds[p] = f.holds[q]
    BY <1>3, <1>4 DEF Copied, OfOneMoment
  <2>2. \A g \in files' : g.whole /\ ~g.torn => \A p, q \in Pages : g.holds[p] = g.holds[q]
    BY <1>2, <1>7, <2>1 DEF Copied, OfOneMoment
  <2> QED BY <1>3, <2>2 DEF Copied, OfOneMoment
<1>9. \A g \in both : g.name \in 1..begun
  BY <1>2, <1>4, <1>5, <1>6 DEF Retaining
<1>10. \A g, h \in both : g.name = h.name => g = h
  BY <1>2, <1>4, <1>5, <1>6 DEF Retaining
<1>11. ended \subseteq 1..(begun - 1)
  BY <1>6 DEF Retaining
<1>12. Retained \in Nat /\ Retained # 0
  BY RetainedAssumption
<1>13. ASSUME NEW m \in 1..begun, \A n \in ended : m > n - Retained
       PROVE  \E g \in both : g.name = m
  <2>1. CASE m = begun
    BY <1>2, <1>4, <2>1
  <2>2. CASE m # begun
    <3>1. m \in 1..(begun - 1)
      BY <1>5, <2>2
    <3> QED BY <1>2, <1>6, <1>13, <3>1 DEF Retaining
  <2> QED BY <2>1, <2>2
<1>14. ASSUME NEW g \in both PROVE \A n \in ended : g.name > n - Retained
  <2>1. CASE g \in files
    BY <1>6, <2>1 DEF Retaining
  <2>2. CASE g = f
    BY <1>4, <1>5, <1>11, <1>12, <2>2
  <2> QED BY <1>2, <2>1, <2>2
<1>15. ASSUME NEW g \in both
       PROVE  g \in files' <=> g.name > begun - Retained
  <2>1. PICK later, m : later = {h \in both : h.name >= g.name} /\ m = g.name
    OBVIOUS
  <2>2. m \in 1..begun
    BY <1>9, <2>1
  <2>3. \A h \in later : h.name \in m..begun
    BY <1>5, <1>9, <2>1, <2>2
  <2>4. \A k \in m..begun : \E h \in later : h.name = k
    <3>1. SUFFICES ASSUME NEW k \in m..begun PROVE \E h \in later : h.name = k
      OBVIOUS
    <3>2. k \in 1..begun /\ k >= m
      BY <1>5, <2>2
    <3>3. \A n \in ended : n \in Int /\ m > n - Retained
      BY <1>11, <1>14, <2>1
    <3>4. \A n \in ended : k > n - Retained
      BY <1>12, <2>2, <3>2, <3>3
    <3> QED BY <1>13, <2>1, <3>2, <3>4
  <2>5. \A h, k \in later : h.name = k.name => h = k
    BY <1>10, <2>1
  <2>6. m \in Nat /\ m <= begun
    BY <1>5, <2>2
  <2>7. Cardinality(later) = (begun - m) + 1
    BY <1>5, <2>3, <2>4, <2>5, <2>6, HowManyNames
  <2>8. B!Cardinality(later) = Cardinality(later)
    BY DEF B!Cardinality, Cardinality
  <2>9. g \in files' <=> B!Cardinality(later) <= Retained
    BY <1>3, <2>1 DEF B!Pruned
  <2> QED BY <1>5, <1>12, <2>1, <2>6, <2>7, <2>8, <2>9
<1>16. \A g \in files' : g.name \in 1..begun /\ (g.whole <=> g.name \in ended')
  <2>1. \A g \in files : g.name # begun /\ (g.whole <=> g.name \in ended)
    BY <1>5, <1>6 DEF Retaining
  <2>2. \A g \in both : g.whole <=> g.name \in ended \cup {begun}
    BY <1>2, <1>4, <2>1
  <2> QED BY <1>3, <1>7, <1>9, <2>2
<1>17. ended' \subseteq 1..begun /\ \A m \in ended' : m <= begun
  BY <1>3, <1>5, <1>11
<1>18. ASSUME NEW m \in 1..begun
       PROVE  (\E g \in files' : g.name = m) <=> \A n \in ended' : m > n - Retained
  <2>1. (\A n \in ended' : m > n - Retained) <=> m > begun - Retained
    <3>1. \A n \in ended' : n \in Int /\ n <= begun
      BY <1>17
    <3>2. begun \in ended'
      BY <1>3
    <3> QED BY <1>5, <1>12, <3>1, <3>2
  <2>2. ASSUME NEW g \in files', g.name = m PROVE m > begun - Retained
    BY <1>7, <1>15, <2>2
  <2>3. ASSUME m > begun - Retained PROVE \E g \in files' : g.name = m
    <3>1. \A n \in ended : n \in Int /\ n <= begun
      BY <1>5, <1>11
    <3>2. \A n \in ended : m > n - Retained
      BY <1>5, <1>12, <2>3, <3>1
    <3> QED BY <1>13, <1>15, <2>3, <3>2
  <2> QED BY <2>1, <2>2, <2>3
<1>19. \A g, h \in files' : g.name = h.name => g = h
  BY <1>7, <1>10
<1>20. \E n \in ended' : \A m \in ended' : m <= n
  BY <1>3, <1>17
<1>21. Retaining(files', ended', Taken')
  BY <1>5, <1>16, <1>17, <1>18, <1>19, <1>20 DEF Retaining
<1> QED BY <1>3, <1>5, <1>8, <1>21 DEF Copied

LEMMA CopiedStands == ASSUME Copied, B!Next PROVE Copied'
BY OtherRowsCopy, FailsCopied, EndCopied DEF B!Next

LEMMA CopiedRests == ASSUME Copied, UNCHANGED backups PROVE Copied'
BY DEF backups, Copied, OfOneMoment, Taken

LEMMA CopiesHold == Copied => B!CopiesAreOfOneMoment /\ B!NewestAreKept
<1> SUFFICES ASSUME Copied PROVE B!CopiesAreOfOneMoment /\ B!NewestAreKept
  OBVIOUS
<1>1. B!CopiesAreOfOneMoment
  BY DEF Copied, OfOneMoment, B!CopiesAreOfOneMoment, B!Whole
<1>2. Retaining(files, ended, Taken)
  BY DEF Copied
<1>3. CASE ended = {}
  <2>1. B!Whole(files) = {}
    BY <1>2, <1>3 DEF Retaining, B!Whole
  <2>2. {f.name : f \in B!Whole(files)} = {}
    BY <2>1
  <2>3. {n \in ended : n > B!Max(ended) - Retained} = {}
    BY <1>3
  <2> QED BY <1>1, <2>2, <2>3 DEF B!NewestAreKept
<1>4. CASE ended # {}
  <2>1. PICK n : n = B!Max(ended)
    OBVIOUS
  <2>2. ended \subseteq Nat
    BY <1>2 DEF Retaining, Copied, Taken
  <2>3. \E x \in ended : \A y \in ended : x >= y
    BY <1>2, <1>4, <2>2 DEF Retaining
  <2>4. n \in ended /\ \A y \in ended : n >= y
    BY <2>1, <2>3, Zenon DEF B!Max
  <2>5. ASSUME NEW m \in ended, m > n - Retained PROVE m \in {f.name : f \in B!Whole(files)}
    <3>1. m \in 1..Taken
      BY <1>2 DEF Retaining
    <3>2. \A k \in ended : m > k - Retained
      BY <2>2, <2>4, <2>5, RetainedAssumption
    <3>3. PICK f \in files : f.name = m
      BY <1>2, <3>1, <3>2 DEF Retaining
    <3> QED BY <1>2, <3>3 DEF Retaining, B!Whole
  <2>6. ASSUME NEW f \in B!Whole(files) PROVE f.name \in ended /\ f.name > n - Retained
    <3>1. f \in files /\ f.whole
      BY DEF B!Whole
    <3>2. f.name \in ended /\ f.name \in 1..Taken
      BY <1>2, <3>1 DEF Retaining
    <3> QED BY <1>2, <2>4, <3>1, <3>2 DEF Retaining
  <2>7. {f.name : f \in B!Whole(files)} = {m \in ended : m > n - Retained}
    BY <2>5, <2>6
  <2> QED BY <1>1, <2>1, <2>7 DEF B!NewestAreKept
<1> QED BY <1>1, <1>3, <1>4

-----------------------------------------------------------------------------
(* Files.  A name is given once, so whoever uploads has it to himself until *)
(* it is recorded, and nothing takes a recorded file off the disk.         *)
Owned     == Invoices \cup Expenses
Uploading == {"verify", "write", "record"}

HandlesOn(x, given, records, there) ==
  /\ x = F!At(x.at, x.file, x.owner)
  /\ x.at \in Uploading => /\ x.file \in Names /\ x.file \in given /\ x.owner \in Owned
                           /\ records[x.file] = NoRow
  /\ x.at = "record" => x.file \in there
  /\ x.at = "remove" => x.file \in Names

Handling(x) == HandlesOn(x, taken, record, disk)

Filed ==
  /\ record = [f \in Names |-> record[f]]
  /\ upload = [r \in Callers |-> upload[r]]
  /\ disk \subseteq Names
  /\ \A r \in Callers : Handling(upload[r])
  /\ \A q, r \in Callers :
       upload[q].at \in Uploading /\ upload[r].at \in Uploading /\ upload[q].file = upload[r].file
         => q = r
  /\ \A f \in Names : record[f] # NoRow => f \in disk /\ f \in taken /\ record[f] \in Owned
  /\ \A f \in disk : \/ record[f] # NoRow \/ f \in left
                     \/ \E r \in Callers : upload[r].at = "record" /\ upload[r].file = f
  /\ enforced => \A f \in Names : record[f] \in Invoices => record[f] \in owners

LEMMA FiledStarts == ASSUME F!Init PROVE Filed
<1>1. PICK x : x = F!NotYet
  OBVIOUS
<1>2. \A r \in Callers : upload[r] = x
  <2>1. upload = [r \in Callers |-> F!NotYet]
    BY DEF F!Init
  <2>2. upload = [r \in Callers |-> x]
    BY <1>1, <2>1, Zenon
  <2> QED BY <2>2, Zenon
<1>3. x.at = "new" /\ x = F!At(x.at, x.file, x.owner)
  BY <1>1 DEF F!NotYet, F!At
<1>4. Handling(x)
  BY <1>3 DEF Handling, HandlesOn, Uploading
<1>5. \A r \in Callers : Handling(upload[r]) /\ upload[r].at = "new"
  BY <1>2, <1>3, <1>4, Zenon
<1>6. /\ record = [f \in Names |-> NoRow] /\ upload = [r \in Callers |-> x] /\ disk = {}
  BY <1>1 DEF F!Init
<1>7. \A f \in Names : record[f] = NoRow /\ record[f] \notin Invoices
  BY <1>6, NoRowAssumption
<1> QED BY <1>5, <1>6, <1>7 DEF Filed, Uploading

(* The request r goes on to y; what it does to the disk and the records is  *)
(* told of its file alone.                                                 *)
Moves(r, y, file) ==
  /\ upload' = [upload EXCEPT ![r] = y]
  /\ HandlesOn(y, taken', record', disk')
  /\ taken \subseteq taken' /\ left \subseteq left' /\ owners' = owners /\ enforced' = enforced
  /\ record' = [f \in Names |-> record'[f]] /\ disk' \subseteq Names
  /\ \A f \in Names \ {file} : record'[f] = record[f] /\ (f \in disk' <=> f \in disk)
  /\ \A q \in Callers \ {r} : upload[q].at \in Uploading => upload[q].file # file
  /\ y.at \in Uploading => y.file = file
  /\ upload[r].at \in Uploading => upload[r].file = file
  /\ record'[file] # NoRow => /\ file \in disk' /\ file \in taken' /\ record'[file] \in Owned
                              /\ enforced /\ record'[file] \in Invoices => record'[file] \in owners
  /\ file \in disk' => record'[file] # NoRow \/ file \in left' \/ y.at = "record"

LEMMA UploadGoesOn ==
  ASSUME Filed, NEW r \in Callers, NEW y, NEW file \in Names, Moves(r, y, file)
  PROVE  Filed'
<1> USE DEF Moves
<1>1. upload' = [q \in Callers |-> upload'[q]]
      /\ \A q \in Callers : upload'[q] = IF q = r THEN y ELSE upload[q]
  BY DEF Filed
<1>2. ASSUME NEW q \in Callers PROVE HandlesOn(upload'[q], taken', record', disk')
  <2>1. CASE q = r
    BY <1>1, <2>1 DEF Handling, HandlesOn
  <2>2. CASE q # r
    <3>1. PICK x : x = upload[q]
      OBVIOUS
    <3>2. upload'[q] = x /\ Handling(x) /\ (x.at \in Uploading => x.file # file)
      BY <1>1, <2>2, <3>1 DEF Filed
    <3>3. HandlesOn(x, taken', record', disk')
      BY <3>2 DEF Handling, HandlesOn, Uploading
    <3> QED BY <3>2, <3>3 DEF Handling, HandlesOn
  <2> QED BY <2>1, <2>2
<1>3. ASSUME NEW p \in Callers, NEW q \in Callers,
             upload'[p].at \in Uploading, upload'[q].at \in Uploading,
             upload'[p].file = upload'[q].file
      PROVE  p = q
  BY <1>1, <1>3 DEF Filed
<1>4. ASSUME NEW f \in Names, record'[f] # NoRow
      PROVE  f \in disk' /\ f \in taken' /\ record'[f] \in Owned
  BY <1>4 DEF Filed
<1>5. ASSUME NEW f \in disk', record'[f] = NoRow, f \notin left'
      PROVE  \E q \in Callers : upload'[q].at = "record" /\ upload'[q].file = f
  <2>1. CASE f = file
    BY <1>1, <1>5, <2>1 DEF Uploading
  <2>2. CASE f # file
    <3>1. f \in disk /\ record[f] = NoRow /\ f \notin left
      BY <1>5, <2>2
    <3>2. PICK q \in Callers : upload[q].at = "record" /\ upload[q].file = f
      BY <3>1 DEF Filed
    <3>3. q # r
      BY <2>2, <3>2 DEF Uploading
    <3> QED BY <1>1, <3>2, <3>3
  <2> QED BY <2>1, <2>2
<1>6. ASSUME enforced, NEW f \in Names, record'[f] \in Invoices PROVE record'[f] \in owners
  <2>1. record'[f] # NoRow
    BY <1>6, NoRowAssumption
  <2> QED BY <1>6, <2>1 DEF Filed
<1> QED BY <1>1, <1>2, <1>3, <1>4, <1>5, <1>6 DEF Filed, Handling

(* What a request is about, and that nobody else uploads under its name *)
LEMMA HasItsFile ==
  ASSUME Filed, NEW r \in Callers, upload[r].at \in Uploading
  PROVE  \E f \in Names, o \in Owned :
           /\ upload[r] = F!At(upload[r].at, f, o) /\ upload[r].file = f /\ upload[r].owner = o
           /\ f \in taken /\ record[f] = NoRow
           /\ \A q \in Callers \ {r} : upload[q].at \in Uploading => upload[q].file # f
BY DEF Filed, Handling, HandlesOn

LEMMA DoneHandles == Handling(F!Done) /\ F!Done.at \notin Uploading /\ F!Done.at # "record"
BY DEF Handling, HandlesOn, F!Done, F!At, Uploading

LEMMA ComesFiles ==
  ASSUME Filed, NEW r \in Callers, NEW f \in Names, NEW o \in Owned, F!Comes(r, o, f)
  PROVE  Filed'
<1>1. PICK y : y = F!At("verify", f, o)
  OBVIOUS
<1>2. upload[r] = F!NotYet /\ f \notin taken /\ upload' = [upload EXCEPT ![r] = y]
      /\ taken' = taken \cup {f} /\ UNCHANGED <<owners, disk, record, enforced, left>>
  BY <1>1 DEF F!Comes, F!Goes
<1>3. record[f] = NoRow
  BY <1>2 DEF Filed
<1>4. y.at = "verify" /\ y.file = f /\ y.owner = o /\ y = F!At(y.at, y.file, y.owner)
  BY <1>1 DEF F!At
<1>5. HandlesOn(y, taken', record', disk')
  BY <1>2, <1>3, <1>4 DEF Handling, HandlesOn, Uploading
<1>6. \A q \in Callers : upload[q].at \in Uploading => upload[q].file # f
  BY <1>2 DEF Filed, Handling, HandlesOn
<1>7. upload[r].at \notin Uploading
  BY <1>2 DEF F!NotYet, F!At, Uploading
<1>8. f \in disk' => f \in left'
  BY <1>2, <1>3, <1>6 DEF Filed, Uploading
<1>9. record' = [g \in Names |-> record'[g]] /\ disk' \subseteq Names
  BY <1>2 DEF Filed
<1>20. Moves(r, y, f)
  BY <1>2, <1>3, <1>4, <1>5, <1>6, <1>7, <1>8, <1>9 DEF Moves
<1> QED BY <1>20, UploadGoesOn

LEMMA VerifiesFiles == ASSUME Filed, NEW r \in Callers, F!Verifies(r) PROVE Filed'
<1>1. upload[r].at = "verify" /\ upload[r].at \in Uploading
      /\ UNCHANGED <<owners, disk, record, taken, enforced, left>>
  BY DEF F!Verifies, Uploading
<1>2. PICK f \in Names, o \in Owned :
        /\ upload[r] = F!At("verify", f, o) /\ upload[r].file = f
        /\ f \in taken /\ record[f] = NoRow
        /\ \A q \in Callers \ {r} : upload[q].at \in Uploading => upload[q].file # f
  BY <1>1, HasItsFile
<1>3. PICK y \in {F!At("write", f, o), F!Done} : upload' = [upload EXCEPT ![r] = y]
  <2>1. [F!At("verify", f, o) EXCEPT !.at = "write"] = F!At("write", f, o)
    BY DEF F!At
  <2> QED BY <1>2, <2>1 DEF F!Verifies, F!Goes
<1>4. (y.at \in Uploading => y.file = f) /\ y.at # "record" /\ HandlesOn(y, taken', record', disk')
  <2>1. CASE y = F!At("write", f, o)
    <3>1. y.at = "write" /\ y.file = f /\ y.owner = o /\ y = F!At(y.at, y.file, y.owner)
      BY <2>1 DEF F!At
    <3> QED BY <1>1, <1>2, <3>1 DEF Handling, HandlesOn, Uploading
  <2>2. CASE y = F!Done
    BY <1>1, <2>2, DoneHandles DEF Handling, HandlesOn
  <2> QED BY <2>1, <2>2
<1>5. \A q \in Callers : upload[q].at = "record" => upload[q].file # f
  BY <1>1, <1>2 DEF Uploading
<1>6. f \in disk' => f \in left'
  BY <1>1, <1>2, <1>5 DEF Filed
<1>7. record' = [g \in Names |-> record'[g]] /\ disk' \subseteq Names
  BY <1>1 DEF Filed
<1>20. Moves(r, y, f)
  BY <1>1, <1>2, <1>3, <1>4, <1>6, <1>7 DEF Moves
<1> QED BY <1>20, UploadGoesOn

LEMMA SaveFiles == ASSUME Filed, NEW r \in Callers, F!SaveFile(r) PROVE Filed'
<1>1. upload[r].at = "write" /\ upload[r].at \in Uploading
      /\ UNCHANGED <<owners, record, taken, enforced>>
  BY DEF F!SaveFile, Uploading
<1>2. PICK f \in Names, o \in Owned :
        /\ upload[r].file = f /\ upload[r].owner = o
        /\ f \in taken /\ record[f] = NoRow
        /\ \A q \in Callers \ {r} : upload[q].at \in Uploading => upload[q].file # f
  BY <1>1, HasItsFile
<1>3. \/ /\ disk' = disk \cup {f} /\ left' = left
         /\ upload' = [upload EXCEPT ![r] = F!At("record", f, o)]
      \/ /\ left' = left \cup {f} /\ upload' = [upload EXCEPT ![r] = F!Done]
         /\ (disk' = disk \/ disk' = disk \cup {f})
  <2>1. \/ /\ disk' = disk \cup {f} /\ left' = left
           /\ F!Goes(r, F!At("record", f, o))
        \/ /\ left' = left \cup {f} /\ F!Goes(r, F!Done)
           /\ \E some \in SUBSET {f} : disk' = disk \cup some
    BY <1>2 DEF F!SaveFile
  <2>2. ASSUME NEW some \in SUBSET {f}, disk' = disk \cup some
        PROVE  disk' = disk \/ disk' = disk \cup {f}
    BY <2>2
  <2> QED BY <2>1, <2>2 DEF F!Goes
<1>4. record' = [g \in Names |-> record'[g]] /\ disk' \subseteq Names
  BY <1>1, <1>2, <1>3 DEF Filed
<1>5. CASE disk' = disk \cup {f} /\ left' = left
           /\ upload' = [upload EXCEPT ![r] = F!At("record", f, o)]
  <2>1. PICK y : y = F!At("record", f, o)
    OBVIOUS
  <2>2. y.at = "record" /\ y.file = f /\ y.owner = o /\ y = F!At(y.at, y.file, y.owner)
    BY <2>1 DEF F!At
  <2>3. HandlesOn(y, taken', record', disk')
    BY <1>1, <1>2, <1>5, <2>2 DEF Handling, HandlesOn, Uploading
  <2>20. Moves(r, y, f)
    BY <1>1, <1>2, <1>4, <1>5, <2>1, <2>2, <2>3 DEF Moves
  <2> QED BY <2>20, UploadGoesOn
<1>6. CASE left' = left \cup {f} /\ upload' = [upload EXCEPT ![r] = F!Done]
           /\ (disk' = disk \/ disk' = disk \cup {f})
  <2>1. PICK y : y = F!Done
    OBVIOUS
  <2>2. y.at \notin Uploading /\ HandlesOn(y, taken', record', disk')
    BY <2>1, DoneHandles DEF Handling, HandlesOn, Uploading
  <2>20. Moves(r, y, f)
    BY <1>1, <1>2, <1>4, <1>6, <2>1, <2>2 DEF Moves
  <2> QED BY <2>20, UploadGoesOn
<1> QED BY <1>3, <1>5, <1>6

LEMMA CreatesFiles == ASSUME Filed, NEW r \in Callers, F!Creates(r) PROVE Filed'
<1>1. upload[r].at = "record" /\ upload[r].at \in Uploading
      /\ UNCHANGED <<owners, taken, enforced>>
  BY DEF F!Creates, Uploading
<1>2. PICK f \in Names, o \in Owned :
        /\ upload[r].file = f /\ upload[r].owner = o
        /\ f \in taken /\ record[f] = NoRow
        /\ \A q \in Callers \ {r} : upload[q].at \in Uploading => upload[q].file # f
  BY <1>1, HasItsFile
<1>3. PICK y : y = F!Done
  OBVIOUS
<1>4. upload' = [upload EXCEPT ![r] = y]
      /\ \/ /\ ~F!Refuses(o) /\ record' = [record EXCEPT ![f] = o] /\ UNCHANGED <<disk, left>>
         \/ /\ disk' = IF o \in Invoices THEN disk \ {f} ELSE disk
            /\ left' = IF o \in Invoices THEN left ELSE left \cup {f}
            /\ UNCHANGED record
  BY <1>2, <1>3 DEF F!Creates, F!Goes
<1>5. y.at \notin Uploading /\ HandlesOn(y, taken', record', disk')
  BY <1>3, DoneHandles DEF Handling, HandlesOn, Uploading
<1>6. f \in disk /\ o # NoRow
  BY <1>1, <1>2, NoRowAssumption DEF Filed, Handling, HandlesOn, Owned
<1>7. CASE ~F!Refuses(o) /\ record' = [record EXCEPT ![f] = o] /\ UNCHANGED <<disk, left>>
  <2>1. record' = [g \in Names |-> record'[g]] /\ disk' \subseteq Names /\ record'[f] = o
        /\ \A g \in Names \ {f} : record'[g] = record[g]
    BY <1>7 DEF Filed
  <2>2. enforced /\ o \in Invoices => o \in owners
    BY <1>7 DEF F!Refuses
  <2>20. Moves(r, y, f)
    BY <1>1, <1>2, <1>4, <1>5, <1>6, <1>7, <2>1, <2>2 DEF Moves
  <2> QED BY <2>20, UploadGoesOn
<1>8. CASE /\ disk' = IF o \in Invoices THEN disk \ {f} ELSE disk
           /\ left' = IF o \in Invoices THEN left ELSE left \cup {f}
           /\ UNCHANGED record
  <2>1. record' = [g \in Names |-> record'[g]] /\ disk' \subseteq Names
        /\ \A g \in Names \ {f} : g \in disk' <=> g \in disk
    BY <1>8 DEF Filed
  <2>2. left \subseteq left' /\ (f \in disk' => f \in left')
    BY <1>8
  <2>20. Moves(r, y, f)
    BY <1>1, <1>2, <1>4, <1>5, <1>8, <2>1, <2>2 DEF Moves
  <2> QED BY <2>20, UploadGoesOn
<1> QED BY <1>4, <1>7, <1>8

LEMMA FindFiles ==
  ASSUME Filed, NEW r \in Callers, NEW f \in Names, F!FindAttachment(r, f), record[f] \in Owned
  PROVE  Filed'
<1>1. PICK y : y = F!At("remove", f, record[f])
  OBVIOUS
<1>2. upload[r] = F!NotYet /\ upload' = [upload EXCEPT ![r] = y]
      /\ UNCHANGED <<owners, disk, record, taken, enforced, left>>
  BY <1>1 DEF F!FindAttachment, F!Goes
<1>3. y.at = "remove" /\ y.file = f /\ y = F!At(y.at, y.file, y.owner) /\ y.at \notin Uploading
  BY <1>1 DEF F!At, Uploading
<1>4. HandlesOn(y, taken', record', disk')
  BY <1>2, <1>3 DEF Handling, HandlesOn, Uploading
<1>5. record[f] # NoRow
  BY NoRowAssumption DEF Owned
<1>6. \A q \in Callers : upload[q].at \in Uploading => upload[q].file # f
  BY <1>5 DEF Filed, Handling, HandlesOn
<1>7. upload[r].at \notin Uploading
  BY <1>2 DEF F!NotYet, F!At, Uploading
<1>8. record' = [g \in Names |-> record'[g]] /\ disk' \subseteq Names
      /\ f \in disk /\ f \in taken /\ (enforced /\ record[f] \in Invoices => record[f] \in owners)
  BY <1>2, <1>5 DEF Filed
<1>20. Moves(r, y, f)
  BY <1>2, <1>3, <1>4, <1>5, <1>6, <1>7, <1>8 DEF Moves
<1> QED BY <1>20, UploadGoesOn

LEMMA DeleteFiles == ASSUME Filed, NEW r \in Callers, F!DeleteAttachment(r) PROVE Filed'
<1>1. PICK f : f = upload[r].file
  OBVIOUS
<1>2. PICK y : y = F!Done
  OBVIOUS
<1>3. upload[r].at = "remove" /\ f \in Names
  BY <1>1 DEF F!DeleteAttachment, Filed, Handling, HandlesOn
<1>4. /\ upload' = [upload EXCEPT ![r] = y] /\ UNCHANGED <<owners, taken, enforced, disk>>
      /\ \/ UNCHANGED <<record, left>>
         \/ /\ record[f] # NoRow
            /\ record' = [record EXCEPT ![f] = NoRow] /\ left' = left \cup {f}
  BY <1>1, <1>2 DEF F!DeleteAttachment, F!Goes, F!Kept
<1>5. y.at \notin Uploading /\ y.at # "record" /\ HandlesOn(y, taken', record', disk')
  BY <1>2, DoneHandles DEF Handling, HandlesOn, Uploading
<1>6. CASE record[f] # NoRow
  <2>1. \A q \in Callers : upload[q].at \in Uploading => upload[q].file # f
    BY <1>6 DEF Filed, Handling, HandlesOn
  <2>2. upload[r].at \notin Uploading
    BY <1>3 DEF Uploading
  <2>3. /\ record' = [g \in Names |-> record'[g]] /\ disk' \subseteq Names
        /\ \A g \in Names \ {f} : record'[g] = record[g]
        /\ record'[f] = record[f] \/ (record'[f] = NoRow /\ f \in left')
    BY <1>3, <1>4 DEF Filed
  <2>4. f \in disk /\ f \in taken /\ record[f] \in Owned
        /\ (enforced /\ record[f] \in Invoices => record[f] \in owners)
    BY <1>3, <1>6 DEF Filed
  <2>5. left \subseteq left'
    BY <1>4
  <2>20. Moves(r, y, f)
    BY <1>3, <1>4, <1>5, <1>6, <2>1, <2>2, <2>3, <2>4, <2>5 DEF Moves
  <2> QED BY <1>3, <2>20, UploadGoesOn
<1>7. CASE record[f] = NoRow
  <2>1. UNCHANGED <<owners, taken, enforced, disk, record, left>>
    BY <1>4, <1>7
  <2>2. upload' = [q \in Callers |-> upload'[q]]
        /\ \A q \in Callers : upload'[q] = IF q = r THEN y ELSE upload[q]
    BY <1>4 DEF Filed
  <2>3. ASSUME NEW q \in Callers PROVE HandlesOn(upload'[q], taken', record', disk')
    <3>1. CASE q = r
      BY <1>5, <2>2, <3>1 DEF Handling, HandlesOn
    <3>2. CASE q # r
      BY <2>1, <2>2, <3>2 DEF Filed, Handling, HandlesOn
    <3> QED BY <3>1, <3>2
  <2>4. \A g \in disk' : \/ record'[g] # NoRow \/ g \in left'
                         \/ \E q \in Callers : upload'[q].at = "record" /\ upload'[q].file = g
    <3>1. SUFFICES ASSUME NEW g \in disk, record[g] = NoRow, g \notin left
                   PROVE  \E q \in Callers : upload'[q].at = "record" /\ upload'[q].file = g
      BY <2>1
    <3>2. PICK q \in Callers : upload[q].at = "record" /\ upload[q].file = g
      BY <3>1 DEF Filed
    <3> QED BY <1>3, <2>2, <3>2
  <2>5. \A p, q \in Callers :
          upload'[p].at \in Uploading /\ upload'[q].at \in Uploading /\ upload'[p].file = upload'[q].file
            => p = q
    BY <1>5, <2>2 DEF Filed
  <2> QED BY <2>1, <2>2, <2>3, <2>4, <2>5 DEF Filed, Handling
<1> QED BY <1>6, <1>7

LEMMA OwnerGoes == ASSUME Filed, NEW o \in Owned, F!DeletesOwner(o) PROVE Filed'
<1>1. /\ owners' = owners \ {o} /\ UNCHANGED <<disk, record, upload, taken, enforced, left>>
      /\ enforced /\ o \in Invoices => F!Held(o) = {}
  BY DEF F!DeletesOwner
<1>2. ASSUME enforced, NEW f \in Names, record[f] \in Invoices PROVE record[f] \in owners'
  <2>1. record[f] \in owners
    BY <1>2 DEF Filed
  <2>2. record[f] # o
    <3>1. SUFFICES ASSUME record[f] = o PROVE FALSE
      OBVIOUS
    <3>2. F!Held(o) = {}
      BY <1>1, <1>2, <3>1
    <3> QED BY <3>1, <3>2 DEF F!Held
  <2> QED BY <1>1, <2>1, <2>2
<1>3. \A q \in Callers : HandlesOn(upload'[q], taken', record', disk')
  BY <1>1 DEF Filed, Handling
<1> QED BY <1>1, <1>2, <1>3 DEF Filed, Handling

(* A crash ends every request, wherever it is *)
LEMMA CrashFiles == ASSUME Filed, F!Crash PROVE Filed'
<1>1. PICK x : x = F!NotYet
  OBVIOUS
<1>2. PICK y : y = F!Done
  OBVIOUS
<1>3. /\ UNCHANGED <<owners, record, taken, enforced>>
      /\ upload' = [r \in Callers |-> IF upload[r] = x THEN x ELSE y]
      /\ left' = left \cup {upload[r].file : r \in {q \in Callers : upload[q].at \in {"write", "record"}}}
  BY <1>1, <1>2 DEF F!Crash
<1>4. PICK parts \in SUBSET {upload[r].file : r \in {q \in Callers : upload[q].at = "write"}} :
        disk' = disk \cup parts
  BY DEF F!Crash
<1>5. \A f \in parts : f \in Names /\ f \in left'
  <2>1. SUFFICES ASSUME NEW f \in parts PROVE f \in Names /\ f \in left'
    OBVIOUS
  <2>2. PICK r \in Callers : upload[r].at = "write" /\ upload[r].file = f
    BY <1>4, <2>1
  <2>3. f \in Names
    BY <2>2, HasItsFile DEF Uploading
  <2> QED BY <1>3, <2>2, <2>3
<1>6. \A z \in {x, y} : HandlesOn(z, taken', record', disk') /\ z.at \notin Uploading
  <2>1. x.at = "new" /\ x = F!At(x.at, x.file, x.owner)
    BY <1>1 DEF F!NotYet, F!At
  <2>2. y.at = "done" /\ y = F!At(y.at, y.file, y.owner)
    BY <1>2 DEF F!Done, F!At
  <2> QED BY <2>1, <2>2 DEF HandlesOn, Uploading
<1>7. \A q \in Callers : upload'[q] \in {x, y}
  BY <1>3
<1>8. \A f \in disk' : record'[f] # NoRow \/ f \in left'
  <2>1. SUFFICES ASSUME NEW f \in disk, record[f] = NoRow, f \notin left PROVE f \in left'
    BY <1>3, <1>4, <1>5
  <2>2. PICK r \in Callers : upload[r].at = "record" /\ upload[r].file = f
    BY <2>1, Zenon DEF Filed
  <2> QED BY <1>3, <2>2
<1>9. disk' \subseteq Names /\ disk \subseteq disk'
  BY <1>4, <1>5 DEF Filed
<1>10. \A q \in Callers : HandlesOn(upload'[q], taken', record', disk') /\ upload'[q].at \notin Uploading
  BY <1>6, <1>7
<1>11. upload' = [q \in Callers |-> upload'[q]]
  BY <1>3
<1> QED BY <1>3, <1>8, <1>9, <1>10, <1>11 DEF Filed, Handling

LEMMA FiledStands == ASSUME Filed, F!Next PROVE Filed'
<1>1. ASSUME NEW r \in Callers, NEW f \in Names, NEW i \in Invoices, F!CreateInvoiceAttachment(r, i, f)
      PROVE  Filed'
  BY <1>1, ComesFiles DEF F!CreateInvoiceAttachment, Owned
<1>2. ASSUME NEW r \in Callers, NEW f \in Names, NEW e \in Expenses, F!UploadExpenseAttachment(r, e, f)
      PROVE  Filed'
  BY <1>2, ComesFiles DEF F!UploadExpenseAttachment, Owned
<1>3. ASSUME NEW r \in Callers, NEW f \in Names,
             F!DeleteInvoiceAttachment(r, f) \/ F!DeleteExpenseAttachment(r, f)
      PROVE  Filed'
  BY <1>3, FindFiles DEF F!DeleteInvoiceAttachment, F!DeleteExpenseAttachment, Owned
<1>4. ASSUME NEW r \in Callers, F!Verifies(r) \/ F!SaveFile(r) \/ F!Creates(r) \/ F!DeleteAttachment(r)
      PROVE  Filed'
  BY <1>4, VerifiesFiles, SaveFiles, CreatesFiles, DeleteFiles
<1>5. ASSUME NEW o \in Owned, F!DeletesOwner(o) PROVE Filed'
  BY <1>5, OwnerGoes
<1> QED BY <1>1, <1>2, <1>3, <1>4, <1>5, CrashFiles, Zenon DEF F!Next, Owned

LEMMA FiledRests == ASSUME Filed, UNCHANGED attached PROVE Filed'
BY DEF attached, Filed, Handling, HandlesOn

LEMMA FilesHold == Filed => F!FilesAreKept
<1> SUFFICES ASSUME Filed PROVE F!FilesAreKept
  OBVIOUS
<1>1. \A f \in Names : record[f] # NoRow => f \in disk
  BY DEF Filed
<1>2. F!Sent \subseteq disk
  BY <1>1, NoRowAssumption DEF F!Sent
<1>3. ASSUME NEW o \in Invoices \cup Expenses PROVE F!Listed(o) \subseteq disk
  BY <1>1, NoRowAssumption DEF F!Listed, F!Held
<1>4. F!RecordedIsThere
  BY <1>2, <1>3 DEF F!RecordedIsThere
<1>5. ASSUME NEW f \in disk, record[f] = NoRow, f \notin left
      PROVE  \E r \in Callers : upload[r] = F!At("record", f, upload[r].owner)
  <2>1. PICK r \in Callers : upload[r].at = "record" /\ upload[r].file = f
    BY <1>5 DEF Filed
  <2>2. upload[r] = F!At(upload[r].at, upload[r].file, upload[r].owner)
    BY DEF Filed, Handling, HandlesOn
  <2> QED BY <2>1, <2>2
<1>6. ASSUME enforced, NEW o \in Invoices PROVE F!Held(o) = F!Listed(o)
  <2>1. CASE o \in owners
    BY <2>1 DEF F!Listed
  <2>2. CASE o \notin owners
    <3>1. F!Held(o) = {}
      BY <1>6, <2>2 DEF F!Held, Filed
    <3> QED BY <3>1 DEF F!Listed
  <2> QED BY <2>1, <2>2
<1>7. F!LeftHaveACause
  BY <1>5, <1>6 DEF F!LeftHaveACause
<1> QED BY <1>4, <1>7 DEF F!FilesAreKept

-----------------------------------------------------------------------------
(* The server.  There are requests only from the moment it serves, and     *)
(* whoever asks for its health keeps what he met: what a check is told is  *)
(* among it, or the server was told to stop, and stays so to its end.      *)
Serving  == {"serving", "closing", "waiting", "exiting"}
Stopping == {"closing", "waiting", "exiting"}
Early    == {"configuring", "connecting", "caching", "migrating", "fetching", "starting"}
Opened   == {"caching", "migrating", "fetching", "starting", "listening",
             "serving", "closing", "waiting"}

Asked(q) == q.is # "idle" /\ q.kind = "health"

Looks(q, checkers, stops) ==
  /\ q.left \subseteq checkers /\ (q.is = "answered" => q.left = {})
  /\ q.status = "healthy" => \A c \in checkers \ q.left : <<c, TRUE>> \in q.met
  /\ q.status # "healthy" => (\E c \in checkers : <<c, FALSE>> \in q.met) \/ stops

Pinged(q, stops) ==
  /\ q.status = "healthy" => <<"database", TRUE>> \in q.met
  /\ q.status # "healthy" => <<"database", FALSE>> \in q.met \/ <<"pool", FALSE>> \in q.met \/ stops

Requested(q, checkers, when) ==
  /\ q = [is |-> q.is, kind |-> q.kind, left |-> q.left, status |-> q.status, met |-> q.met]
  /\ q.is \in {"idle", "open", "answered"} /\ q.status \in {"healthy", "unhealthy"}
  /\ q.is # "idle" => when \in Serving
  /\ q.is = "answered" => q.kind \in {"health", "ready"}
  /\ Asked(q) => Looks(q, checkers, when \in Stopping)
  /\ q.is = "answered" /\ q.kind = "ready" => Pinged(q, when \in Stopping)

Meets(q, services, full) ==
  q.is = "open" /\ q.kind \in {"health", "ready"} =>
    /\ \A c \in {"database", "redis"} : /\ c \in services => <<c, TRUE>> \in q.met
                                        /\ c \notin services => <<c, FALSE>> \in q.met
    /\ full => <<"pool", FALSE>> \in q.met

RequestsAre ==
  /\ request = [r \in Requests |-> request[r]]
  /\ \A r \in Requests : Requested(request[r], S!Checkers, phase)
  /\ \A r \in Requests : Meets(request[r], up, S!Full(request))

EndIs ==
  /\ phase \in Opened => database = "open"
  /\ phase \in {"waiting", "exiting"} =>
       \A r \in Requests : request[r].is = "open" => "requests" \in late
  /\ phase = "exiting" => "goroutines" \in late \/ \A a \in Actors : actor[a] \in {"stopped", "dead"}

RatesAre ==
  /\ phase \in Early => cron = "none" /\ lock = "free" /\ rates # "fetched"
  /\ lock = "lost" => rates = "nil" /\ cron = "dead"
  /\ rates = "fetched" => cron # "none"

Served == RequestsAre /\ EndIs /\ RatesAre

LEMMA IdleIs ==
  ASSUME NEW checkers, NEW when, NEW services, NEW full
  PROVE  Requested(S!Idle, checkers, when) /\ Meets(S!Idle, services, full) /\ S!Idle.is = "idle"
BY DEF Requested, Meets, Asked, S!Idle

LEMMA ServedStarts == ASSUME S!Init PROVE Served
<1>1. PICK x : x = S!Idle
  OBVIOUS
<1>2. request = [r \in Requests |-> x]
  BY <1>1, Zenon DEF S!Init
<1>3. \A r \in Requests : request[r] = x
  BY <1>2, Zenon
<1>4. Requested(x, S!Checkers, phase) /\ Meets(x, up, S!Full(request)) /\ x.is = "idle"
  BY <1>1, IdleIs
<1>5. RequestsAre
  BY <1>2, <1>3, <1>4, Zenon DEF RequestsAre
<1>6. EndIs
  BY DEF S!Init, EndIs, Opened
<1>7. RatesAre
  BY DEF S!Init, RatesAre
<1> QED BY <1>5, <1>6, <1>7 DEF Served

(* The pool is not fuller with fewer transactions *)
LEMMA PoolEmpties ==
  ASSUME NEW one, NEW other,
         \A r \in Requests : other[r].is = "open" /\ other[r].kind = "transaction"
                               => one[r].is = "open" /\ one[r].kind = "transaction",
         S!Full(other)
  PROVE  S!Full(one)
<1>1. PICK X : X = {r \in Requests : one[r].is = "open" /\ one[r].kind = "transaction"}
  OBVIOUS
<1>2. PICK Y : Y = {r \in Requests : other[r].is = "open" /\ other[r].kind = "transaction"}
  OBVIOUS
<1>3. X \subseteq Requests /\ Y \subseteq X
  BY <1>1, <1>2
<1>4. IsFiniteSet(X) /\ IsFiniteSet(Y) /\ Cardinality(Y) <= Cardinality(X)
      /\ Cardinality(X) \in Nat /\ Cardinality(Y) \in Nat
  BY <1>3, RequestsAssumption, FS_Subset, FS_CardinalityType
<1>5. Cardinality(Y) >= PoolSize
  BY <1>2 DEF S!Full, S!Cardinality, Cardinality
<1>6. Cardinality(X) >= PoolSize
  BY <1>4, <1>5, RequestsAssumption
<1> QED BY <1>1, <1>6 DEF S!Full, S!Cardinality, Cardinality

(* Nothing happens to the requests: main goes on, and only while nobody    *)
(* asks does it change what is looked at                                   *)
LEMMA RequestsWait ==
  ASSUME RequestsAre, UNCHANGED <<request, up>>,
         phase \in Serving => phase' \in Serving /\ redis' = redis,
         phase \in Stopping => phase' \in Stopping
  PROVE  RequestsAre'
<1>1. ASSUME NEW r \in Requests PROVE Requested(request[r], S!Checkers, phase)'
  <2>1. PICK q : q = request[r]
    OBVIOUS
  <2>2. Requested(q, S!Checkers, phase) /\ request'[r] = q
    BY <2>1 DEF RequestsAre
  <2>3. Requested(q, S!Checkers', phase')
    <3>1. CASE q.is = "idle"
      BY <2>2, <3>1 DEF Requested, Asked
    <3>2. CASE q.is # "idle"
      <4>1. phase' \in Serving /\ S!Checkers' = S!Checkers
        BY <2>2, <3>2 DEF Requested, S!Checkers
      <4> QED BY <2>2, <4>1 DEF Requested, Looks, Pinged
    <3> QED BY <3>1, <3>2
  <2> QED BY <2>2, <2>3
<1>2. \A r \in Requests : Meets(request[r], up, S!Full(request))'
  BY DEF RequestsAre, S!Full
<1> QED BY <1>1, <1>2 DEF RequestsAre

(* One request goes on *)
LEMMA OneGoesOn ==
  ASSUME RequestsAre, NEW r \in Requests, NEW z, request' = [request EXCEPT ![r] = z],
         UNCHANGED <<phase, up, redis>>,
         Requested(z, S!Checkers, phase), Meets(z, up, S!Full(request)),
         z.is = "open" /\ z.kind = "transaction" => request[r].is = "open" /\ request[r].kind = "transaction"
  PROVE  RequestsAre'
<1>1. request' = [q \in Requests |-> request'[q]]
      /\ \A q \in Requests : request'[q] = IF q = r THEN z ELSE request[q]
  BY DEF RequestsAre
<1>2. S!Checkers' = S!Checkers
  BY DEF S!Checkers
<1>3. S!Full(request') => S!Full(request)
  BY <1>1, PoolEmpties
<1>4. ASSUME NEW q \in Requests
      PROVE  Requested(request'[q], S!Checkers', phase') /\ Meets(request'[q], up', S!Full(request'))
  <2>1. PICK x : x = request'[q]
    OBVIOUS
  <2>2. Requested(x, S!Checkers, phase) /\ Meets(x, up, S!Full(request))
    BY <1>1, <2>1 DEF RequestsAre
  <2>3. Meets(x, up, S!Full(request'))
    BY <1>3, <2>2 DEF Meets
  <2> QED BY <1>2, <2>1, <2>2, <2>3
<1> QED BY <1>1, <1>4 DEF RequestsAre

(* What is under way meets what is up, and forgets nothing *)
Told(met, asking, services, checkers, when) ==
  /\ met = [r \in Requests |-> met[r]]
  /\ \A r \in Requests : Requested(met[r], checkers, when) /\ Meets(met[r], services, S!Full(met))
  /\ \A r \in Requests : met[r].is = asking[r].is

LEMMA AllMeet ==
  ASSUME NEW asking, NEW services, NEW checkers, NEW when, NEW met, met = S!Meeting(asking, services),
         \A r \in Requests : Requested(asking[r], checkers, when)
  PROVE  Told(met, asking, services, checkers, when)
<1>1. PICK seen : seen = {<<c, c \in services>> : c \in {"database", "redis"}}
                           \cup (IF S!Full(asking) THEN {<<"pool", FALSE>>} ELSE {})
  OBVIOUS
<1>2. met = [r \in Requests |-> IF asking[r].is = "open" /\ asking[r].kind \in {"health", "ready"}
                                THEN [asking[r] EXCEPT !.met = @ \cup seen] ELSE asking[r]]
  BY <1>1 DEF S!Meeting
<1>3. /\ \A c \in {"database", "redis"} : /\ c \in services => <<c, TRUE>> \in seen
                                          /\ c \notin services => <<c, FALSE>> \in seen
      /\ S!Full(asking) => <<"pool", FALSE>> \in seen
  <2>1. ASSUME NEW c \in {"database", "redis"}, NEW b \in BOOLEAN, (c \in services) = b
        PROVE  <<c, b>> \in seen
    BY <1>1, <2>1
  <2>2. ASSUME NEW c \in {"database", "redis"}, c \in services PROVE <<c, TRUE>> \in seen
    <3>1. (c \in services) = TRUE
      BY <2>2, Zenon
    <3> QED BY <2>1, <3>1, Zenon
  <2>3. ASSUME NEW c \in {"database", "redis"}, c \notin services PROVE <<c, FALSE>> \in seen
    <3>1. (c \in services) = FALSE
      BY <2>3
    <3> QED BY <2>1, <3>1, Zenon
  <2> QED BY <1>1, <2>2, <2>3
<1>4. ASSUME NEW r \in Requests
      PROVE  /\ Requested(met[r], checkers, when) /\ Meets(met[r], services, S!Full(asking))
             /\ met[r].is = asking[r].is /\ met[r].kind = asking[r].kind
  <2>1. PICK q : q = asking[r]
    OBVIOUS
  <2>2. Requested(q, checkers, when)
    BY <2>1
  <2>3. CASE q.is = "open" /\ q.kind \in {"health", "ready"}
    <3>1. PICK x : x = [q EXCEPT !.met = @ \cup seen]
      OBVIOUS
    <3>2. met[r] = x
      BY <1>2, <2>1, <2>3, <3>1
    <3>3. /\ x = [is |-> q.is, kind |-> q.kind, left |-> q.left, status |-> q.status, met |-> q.met \cup seen]
          /\ x.is = q.is /\ x.kind = q.kind /\ x.left = q.left /\ x.status = q.status
          /\ x.met = q.met \cup seen
      BY <2>2, <3>1 DEF Requested
    <3>4. Requested(x, checkers, when)
      BY <2>2, <2>3, <3>3 DEF Requested, Asked, Looks, Pinged
    <3>5. Meets(x, services, S!Full(asking))
      BY <1>3, <3>3 DEF Meets
    <3> QED BY <2>1, <3>2, <3>3, <3>4, <3>5
  <2>4. CASE ~(q.is = "open" /\ q.kind \in {"health", "ready"})
    <3>1. met[r] = q
      BY <1>2, <2>1, <2>4
    <3> QED BY <2>1, <2>2, <2>4, <3>1 DEF Meets
  <2> QED BY <2>3, <2>4
<1>5. S!Full(met) => S!Full(asking)
  BY <1>4, PoolEmpties
<1>6. \A r \in Requests : Meets(met[r], services, S!Full(met))
  BY <1>4, <1>5 DEF Meets
<1>7. met = [r \in Requests |-> met[r]]
  BY <1>2
<1> QED BY <1>4, <1>6, <1>7 DEF Told

LEMMA ChangesRequests == ASSUME RequestsAre, S!Changes PROVE RequestsAre'
<1>1. request' = S!Meeting(request, up') /\ UNCHANGED <<phase, redis>>
  BY DEF S!Changes
<1>2. S!Checkers' = S!Checkers
  BY <1>1 DEF S!Checkers
<1>3. \A r \in Requests : Requested(request[r], S!Checkers, phase)
  BY DEF RequestsAre
<1>4. PICK met : met = request'
  OBVIOUS
<1>5. Told(met, request, up', S!Checkers, phase)
  BY <1>1, <1>3, <1>4, AllMeet
<1> QED BY <1>1, <1>2, <1>4, <1>5 DEF RequestsAre, Told

LEMMA ArrivesAre == ASSUME RequestsAre, NEW r \in Requests, S!Arrives(r), UNCHANGED <<phase, up, redis>> PROVE RequestsAre'
<1>1. PICK kind \in {"health", "ready", "transaction", "rate"} :
        request' = S!Meeting([request EXCEPT ![r] =
                     [S!Idle EXCEPT !.is = "open", !.kind = kind,
                                    !.left = IF kind = "health" THEN S!Checkers ELSE {}]], up)
  BY DEF S!Arrives
<1>2. PICK z : z = [S!Idle EXCEPT !.is = "open", !.kind = kind,
                                  !.left = IF kind = "health" THEN S!Checkers ELSE {}]
  OBVIOUS
<1>3. /\ z = [is |-> z.is, kind |-> z.kind, left |-> z.left, status |-> z.status, met |-> z.met]
      /\ z.is = "open" /\ z.kind = kind /\ z.status = "healthy"
      /\ z.left = IF kind = "health" THEN S!Checkers ELSE {}
  BY <1>2 DEF S!Idle
<1>4. Requested(z, S!Checkers, phase)
  BY <1>3 DEF S!Arrives, Requested, Asked, Looks, Serving
<1>5. PICK asking : asking = [request EXCEPT ![r] = z]
  OBVIOUS
<1>6. \A q \in Requests : Requested(asking[q], S!Checkers, phase)
  BY <1>4, <1>5 DEF RequestsAre
<1>7. PICK met : met = request'
  OBVIOUS
<1>8. met = S!Meeting(asking, up)
  BY <1>1, <1>2, <1>5, <1>7
<1>9. Told(met, asking, up, S!Checkers, phase)
  <2>1. PICK c, w, u : c = S!Checkers /\ w = phase /\ u = up
    OBVIOUS
  <2>2. met = S!Meeting(asking, u) /\ \A q \in Requests : Requested(asking[q], c, w)
    BY <1>6, <1>8, <2>1
  <2>3. Told(met, asking, u, c, w)
    BY <2>2, AllMeet
  <2> QED BY <2>1, <2>3
<1>10. S!Checkers' = S!Checkers
  BY DEF S!Checkers
<1> QED BY <1>7, <1>9, <1>10 DEF RequestsAre, Told

(* A check is told what it met *)
LEMMA ToldAsMet ==
  ASSUME RequestsAre, EndIs, NEW r \in Requests, S!Open(r), NEW c \in S!Checkers,
         request[r].kind \in {"health", "ready"},
         NEW status \in S!Status(c) \cup (IF S!TellsToStop THEN {"unhealthy"} ELSE {})
  PROVE  /\ status \in {"healthy", "unhealthy"}
         /\ status = "healthy" => <<c, TRUE>> \in request[r].met
         /\ status = "unhealthy" => <<c, FALSE>> \in request[r].met \/ phase \in Stopping
<1>1. c \in {"database", "redis"}
  BY DEF S!Checkers
<1>2. /\ c \in up => <<c, TRUE>> \in request[r].met
      /\ c \notin up => <<c, FALSE>> \in request[r].met
  BY <1>1 DEF RequestsAre, Meets, S!Open
<1>3. phase \in Serving
  BY DEF RequestsAre, Requested, S!Open
<1>4. database = "closed" => phase \in Stopping
  BY <1>3 DEF EndIs, Serving, Opened, Stopping
<1>5. status \in {"healthy", "unhealthy"} /\ (status = "healthy" => c \in up)
      /\ (status = "unhealthy" => c \notin up \/ database = "closed" \/ phase \in Stopping)
  BY DEF S!Status, S!Has, S!TellsToStop, Stopping
<1> QED BY <1>2, <1>4, <1>5

LEMMA ChecksAre ==
  ASSUME RequestsAre, EndIs, NEW r \in Requests, S!Checks(r), UNCHANGED <<phase, up, redis>>
  PROVE  RequestsAre'
<1>1. PICK q : q = request[r]
  OBVIOUS
<1>2. Requested(q, S!Checkers, phase) /\ Meets(q, up, S!Full(request))
  BY <1>1 DEF RequestsAre
<1>3. PICK c \in q.left :
        \E status \in S!Status(c) \cup (IF S!TellsToStop THEN {"unhealthy"} ELSE {}) :
          /\ q.is = "open" /\ q.kind = "health"
          /\ request' = [request EXCEPT ![r].left = @ \ {c}, ![r].status = S!Worse(@, status)]
  BY <1>1 DEF S!Checks, S!Holds, S!Open
<1>4. PICK status \in S!Status(c) \cup (IF S!TellsToStop THEN {"unhealthy"} ELSE {}) :
        /\ q.is = "open" /\ q.kind = "health"
        /\ request' = [request EXCEPT ![r].left = @ \ {c}, ![r].status = S!Worse(@, status)]
  BY <1>3
<1>5. PICK z : z = [is |-> q.is, kind |-> q.kind, left |-> q.left \ {c},
                    status |-> S!Worse(q.status, status), met |-> q.met]
  OBVIOUS
<1>6. /\ z = [is |-> z.is, kind |-> z.kind, left |-> z.left, status |-> z.status, met |-> z.met]
      /\ z.is = "open" /\ z.kind = "health" /\ z.left = q.left \ {c} /\ z.met = q.met
      /\ z.status = S!Worse(q.status, status)
  BY <1>4, <1>5
<1>7. request' = [request EXCEPT ![r] = z]
  <2>1. q = [is |-> q.is, kind |-> q.kind, left |-> q.left, status |-> q.status, met |-> q.met]
    BY <1>2 DEF Requested
  <2>2. request = [p \in Requests |-> request[p]]
    BY DEF RequestsAre
  <2>3. PICK one : one = [request EXCEPT ![r].left = @ \ {c}]
    OBVIOUS
  <2>4. /\ one = [p \in Requests |-> one[p]] /\ \A p \in Requests \ {r} : one[p] = request[p]
        /\ one[r] = [is |-> q.is, kind |-> q.kind, left |-> q.left \ {c}, status |-> q.status, met |-> q.met]
    BY <1>1, <2>1, <2>2, <2>3
  <2>5. request' = [one EXCEPT ![r].status = S!Worse(@, status)]
    BY <1>4, <2>3
  <2>6. request'[r] = [one[r] EXCEPT !.status = S!Worse(@, status)]
    BY <2>4, <2>5
  <2>7. request'[r] = z
    BY <1>5, <2>4, <2>6
  <2>8. request' = [p \in Requests |-> IF p = r THEN z ELSE request[p]]
    BY <2>4, <2>5, <2>7
  <2> QED BY <2>2, <2>8
<1>8. Looks(q, S!Checkers, phase \in Stopping) /\ q.status \in {"healthy", "unhealthy"} /\ phase \in Serving
  BY <1>2, <1>4 DEF Requested, Asked
<1>9. c \in S!Checkers
  BY <1>8 DEF Looks
<1>10. /\ status \in {"healthy", "unhealthy"}
       /\ status = "healthy" => <<c, TRUE>> \in q.met
       /\ status = "unhealthy" => <<c, FALSE>> \in q.met \/ phase \in Stopping
  BY <1>1, <1>4, <1>9, ToldAsMet DEF S!Open
<1>11. /\ z.status \in {"healthy", "unhealthy"}
       /\ z.status = "healthy" <=> (q.status = "healthy" /\ status = "healthy")
  BY <1>6, <1>8, <1>10 DEF S!Worse
<1>12. Looks(z, S!Checkers, phase \in Stopping)
  BY <1>6, <1>8, <1>9, <1>10, <1>11 DEF Looks
<1>13. Requested(z, S!Checkers, phase)
  BY <1>6, <1>8, <1>11, <1>12 DEF Requested, Asked
<1>14. Meets(z, up, S!Full(request))
  BY <1>2, <1>4, <1>6 DEF Meets
<1> QED BY <1>1, <1>4, <1>6, <1>7, <1>13, <1>14, OneGoesOn

(* An answer *)
LEMMA AnswersAre ==
  ASSUME RequestsAre, NEW r \in Requests, S!Open(r), request[r].kind \in {"health", "ready"},
         NEW status \in {"healthy", "unhealthy"}, S!Answers(r, status), UNCHANGED <<phase, up, redis>>,
         request[r].kind = "health" => request[r].left = {} /\ status = request[r].status,
         request[r].kind = "ready" => Pinged([request[r] EXCEPT !.status = status], phase \in Stopping)
  PROVE  RequestsAre'
<1>1. PICK q : q = request[r]
  OBVIOUS
<1>2. Requested(q, S!Checkers, phase) /\ q.is = "open"
  BY <1>1 DEF RequestsAre, S!Open
<1>3. q = [is |-> q.is, kind |-> q.kind, left |-> q.left, status |-> q.status, met |-> q.met]
  BY <1>2 DEF Requested
<1>4. PICK z : z = [is |-> "answered", kind |-> q.kind, left |-> q.left, status |-> status, met |-> q.met]
  OBVIOUS
<1>5. /\ z = [is |-> z.is, kind |-> z.kind, left |-> z.left, status |-> z.status, met |-> z.met]
      /\ z.is = "answered" /\ z.kind = q.kind /\ z.left = q.left /\ z.met = q.met /\ z.status = status
  BY <1>4
<1>6. request' = [request EXCEPT ![r] = z]
  <2>1. request = [p \in Requests |-> request[p]]
    BY DEF RequestsAre
  <2>2. PICK one : one = [request EXCEPT ![r].is = "answered"]
    OBVIOUS
  <2>3. /\ one = [p \in Requests |-> one[p]] /\ \A p \in Requests \ {r} : one[p] = request[p]
        /\ one[r] = [is |-> "answered", kind |-> q.kind, left |-> q.left, status |-> q.status, met |-> q.met]
    BY <1>1, <1>3, <2>1, <2>2
  <2>4. request' = [one EXCEPT ![r].status = status]
    BY <2>2 DEF S!Answers
  <2>5. request'[r] = [one[r] EXCEPT !.status = status]
    BY <2>3, <2>4
  <2>6. request'[r] = z
    BY <1>4, <2>3, <2>5
  <2>7. request' = [p \in Requests |-> IF p = r THEN z ELSE request[p]]
    BY <2>3, <2>4, <2>6
  <2> QED BY <2>1, <2>7
<1>7. q.kind = "health" => Looks(z, S!Checkers, phase \in Stopping)
  BY <1>1, <1>2, <1>5 DEF Requested, Asked, Looks
<1>8. q.kind = "ready" => Pinged(z, phase \in Stopping)
  <2>1. PICK x : x = [q EXCEPT !.status = status]
    OBVIOUS
  <2>2. x.status = z.status /\ x.met = z.met
    BY <1>3, <1>5, <2>1
  <2>3. q.kind = "ready" => Pinged(x, phase \in Stopping)
    BY <1>1, <2>1
  <2> QED BY <2>2, <2>3 DEF Pinged
<1>9. Requested(z, S!Checkers, phase) /\ Meets(z, up, S!Full(request))
  BY <1>1, <1>2, <1>5, <1>7, <1>8 DEF Requested, Asked, Meets
<1> QED BY <1>5, <1>6, <1>9, OneGoesOn

LEMMA ReportsAre ==
  ASSUME RequestsAre, NEW r \in Requests, S!Reports(r), UNCHANGED <<phase, up, redis>>
  PROVE  RequestsAre'
<1>1. PICK status : status = request[r].status
  OBVIOUS
<1>2. S!Open(r) /\ request[r].kind = "health" /\ request[r].left = {} /\ S!Answers(r, status)
  BY <1>1 DEF S!Reports, S!Holds
<1>3. status \in {"healthy", "unhealthy"}
  BY <1>1 DEF RequestsAre, Requested
<1> QED BY <1>1, <1>2, <1>3, AnswersAre

LEMMA PingsAre ==
  ASSUME RequestsAre, EndIs, NEW r \in Requests, S!PingsReady(r), UNCHANGED <<phase, up, redis>>
  PROVE  RequestsAre'
<1>1. PICK q : q = request[r]
  OBVIOUS
<1>2. S!Open(r) /\ q.is = "open" /\ q.kind = "ready"
  BY <1>1 DEF S!PingsReady, S!Holds, S!Open
<1>3. Requested(q, S!Checkers, phase) /\ Meets(q, up, S!Full(request))
  BY <1>1 DEF RequestsAre
<1>4. q = [is |-> q.is, kind |-> q.kind, left |-> q.left, status |-> q.status, met |-> q.met]
      /\ phase \in Serving
  BY <1>2, <1>3 DEF Requested
<1>5. PICK status \in {"healthy", "unhealthy"} :
        /\ S!Answers(r, status)
        /\ status = "healthy" => "database" \in up
        /\ status = "unhealthy" => "database" \notin up \/ S!Full(request) \/ database = "closed"
  BY DEF S!PingsReady, S!Has, S!PoolIsFull
<1>6. database = "closed" => phase \in Stopping
  BY <1>4 DEF EndIs, Serving, Opened, Stopping
<1>7. PICK x : x = [q EXCEPT !.status = status]
  OBVIOUS
<1>8. x.status = status /\ x.met = q.met
  BY <1>4, <1>7
<1>9. Pinged(x, phase \in Stopping)
  BY <1>2, <1>3, <1>5, <1>6, <1>8 DEF Pinged, Meets
<1> QED BY <1>1, <1>2, <1>5, <1>7, <1>9, AnswersAre

(* A request that is done with is none *)
LEMMA LeavesNone ==
  ASSUME RequestsAre, NEW r \in Requests, request' = [request EXCEPT ![r] = S!Idle],
         UNCHANGED <<phase, up, redis>>
  PROVE  RequestsAre'
<1>1. PICK z : z = S!Idle
  OBVIOUS
<1>2. Requested(z, S!Checkers, phase) /\ Meets(z, up, S!Full(request)) /\ z.is = "idle"
  BY <1>1, IdleIs
<1> QED BY <1>1, <1>2, OneGoesOn

LEMMA ServedRequests == ASSUME Served, S!Next PROVE RequestsAre'
<1>1. RequestsAre /\ EndIs
  BY DEF Served
<1>2. CASE (S!Main /\ ~S!Exits) \/ S!Killed \/ S!Signal
  <2>1. /\ UNCHANGED <<request, up>> /\ (phase \in Stopping => phase' \in Stopping)
        /\ phase \in Serving => phase' \in Serving /\ redis' = redis
    BY <1>2 DEF S!Main, S!Configure, S!OpenDatabase, S!ConnectRedis, S!Migrate, S!FetchRates, S!StartActors,
       S!Listen, S!ShutsDown, S!WaitsForActors, S!ClosesDatabase, S!Killed, S!Signal, S!TellsToStop, S!Alive,
       S!Enter, S!Fatal, Serving, Stopping
  <2> QED BY <1>1, <2>1, RequestsWait
<1>3. CASE S!Exits
  <2>1. PICK x : x = S!Idle
    OBVIOUS
  <2>2. request' = [r \in Requests |-> x]
    BY <1>3, <2>1, Zenon DEF S!Exits
  <2>3. \A r \in Requests : request'[r] = x
    BY <2>2, Zenon
  <2>4. Requested(x, S!Checkers', phase') /\ Meets(x, up', S!Full(request'))
    BY <2>1, IdleIs
  <2> QED BY <2>2, <2>3, <2>4, Zenon DEF RequestsAre
<1>4. CASE S!FetchesDaily \/ \E a \in Actors : S!ActorStep(a)
  <2>1. UNCHANGED <<phase, request, up, redis>>
    BY <1>4 DEF S!FetchesDaily, S!ActorStep
  <2> QED BY <1>1, <2>1, RequestsWait
<1>5. ASSUME NEW r \in Requests, S!RequestStep(r) PROVE RequestsAre'
  <2>1. UNCHANGED <<phase, up, redis>>
    BY <1>5 DEF S!RequestStep
  <2>2. CASE S!Commits(r) \/ S!GetsRate(r)
    BY <1>1, <2>1, <2>2, LeavesNone DEF S!Commits, S!GetsRate
  <2> QED BY <1>1, <1>5, <2>1, <2>2, ArrivesAre, ChecksAre, ReportsAre, PingsAre, Zenon DEF S!RequestStep
<1>6. ASSUME NEW r \in Requests, S!Leaves(r) PROVE RequestsAre'
  BY <1>1, <1>6, LeavesNone DEF S!Leaves
<1> QED BY <1>1, <1>2, <1>3, <1>4, <1>5, <1>6, ChangesRequests, Zenon DEF S!Next

(* Only an arrival opens a request *)
LEMMA NobodyArrives ==
  ASSUME RequestsAre, S!Next, phase # "serving", NEW q \in Requests, request'[q].is = "open"
  PROVE  request[q].is = "open"
<1>1. CASE UNCHANGED request
  BY <1>1
<1>2. CASE S!Exits
  <2>1. PICK x : x = S!Idle
    OBVIOUS
  <2>2. x.is = "idle"
    BY <2>1, IdleIs
  <2>3. request'[q] = x
    BY <1>2, <2>1, Zenon DEF S!Exits
  <2> QED BY <2>2, <2>3
<1>3. CASE S!Changes
  <2>1. request' = S!Meeting(request, up')
    BY <1>3 DEF S!Changes
  <2>2. \A r \in Requests : Requested(request[r], S!Checkers, phase)
    BY DEF RequestsAre
  <2>3. PICK met : met = request'
    OBVIOUS
  <2>4. Told(met, request, up', S!Checkers, phase)
    BY <2>1, <2>2, <2>3, AllMeet
  <2> QED BY <2>3, <2>4 DEF Told
<1>4. ASSUME NEW r \in Requests, S!RequestStep(r) PROVE request[q].is = "open"
  <2>1. S!Commits(r) \/ S!GetsRate(r) \/ S!Checks(r) \/ S!Reports(r) \/ S!PingsReady(r)
    <3>1. ~S!Arrives(r)
      BY Zenon DEF S!Arrives
    <3> QED BY <1>4, <3>1, Zenon DEF S!RequestStep
  <2>2. request[r].is = "open"
    BY <2>1 DEF S!Commits, S!GetsRate, S!Checks, S!Reports, S!PingsReady, S!Holds, S!Open
  <2>3. \A p \in Requests \ {r} : request'[p] = request[p]
    <3>1. request = [p \in Requests |-> request[p]]
      BY DEF RequestsAre
    <3>2. CASE S!Commits(r) \/ S!GetsRate(r)
      BY <3>1, <3>2 DEF S!Commits, S!GetsRate
    <3>3. CASE S!Checks(r)
      BY <3>1, <3>3 DEF S!Checks
    <3>4. CASE S!Reports(r) \/ S!PingsReady(r)
      BY <3>1, <3>4 DEF S!Reports, S!PingsReady, S!Answers
    <3> QED BY <2>1, <3>2, <3>3, <3>4
  <2> QED BY <2>2, <2>3
<1>5. ASSUME NEW r \in Requests, S!Leaves(r) PROVE request[q].is = "open"
  <2>1. PICK x : x = S!Idle
    OBVIOUS
  <2>2. x.is = "idle" /\ request' = [request EXCEPT ![r] = x]
    BY <1>5, <2>1, IdleIs DEF S!Leaves
  <2> QED BY <2>2 DEF RequestsAre
<1>6. S!Exits \/ S!Changes \/ UNCHANGED request
      \/ \E r \in Requests : S!RequestStep(r) \/ S!Leaves(r)
  BY DEF S!Next, S!Main, S!Configure, S!OpenDatabase, S!ConnectRedis, S!Migrate, S!FetchRates, S!StartActors,
     S!Listen, S!ShutsDown, S!WaitsForActors, S!ClosesDatabase, S!Killed, S!Signal, S!FetchesDaily, S!ActorStep
<1> QED BY <1>1, <1>2, <1>3, <1>4, <1>5, <1>6

LEMMA ServedEnds == ASSUME Served, S!Next PROVE EndIs'
<1>1. RequestsAre /\ EndIs
  BY DEF Served
<1>2. phase' \in Opened => database' = "open"
  BY <1>1 DEF EndIs, Opened, S!Next, S!Main, S!Configure, S!OpenDatabase, S!ConnectRedis, S!Migrate, S!FetchRates,
     S!StartActors, S!Listen, S!ShutsDown, S!WaitsForActors, S!ClosesDatabase, S!Exits, S!Killed, S!Signal,
     S!Changes, S!FetchesDaily, S!ActorStep, S!RequestStep, S!Leaves, S!Enter, S!Fatal
<1>3. ASSUME phase' \in {"waiting", "exiting"}, NEW r \in Requests, request'[r].is = "open"
      PROVE  "requests" \in late'
  <2>1. phase \in {"closing", "waiting", "exiting"} /\ late \subseteq late'
        /\ (phase = "closing" => S!ShutsDown)
    BY <1>3 DEF S!Next, S!Main, S!Configure, S!OpenDatabase, S!ConnectRedis, S!Migrate, S!FetchRates,
       S!StartActors, S!Listen, S!ShutsDown, S!WaitsForActors, S!ClosesDatabase, S!Exits, S!Killed, S!Signal,
       S!Changes, S!FetchesDaily, S!ActorStep, S!RequestStep, S!Leaves, S!Enter, S!Fatal
  <2>2. request[r].is = "open"
    BY <1>1, <1>3, <2>1, NobodyArrives
  <2>3. CASE phase = "closing"
    BY <2>1, <2>2, <2>3 DEF S!ShutsDown, S!Open
  <2> QED BY <1>1, <2>1, <2>2, <2>3 DEF EndIs
<1>4. ASSUME phase' = "exiting", "goroutines" \notin late', NEW a \in Actors
      PROVE  actor'[a] \in {"stopped", "dead"}
  <2>1. CASE S!WaitsForActors
    BY <1>4, <2>1 DEF S!WaitsForActors, S!Gone
  <2>2. CASE ~S!WaitsForActors
    <3>1. phase = "exiting" /\ late' = late /\ (actor' = actor \/ \E b \in Actors : S!ActorStep(b))
      BY <1>4, <2>2 DEF S!Next, S!Main, S!Configure, S!OpenDatabase, S!ConnectRedis, S!Migrate, S!FetchRates,
         S!StartActors, S!Listen, S!ShutsDown, S!ClosesDatabase, S!Exits, S!Killed, S!Signal,
         S!Changes, S!FetchesDaily, S!ActorStep, S!RequestStep, S!Leaves, S!Enter, S!Fatal
    <3>2. \A b \in Actors : actor[b] \in {"stopped", "dead"}
      BY <1>1, <1>4, <3>1 DEF EndIs
    <3> QED BY <3>1, <3>2 DEF S!ActorStep, S!Ticks, S!Works, S!Panics, S!SeesStop
  <2> QED BY <2>1, <2>2
<1> QED BY <1>2, <1>3, <1>4 DEF EndIs

LEMMA ServedRates == ASSUME Served, S!Next PROVE RatesAre'
<1>1. RatesAre
  BY DEF Served
<1>2. CASE S!Main \/ S!Killed \/ S!Signal
  BY <1>1, <1>2 DEF RatesAre, Early, S!Main, S!Configure, S!OpenDatabase, S!ConnectRedis, S!Migrate, S!FetchRates,
     S!StartActors, S!Listen, S!ShutsDown, S!WaitsForActors, S!ClosesDatabase, S!Exits, S!Killed, S!Signal,
     S!Enter, S!Fatal
<1>3. CASE S!FetchesDaily
  BY <1>1, <1>3 DEF RatesAre, S!FetchesDaily
<1>4. CASE UNCHANGED <<phase, cron, lock, rates>>
  BY <1>1, <1>4 DEF RatesAre
<1>5. S!Main \/ S!Killed \/ S!Signal \/ S!FetchesDaily \/ UNCHANGED <<phase, cron, lock, rates>>
  BY DEF S!Next, S!Changes, S!ActorStep, S!RequestStep, S!Leaves
<1> QED BY <1>2, <1>3, <1>4, <1>5

LEMMA ServedStands == ASSUME Served, S!Next PROVE Served'
BY ServedRequests, ServedEnds, ServedRates DEF Served

LEMMA ServedRests == ASSUME Served, UNCHANGED server PROVE Served'
BY DEF server, Served, RequestsAre, EndIs, RatesAre, S!Checkers, S!Full

LEMMA ServedHolds == Served => S!ClosedOnStragglers /\ S!HealthTells /\ S!RatesComeLater
<1> SUFFICES ASSUME Served PROVE S!ClosedOnStragglers /\ S!HealthTells /\ S!RatesComeLater
  OBVIOUS
<1>1. S!ClosedOnStragglers
  BY DEF Served, EndIs, S!ClosedOnStragglers, S!Open
<1>2. S!RatesComeLater
  BY DEF Served, RatesAre, S!RatesComeLater
<1>3. ASSUME NEW r \in Requests, request[r].is = "answered"
      PROVE  LET met == request[r].met
                 asked == IF request[r].kind = "health" THEN S!Checkers ELSE {"database"}
             IN  IF request[r].status = "healthy"
                 THEN \A c \in asked : <<c, TRUE>> \in met
                 ELSE \/ \E c \in asked : <<c, FALSE>> \in met
                      \/ request[r].kind = "ready" /\ <<"pool", FALSE>> \in met
                      \/ S!TellsToStop
  <2>1. PICK q : q = request[r]
    OBVIOUS
  <2>2. Requested(q, S!Checkers, phase) /\ q.is = "answered"
    BY <1>3, <2>1 DEF Served, RequestsAre
  <2>3. CASE q.kind = "health"
    <3>1. Looks(q, S!Checkers, phase \in Stopping) /\ q.left = {}
      BY <2>2, <2>3 DEF Requested, Asked, Looks
    <3> QED BY <2>1, <2>3, <3>1 DEF Looks, S!TellsToStop, Stopping
  <2>4. CASE q.kind = "ready"
    <3>1. Pinged(q, phase \in Stopping)
      BY <2>2, <2>4 DEF Requested
    <3> QED BY <2>1, <2>4, <3>1 DEF Pinged, S!TellsToStop, Stopping
  <2> QED BY <2>2, <2>3, <2>4 DEF Requested
<1>4. S!HealthTells
  BY <1>3 DEF S!HealthTells
<1> QED BY <1>1, <1>2, <1>4

-----------------------------------------------------------------------------
(* Whatever a replica does, its server, its migrations, its copies and its  *)
(* files keep what they promise: for any number of replicas, versions,     *)
(* statements, pages, requests and files.                                  *)
THEOREM ReplicaStands == PlatformSpec => []ReplicaIsSound
<1> DEFINE Standing == Served /\ Migrated /\ Copied /\ Filed
<1>1. PlatformInit => Standing
  BY ServedStarts, MigratedStarts, CopiedStarts, FiledStarts DEF PlatformInit
<1>2. Standing /\ [PlatformNext]_all => Standing'
  <2> SUFFICES ASSUME Served, Migrated, Copied, Filed, [PlatformNext]_all PROVE Standing'
    OBVIOUS
  <2>1. CASE UNCHANGED <<server, migrations, backups, attached>>
    BY <2>1, ServedRests, MigratedRests, CopiedRests, FiledRests
  <2>2. CASE ServerStep /\ S!Next
    <3>1. UNCHANGED migrations /\ UNCHANGED backups /\ UNCHANGED attached
      BY <2>2 DEF ServerStep
    <3> QED BY <2>2, <3>1, ServedStands, MigratedRests, CopiedRests, FiledRests
  <2>3. CASE MigrationsStep /\ M!Next
    <3>1. UNCHANGED server /\ UNCHANGED backups /\ UNCHANGED attached
      BY <2>3 DEF MigrationsStep
    <3> QED BY <2>3, <3>1, ServedRests, MigratedStands, CopiedRests, FiledRests
  <2>4. CASE BackupsStep /\ B!Next
    <3>1. UNCHANGED server /\ UNCHANGED migrations /\ UNCHANGED attached
      BY <2>4 DEF BackupsStep
    <3> QED BY <2>4, <3>1, ServedRests, MigratedRests, CopiedStands, FiledRests
  <2>5. CASE FilesStep /\ F!Next
    <3>1. UNCHANGED server /\ UNCHANGED migrations /\ UNCHANGED backups
      BY <2>5 DEF FilesStep
    <3> QED BY <2>5, <3>1, ServedRests, MigratedRests, CopiedRests, FiledStands
  <2>6. CASE BreakerStep
    BY <2>1, <2>6 DEF BreakerStep
  <2>7. CASE UNCHANGED all
    BY <2>1, <2>7 DEF all
  <2> QED BY <2>2, <2>3, <2>4, <2>5, <2>6, <2>7, Zenon DEF PlatformNext
<1>3. Standing => ReplicaIsSound
  BY ServedHolds, MigrationsHold, CopiesHold, FilesHold DEF ReplicaIsSound
<1> QED BY <1>1, <1>2, <1>3, PTL DEF PlatformSpec

=============================================================================
