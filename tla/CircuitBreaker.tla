--------------------------- MODULE CircuitBreaker ---------------------------
(***************************************************************************)
(* One circuit breaker of internal/circuitbreaker, shared by all the       *)
(* goroutines that call one outside service (M-Pesa, KRA, WhatsApp).       *)
(*                                                                         *)
(* Execute is not atomic: it reads the state under one read lock, the time *)
(* of the last failure under another, and takes the write lock only to     *)
(* half-open.  Each of those critical sections is a step of a caller here, *)
(* so every interleaving the locks allow is a behaviour.                   *)
(***************************************************************************)
EXTENDS Naturals, Sequences

CONSTANTS Callers,           \* the goroutines calling the service
          FailureThreshold,  \* Config.FailureThreshold (default 5)
          SuccessThreshold,  \* Config.SuccessThreshold (default 3)
          RecoveryTimeout    \* Config.RecoveryTimeout, in clock ticks

ASSUME FailureThresholdAssumption == FailureThreshold \in Nat \ {0}
ASSUME SuccessThresholdAssumption == SuccessThreshold \in Nat \ {0}
ASSUME RecoveryTimeoutAssumption  == RecoveryTimeout \in Nat

VARIABLES
  state,      \* cb.state
  failures,   \* cb.failures, saturated at FailureThreshold
  successes,  \* cb.successes, saturated at SuccessThreshold
  elapsed,    \* time.Since(cb.lastFail), saturated at RecoveryTimeout
  pc,         \* where each caller is in Execute
  healthy,    \* the outside service answers every call
  probes      \* history: the latest outcomes recorded since it half-opened

breakerVars == <<state, failures, successes, elapsed>>
vars        == <<breakerVars, pc, healthy, probes>>

States == {"closed", "open", "half-open"}
PCs    == {"idle",     \* not in Execute
           "opened",   \* read StateOpen, about to read lastFail
           "expired",  \* saw the timeout pass, about to take the lock
           "calling"}  \* running fn without any lock

(* The thresholds, and the mutated forms of the definitions below *)
Trips(n)         == n >= FailureThreshold
ClosesEarly(n)   == n + 1 >= SuccessThreshold
Closes(n)        == n >= SuccessThreshold
OnHalfOpen(n)    == 0   \* successes when the breaker half-opens

(* The counters are compared with their thresholds only: counting beyond   *)
(* them changes nothing, and the clock matters only up to the timeout.     *)
Saturate(n, limit) == IF n < limit THEN n ELSE limit
Goto(c, label)     == pc' = [pc EXCEPT ![c] = label]

Init ==
  /\ state = "closed"
  /\ failures = 0
  /\ successes = 0
  /\ elapsed = RecoveryTimeout  \* the zero time.Time: infinitely long ago
  /\ pc = [c \in Callers |-> "idle"]
  /\ healthy = TRUE
  /\ probes = <<>>

(***************************************************************************)
(* Execute, ExecuteWithResult                                              *)
(***************************************************************************)

(* state := cb.State() *)
ReadState(c) ==
  /\ pc[c] = "idle"
  /\ Goto(c, IF state = "open" THEN "opened" ELSE "calling")
  /\ UNCHANGED <<breakerVars, healthy, probes>>

(* Mutated form: a rejected call counts as one more failure *)
ReadLastFailRenewing(c) ==
  /\ pc[c] = "opened"
  /\ Goto(c, IF elapsed >= RecoveryTimeout THEN "expired" ELSE "idle")
  /\ elapsed' = IF elapsed >= RecoveryTimeout THEN elapsed ELSE 0
  /\ UNCHANGED <<state, failures, successes, healthy, probes>>

(* time.Since(cb.lastFail): go for the write lock, or ErrCircuitOpen *)
ReadLastFail(c) ==
  /\ pc[c] = "opened"
  /\ Goto(c, IF elapsed >= RecoveryTimeout THEN "expired" ELSE "idle")
  /\ UNCHANGED <<breakerVars, healthy, probes>>

(* cb.mu.Lock(); if still open, half-open.  The timeout is not re-read. *)
TryHalfOpen(c) ==
  /\ pc[c] = "expired"
  /\ Goto(c, "calling")
  /\ \/ /\ state = "open"
        /\ state' = "half-open"
        /\ successes' = OnHalfOpen(successes)
        /\ probes' = <<>>
        /\ UNCHANGED <<failures, elapsed>>
     \/ /\ state # "open"
        /\ UNCHANGED <<breakerVars, probes>>
  /\ UNCHANGED healthy

(* Outcomes recorded since the breaker half-opened; the latest ones decide *)
Remember(outcome) ==
  LET all == Append(probes, outcome)
  IN  IF Len(all) <= SuccessThreshold THEN all ELSE Tail(all)

RecordFailure(c) ==
  /\ pc[c] = "calling"
  /\ ~healthy
  /\ Goto(c, "idle")
  /\ failures' = Saturate(failures + 1, FailureThreshold)
  /\ elapsed' = 0
  /\ \/ /\ state = "half-open"
        /\ state' = "open"
        /\ successes' = 0
     \/ /\ state = "closed"
        /\ Trips(failures + 1)
        /\ state' = "open"
        /\ UNCHANGED successes
     \/ /\ \/ state = "open"
           \/ state = "closed" /\ ~Trips(failures + 1)
        /\ UNCHANGED <<state, successes>>
  /\ probes' = Remember("failure")
  /\ UNCHANGED healthy

RecordSuccess(c) ==
  /\ pc[c] = "calling"
  /\ Goto(c, "idle")
  /\ successes' = Saturate(successes + 1, SuccessThreshold)
  /\ failures' = 0
  /\ state' = IF state = "half-open" /\ Closes(successes + 1)
              THEN "closed" ELSE state
  /\ probes' = Remember("success")
  /\ UNCHANGED <<elapsed, healthy>>

(* Reset, the operator's override *)
Reset ==
  /\ state' = "closed"
  /\ failures' = 0
  /\ successes' = 0
  /\ elapsed' = RecoveryTimeout
  /\ UNCHANGED <<pc, healthy, probes>>

(***************************************************************************)
(* The environment: the clock and the outside service                      *)
(***************************************************************************)
Tick ==
  /\ elapsed < RecoveryTimeout
  /\ elapsed' = elapsed + 1
  /\ UNCHANGED <<state, failures, successes, pc, healthy, probes>>

(* A service that is not healthy may answer a call or fail it *)
ServiceChanges ==
  /\ healthy' = ~healthy
  /\ UNCHANGED <<breakerVars, pc, probes>>

Caller(c) == \/ ReadState(c) \/ ReadLastFail(c) \/ TryHalfOpen(c)
             \/ RecordFailure(c) \/ RecordSuccess(c)

Next == \/ \E c \in Callers : Caller(c)
        \/ Reset
        \/ Tick
        \/ ServiceChanges

Spec == Init /\ [][Next]_vars

(* Calls keep arriving and end (every client has an HTTP timeout); time    *)
(* passes.  Reset and the service's health are under no obligation.        *)
Fairness == /\ WF_vars(Tick)
            /\ \A c \in Callers : WF_vars(Caller(c))

FairSpec == Spec /\ Fairness

-----------------------------------------------------------------------------
(* The types of the breaker, its callers and the history variables. *)
TypeOK ==
  /\ state \in States
  /\ failures \in 0..FailureThreshold
  /\ successes \in 0..SuccessThreshold
  /\ elapsed \in 0..RecoveryTimeout
  /\ pc \in [Callers -> PCs]
  /\ healthy \in BOOLEAN
  /\ probes \in Seq({"success", "failure"})

(* A breaker that lets calls through has not reached the threshold that    *)
(* should have changed its state, whatever calls of earlier states are     *)
(* still reporting (recordFailure and recordSuccess never miss one).       *)
BelowThresholds ==
  /\ state = "closed" => failures < FailureThreshold
  /\ state = "half-open" => successes < SuccessThreshold

(* The counters and the recorded outcomes tell the same story while the    *)
(* breaker is half-open: nothing but successes since it half-opened.       *)
ProbesAllSucceeded ==
  state = "half-open" =>
    /\ Len(probes) = successes
    /\ \A i \in 1..Len(probes) : probes[i] = "success"

(* Only Reset closes an open breaker: otherwise it half-opens first, and   *)
(* closes when the last SuccessThreshold outcomes were all successes.      *)
ClosesOnlyOnEvidence ==
  [][state # "closed" /\ state' = "closed" =>
       \/ failures' = 0 /\ successes' = 0 /\ pc' = pc
       \/ /\ state = "half-open"
          /\ probes' = [i \in 1..SuccessThreshold |-> "success"]]_vars

(* A service that stays healthy gets its traffic back: whatever calls were *)
(* in flight and however often the breaker reopened, it closes for good.   *)
HealthyServiceRecovers == <>[]healthy => <>[](state = "closed")
=============================================================================
