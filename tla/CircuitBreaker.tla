--------------------------- MODULE CircuitBreaker ---------------------------
(***************************************************************************)
(* CircuitBreakerCacheStore around TimeoutCacheStore around Redis          *)
(* (src/core/cache/stores), in one process.  A call is a slot that is free *)
(* or holds a store operation in flight; slots are used again and again.   *)
(* Time is kept as what is left of the OPEN period and as the age of each  *)
(* operation, both in ticks, so that it needs no bound.                    *)
(***************************************************************************)
EXTENDS Integers

CONSTANTS Calls,      \* slots for concurrent store operations
          Threshold,  \* failureThreshold
          OpenFor,    \* openDurationMs, in ticks
          Timeout     \* timeoutMs of the inner TimeoutCacheStore, in ticks

ASSUME ThresholdPositive == Threshold \in Nat \ {0}
ASSUME DurationsType == OpenFor \in Nat /\ Timeout \in Nat
\* 200 ms against 5000 ms in src/shared/cache/cache.client.ts.
ASSUME TimeoutShorter == Timeout < OpenFor

VARIABLES state,                \* "closed", "open" or "half-open"
          consecutiveFailures,
          openLeft,             \* openUntil - now, or 0 when it is past
          probeInFlight,
          flying,               \* slots with an operation in flight
          wasProbe,             \* the local of run(), per slot
          age,                  \* ticks since the operation was sent
          outcome,              \* what the last operation of a slot ended with
          up                    \* environment: Redis answers within the timeout

breakerVars == <<state, consecutiveFailures, openLeft, probeInFlight, flying, wasProbe, age, outcome, up>>

BreakerTypeOK ==
  /\ state \in {"closed", "open", "half-open"}
  /\ consecutiveFailures \in Nat
  /\ openLeft \in 0..OpenFor
  /\ probeInFlight \in BOOLEAN
  /\ flying \subseteq Calls
  /\ wasProbe \in [Calls -> BOOLEAN]
  /\ age \in [Calls -> 0..Timeout]
  /\ outcome \in [Calls -> {"none", "ok", "failed", "rejected"}]
  /\ up \in BOOLEAN

BreakerInit ==
  /\ state = "closed"
  /\ consecutiveFailures = 0
  /\ openLeft = 0
  /\ probeInFlight = FALSE
  /\ flying = {}
  /\ wasProbe = [c \in Calls |-> FALSE]
  /\ age = [c \in Calls |-> 0]
  /\ outcome = [c \in Calls |-> "none"]
  /\ up = TRUE

-----------------------------------------------------------------------------
Mutant_ProbeForAll == state = "closed" \/ state = "half-open" \/ (state = "open" /\ openLeft = 0)
\* allowRequest's answer.
Allowed ==
  \/ state = "closed"
  \/ state = "open" /\ openLeft = 0
  \/ state = "half-open" /\ ~probeInFlight

\* run(), up to the await: allowRequest moves an OPEN breaker whose time is
\* over to HALF_OPEN and gives this operation the probe.
Request(c) ==
  /\ c \notin flying
  /\ Allowed
  /\ state' = IF state = "open" THEN "half-open" ELSE state
  /\ probeInFlight' = (probeInFlight \/ state # "closed")
  /\ wasProbe' = [wasProbe EXCEPT ![c] = state # "closed"]
  /\ flying' = flying \cup {c}
  /\ age' = [age EXCEPT ![c] = 0]
  /\ outcome' = [outcome EXCEPT ![c] = "none"]
  /\ UNCHANGED <<consecutiveFailures, openLeft, up>>

\* CircuitOpenError: nothing is sent.
Reject(c) ==
  /\ c \notin flying
  /\ ~Allowed
  /\ outcome' = [outcome EXCEPT ![c] = "rejected"]
  /\ UNCHANGED <<state, consecutiveFailures, openLeft, probeInFlight, flying, wasProbe, age, up>>

\* The operation is over, for onSuccess and onFailure alike.
Land(c, how) ==
  /\ c \in flying
  /\ flying' = flying \ {c}
  /\ outcome' = [outcome EXCEPT ![c] = how]
  /\ probeInFlight' = (probeInFlight /\ ~wasProbe[c])
  /\ age' = [age EXCEPT ![c] = 0]

Mutant_StayHalfOpen(c) ==
  /\ up
  /\ Land(c, "ok")
  /\ consecutiveFailures' = 0
  /\ UNCHANGED <<state, openLeft, wasProbe, up>>
\* onSuccess: whoever succeeds closes the circuit.
Succeed(c) ==
  /\ up
  /\ Land(c, "ok")
  /\ consecutiveFailures' = 0
  /\ state' = "closed"
  /\ UNCHANGED <<openLeft, wasProbe, up>>

\* open(): stamp the end of the period, then transition.
Open == state' = "open" /\ openLeft' = OpenFor

Mutant_ProbeFailureIgnored(c) == ~wasProbe[c] /\ state = "closed" /\ consecutiveFailures + 1 >= Threshold
\* The failure opens the circuit: a failed probe always, another operation
\* when the circuit is closed and the run of failures is long enough.
Trips(c) ==
  wasProbe[c] \/ (state = "closed" /\ consecutiveFailures + 1 >= Threshold)

\* onFailure, for an error of Redis or a CacheTimeoutError.
Fail(c) ==
  /\ ~up
  /\ Land(c, "failed")
  /\ consecutiveFailures' = IF wasProbe[c] THEN consecutiveFailures ELSE consecutiveFailures + 1
  /\ \/ Trips(c) /\ Open
     \/ ~Trips(c) /\ UNCHANGED <<state, openLeft>>
  /\ UNCHANGED <<wasProbe, up>>

Mutant_NoTimeout ==
  /\ openLeft' = IF openLeft > 0 THEN openLeft - 1 ELSE 0
  /\ age' = [c \in Calls |-> IF c \in flying THEN age[c] + 1 ELSE 0]
  /\ UNCHANGED <<state, consecutiveFailures, probeInFlight, flying, wasProbe, outcome, up>>
\* Time passes; no operation outlives its timeout.
Tick ==
  /\ \A c \in flying : age[c] < Timeout
  /\ openLeft' = IF openLeft > 0 THEN openLeft - 1 ELSE 0
  /\ age' = [c \in Calls |-> IF c \in flying THEN age[c] + 1 ELSE 0]
  /\ UNCHANGED <<state, consecutiveFailures, probeInFlight, flying, wasProbe, outcome, up>>

RedisFlips ==
  /\ up' = ~up
  /\ UNCHANGED <<state, consecutiveFailures, openLeft, probeInFlight, flying, wasProbe, age, outcome>>

BreakerNext ==
  \/ \E c \in Calls : Request(c) \/ Reject(c) \/ Succeed(c) \/ Fail(c)
  \/ Tick
  \/ RedisFlips

BreakerSpec == BreakerInit /\ [][BreakerNext]_breakerVars

-----------------------------------------------------------------------------
Probing == {c \in flying : wasProbe[c]}

\* "HALF_OPEN'da bir yoklama ... ayni anda yalnizca bir tane olmali": at most
\* one probe is in flight, however successes and failures of operations sent
\* before the circuit opened interleave with it.
OneProbe == \A c, d \in Probing : c = d

\* A half-open breaker has a probe in flight, so that something will decide
\* its state: it can never reject everybody for good.
HalfOpenIsProbing == state = "half-open" => probeInFlight /\ Probing # {}

\* Once Redis stays up, the circuit closes and stays closed.
Recovers == <>[]up => <>[](state = "closed")

\* While Redis stays down the breaker ends up sparing it: it is again and
\* again open, not stuck in trying.
SparesRedis == <>[]~up => []<>(state = "open")

=============================================================================
