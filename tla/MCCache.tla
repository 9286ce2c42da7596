------------------------------ MODULE MCCache ------------------------------
(***************************************************************************)
(* Instances of Cache and of the circuit breaker that stands before its    *)
(* store, for TLC.  The breaker is any refusal of a command to Cache, so   *)
(* that the two share no state: a behaviour works on one, and the other    *)
(* rests.                                                                  *)
(***************************************************************************)
EXTENDS Cache, CircuitBreaker, TLC

CONSTANTS c1, c2, w1, w2, p1, p2, k1, k2, k3

VARIABLE part

\* One server process.
OneHome == [x \in Callers \cup Writers |-> p1]

\* The calls on one process, the writes on the other.
TwoHomes == [x \in Callers \cup Writers |-> IF x \in Writers THEN p2 ELSE p1]

\* Calls are interchangeable where all share a process.
CallSymmetry == Permutations(Callers)

coreVars == <<part, vars, breakerVars>>

CoreInit == /\ part \in {"cache", "breaker"}
            /\ Init /\ BreakerInit
            /\ part = "breaker" => store = Absent

CacheSteps == part = "cache" /\ Next /\ UNCHANGED <<part, breakerVars>>
BreakerSteps == part = "breaker" /\ BreakerNext /\ UNCHANGED <<part, vars>>
CoreNext == CacheSteps \/ BreakerSteps

\* The cache alone, for safety.
OneProcessInit == CoreInit /\ part = "cache"
OneProcessSpec == OneProcessInit /\ [][CoreNext]_coreVars

OnBreaker(A) == part = "breaker" /\ A /\ UNCHANGED <<part, vars>>

(* Of the cache, what Fairness says.  Before the breaker operations end    *)
(* (an answer or the timeout), time passes, and the application keeps      *)
(* asking.                                                                 *)
CoreFairness ==
  /\ Fairness
  /\ \A c \in Calls : WF_coreVars(OnBreaker(Succeed(c) \/ Fail(c)))
  /\ WF_coreVars(OnBreaker(Tick))
  /\ WF_coreVars(OnBreaker(\E c \in Calls : Request(c)))

CoreSpec == CoreInit /\ [][CoreNext]_coreVars /\ CoreFairness
=============================================================================
