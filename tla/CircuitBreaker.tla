--------------------------- MODULE CircuitBreaker ---------------------------
(***************************************************************************)
(* The circuit breaker of internal/middleware/circuitbreaker.go.           *)
(*                                                                         *)
(* allow() decides under a mutex whether a request goes on to the next     *)
(* handler; the request then runs without the mutex, together with others; *)
(* onResult() applies its outcome under the mutex, to whatever state the   *)
(* breaker is in by then.  The code does not remember in which state a     *)
(* request was let through.                                                *)
(*                                                                         *)
(* Time is a clock tick.  Ages stop growing at OpenTimeout, since nothing  *)
(* in the code tells older moments apart.                                  *)
(***************************************************************************)
EXTENDS Integers, FiniteSets

CONSTANTS Requests,      \* requests that may be under way at the same time
          ThresholdArg,  \* the threshold given to NewCircuitBreaker
          OpenTimeout,   \* openTimeout in ticks (0: not positive)
          MaxPanics      \* bound: how often the next handler panics

ASSUME BreakerAssumption ==
    /\ ThresholdArg \in Int
    /\ OpenTimeout \in Nat
    /\ MaxPanics \in Nat

(* NewCircuitBreaker replaces a threshold that is not positive. *)
Threshold == IF ThresholdArg <= 0 THEN 5 ELSE ThresholdArg

VARIABLES
    state,      \* cb.state: "closed", "open" or "halfOpen"
    failures,   \* cb.failures
    age,        \* ticks since cb.lastFailure
    probing,    \* cb.probing
    req,        \* where each request is: "idle", "passed" or "probe"
    healthy,    \* environment: the upstream serves every request
    panics,     \* environment: how often the next handler has panicked
    sinceProbe, \* history: ticks since a probe was last let through
    sinceOpen   \* history: ticks since the breaker last became open

vars == <<state, failures, age, probing, req, healthy, panics, sinceProbe,
          sinceOpen>>

history == <<sinceProbe, sinceOpen>>

(* cb.lastFailure starts as the zero time, longer ago than any timeout. *)
Init ==
    /\ state = "closed"
    /\ failures = 0
    /\ age = OpenTimeout
    /\ probing = FALSE
    /\ req = [r \in Requests |-> "idle"]
    /\ healthy \in BOOLEAN
    /\ panics = 0
    /\ sinceProbe = OpenTimeout
    /\ sinceOpen = OpenTimeout

-----------------------------------------------------------------------------
(* allow: a request arrives. *)

AdmitClosed(r) ==
    /\ req[r] = "idle"
    /\ state = "closed"
    /\ req' = [req EXCEPT ![r] = "passed"]
    /\ UNCHANGED <<state, failures, age, probing, healthy, panics, history>>

(* Mutated form: any number of probes in Half-Open. *)
AnyProbe == (state = "open" /\ age >= OpenTimeout) \/ state = "halfOpen"

(* In Open the pause must be over, and then the probing flag is cleared;   *)
(* in Half-Open nobody else may be probing.                                *)
MayProbe ==
    \/ state = "open" /\ age >= OpenTimeout
    \/ state = "halfOpen" /\ ~probing

AdmitProbe(r) ==
    /\ req[r] = "idle"
    /\ MayProbe
    /\ state' = "halfOpen"
    /\ probing' = TRUE
    /\ req' = [req EXCEPT ![r] = "probe"]
    /\ sinceProbe' = 0
    /\ UNCHANGED <<failures, age, healthy, panics, sinceOpen>>

(* The request is answered 503 at once and is gone. *)
Reject(r) ==
    /\ req[r] = "idle"
    /\ state # "closed"
    /\ ~MayProbe
    /\ UNCHANGED vars

Allow(r) == AdmitClosed(r) \/ AdmitProbe(r) \/ Reject(r)

-----------------------------------------------------------------------------
(* onResult: next.ServeHTTP has returned; ok is a status below 500.  A     *)
(* healthy upstream serves every request, an unhealthy one may fail some.  *)

Returns(r, ok) ==
    /\ req[r] # "idle"
    /\ healthy => ok
    /\ req' = [req EXCEPT ![r] = "idle"]
    /\ UNCHANGED <<healthy, panics, sinceProbe>>

(* Mutated form: a success leaves the failure counter alone. *)
CountsAllFailures(r, ok) ==
    /\ state = "halfOpen"
    /\ Returns(r, ok)
    /\ probing' = FALSE
    /\ state' = IF ok THEN "closed" ELSE "open"
    /\ age' = IF ok THEN age ELSE 0
    /\ sinceOpen' = IF ok THEN sinceOpen ELSE 0
    /\ UNCHANGED failures

(* Mutated form: a success clears the probe but not the state. *)
StaysHalfOpen(r, ok) ==
    /\ state = "halfOpen"
    /\ Returns(r, ok)
    /\ probing' = FALSE
    /\ state' = IF ok THEN "halfOpen" ELSE "open"
    /\ failures' = IF ok THEN 0 ELSE failures
    /\ age' = IF ok THEN age ELSE 0
    /\ sinceOpen' = IF ok THEN sinceOpen ELSE 0

ResultHalfOpen(r, ok) ==
    /\ state = "halfOpen"
    /\ Returns(r, ok)
    /\ probing' = FALSE
    /\ state' = IF ok THEN "closed" ELSE "open"
    /\ failures' = IF ok THEN 0 ELSE failures
    /\ age' = IF ok THEN age ELSE 0
    /\ sinceOpen' = IF ok THEN sinceOpen ELSE 0

SuccessClosed(r) ==
    /\ state = "closed"
    /\ Returns(r, TRUE)
    /\ failures' = 0
    /\ UNCHANGED <<state, age, probing, sinceOpen>>

(* Mutated form: the breaker opens one failure late. *)
OpensLate(r) ==
    /\ state = "closed"
    /\ Returns(r, FALSE)
    /\ failures' = failures + 1
    /\ age' = 0
    /\ state' = IF failures' > Threshold THEN "open" ELSE "closed"
    /\ sinceOpen' = IF failures' > Threshold THEN 0 ELSE sinceOpen
    /\ UNCHANGED probing

FailureClosed(r) ==
    /\ state = "closed"
    /\ Returns(r, FALSE)
    /\ failures' = failures + 1
    /\ age' = 0
    /\ state' = IF failures' >= Threshold THEN "open" ELSE "closed"
    /\ sinceOpen' = IF failures' >= Threshold THEN 0 ELSE sinceOpen
    /\ UNCHANGED probing

ResultOpen(r, ok) ==
    /\ state = "open"
    /\ Returns(r, ok)
    /\ UNCHANGED <<state, failures, age, probing, sinceOpen>>

OnResult(r) ==
    \/ \E ok \in BOOLEAN : ResultHalfOpen(r, ok) \/ ResultOpen(r, ok)
    \/ SuccessClosed(r)
    \/ FailureClosed(r)

(* The next handler panics: Middleware is unwound before onResult, and     *)
(* net/http ends the request and goes on serving.                          *)
Panic(r) ==
    /\ panics < MaxPanics
    /\ req[r] # "idle"
    /\ panics' = panics + 1
    /\ req' = [req EXCEPT ![r] = "idle"]
    /\ UNCHANGED <<state, failures, age, probing, healthy, history>>

Serve(r) == OnResult(r) \/ Panic(r)

-----------------------------------------------------------------------------
Older(n) == IF n < OpenTimeout THEN n + 1 ELSE n

Tick ==
    /\ age' = Older(age)
    /\ sinceProbe' = Older(sinceProbe)
    /\ sinceOpen' = Older(sinceOpen)
    /\ UNCHANGED <<state, failures, probing, req, healthy, panics>>

UpstreamChanges ==
    /\ healthy' = ~healthy
    /\ UNCHANGED <<state, failures, age, probing, req, panics, history>>

Next ==
    \/ \E r \in Requests : Allow(r) \/ Serve(r)
    \/ Tick
    \/ UpstreamChanges

Spec == Init /\ [][Next]_vars

(* The clock runs, a request that was let through comes to an end (the     *)
(* upstream client has a timeout), and requests keep arriving.             *)
Fairness ==
    /\ WF_vars(Tick)
    /\ \A r \in Requests : WF_vars(Serve(r)) /\ WF_vars(Allow(r))

FairSpec == Spec /\ Fairness

-----------------------------------------------------------------------------
(* Properties *)

(* Every variable has its type; the counter never passes the threshold.    *)
TypeOK ==
    /\ state \in {"closed", "open", "halfOpen"}
    /\ failures \in 0 .. Threshold
    /\ {age, sinceProbe, sinceOpen} \subseteq 0 .. OpenTimeout
    /\ probing \in BOOLEAN
    /\ req \in [Requests -> {"idle", "passed", "probe"}]
    /\ healthy \in BOOLEAN
    /\ panics \in 0 .. MaxPanics

(* Whatever results arrive late, from requests let through before the      *)
(* breaker opened: the counter has reached the threshold exactly when the  *)
(* breaker is not closed, the probing flag is up exactly in Half-Open, and *)
(* in Open cb.lastFailure is the moment at which the breaker opened, later *)
(* than the last probe.                                                    *)
BreakerInv ==
    /\ failures < Threshold <=> state = "closed"
    /\ probing <=> state = "halfOpen"
    /\ state = "open" => age = sinceOpen /\ sinceOpen <= sinceProbe

(* While the next handler has not panicked, a breaker in Half-Open has a   *)
(* probe under way, whose end will move it on: it cannot be stuck there.   *)
ProbeAlive ==
    state = "halfOpen" /\ panics = 0 => \E r \in Requests : req[r] = "probe"

(* Stale results and overlapping probes do not wear down the protection:   *)
(* the breaker implements the gate, so while it is not closed the upstream *)
(* gets at most one request per OpenTimeout and a full pause after each    *)
(* failure that opened the breaker.                                        *)
Lesser(m, n) == IF m < n THEN m ELSE n

Gate == INSTANCE AdmissionGate WITH
            Pause <- OpenTimeout,
            inside <- {r \in Requests : req[r] # "idle"},
            mode <- IF state = "closed" THEN "pass" ELSE "block",
            wait <- IF state = "closed" THEN 0
                    ELSE OpenTimeout - Lesser(sinceProbe, sinceOpen)

ImplementsGate == Gate!Spec

(* "Automatic recovery" of the package comment: once the upstream is       *)
(* healthy for good and requests keep coming, the breaker is closed for    *)
(* good.  The code does not keep this.                                     *)
Recovery == <>[]healthy => <>[](state = "closed")

(* It does unless the next handler panics: late results of either kind,    *)
(* reopened pauses and overlapping probes do not keep a healthy upstream   *)
(* shut off.                                                               *)
RecoveryUnlessPanic == [](panics = 0) => Recovery

=============================================================================
