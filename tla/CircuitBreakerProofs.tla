------------------------ MODULE CircuitBreakerProofs ------------------------
(***************************************************************************)
(* Theorems about the circuit breaker, for every number of concurrent      *)
(* requests, every threshold, every pause and any number of panics.        *)
(***************************************************************************)
EXTENDS CircuitBreaker, TLAPS

LEMMA ThresholdIsPositive == Threshold \in Nat \ {0}
    BY BreakerAssumption DEF Threshold

LEMMA OlderFacts ==
    ASSUME NEW n \in 0 .. OpenTimeout
    PROVE  /\ Older(n) \in 0 .. OpenTimeout
           /\ n <= Older(n)
           /\ \A m \in 0 .. n : Older(m) <= Older(n)
    BY BreakerAssumption DEF Older

(* TypeOK alone is not inductive: that failures stays within the threshold *)
(* rests on BreakerInv, which says that a closed breaker is below it.      *)
Inv == TypeOK /\ BreakerInv

(* The actions that change neither the state machine nor the clocks. *)
Bystander == UNCHANGED <<state, failures, age, probing, sinceProbe, sinceOpen>>

LEMMA InductiveInv ==
    ASSUME Inv, [Next]_vars
    PROVE  Inv'
<1> USE DEF Inv
<1>1. ASSUME NEW r \in Requests, AdmitClosed(r) \/ Reject(r) \/ Panic(r)
      PROVE  Inv'
    <2>1. /\ Bystander
          /\ req' \in [Requests -> {"idle", "passed", "probe"}]
          /\ panics' \in 0 .. MaxPanics
          /\ healthy' = healthy
        BY <1>1, BreakerAssumption
           DEF AdmitClosed, Reject, Panic, Bystander, TypeOK, vars, history
    <2>2. QED
        BY <2>1 DEF Bystander, TypeOK, BreakerInv
<1>2. ASSUME NEW r \in Requests, AdmitProbe(r)
      PROVE  Inv'
    <2>1. state # "closed"
        BY <1>2 DEF AdmitProbe, MayProbe
    <2>2. QED
        BY <1>2, <2>1, BreakerAssumption, ThresholdIsPositive
           DEF AdmitProbe, TypeOK, BreakerInv
<1>3. ASSUME NEW r \in Requests, OnResult(r)
      PROVE  Inv'
    <2>1. /\ req' \in [Requests -> {"idle", "passed", "probe"}]
          /\ UNCHANGED <<healthy, panics, sinceProbe>>
        BY <1>3 DEF OnResult, ResultHalfOpen, ResultOpen, SuccessClosed,
                    FailureClosed, Returns, TypeOK
    <2>2. ASSUME NEW ok \in BOOLEAN, ResultHalfOpen(r, ok)
          PROVE  Inv'
        <3>1. ~probing' /\ probing' \in BOOLEAN
            BY <2>2, Zenon DEF ResultHalfOpen
        <3>2. /\ state = "halfOpen" /\ failures = Threshold
              /\ \/ state' = "closed" /\ failures' = 0
                    /\ UNCHANGED <<age, sinceOpen>>
                 \/ state' = "open" /\ UNCHANGED failures
                    /\ age' = 0 /\ sinceOpen' = 0
            BY <2>2, ThresholdIsPositive DEF ResultHalfOpen, TypeOK, BreakerInv
        <3>3. TypeOK'
            BY <2>1, <3>1, <3>2, BreakerAssumption, ThresholdIsPositive DEF TypeOK
        <3>4. BreakerInv'
            BY <2>1, <3>1, <3>2, <3>3, ThresholdIsPositive DEF TypeOK, BreakerInv
        <3>5. QED
            BY <3>3, <3>4
    <2>3. ASSUME NEW ok \in BOOLEAN, ResultOpen(r, ok)
          PROVE  Inv'
        BY <2>1, <2>3 DEF ResultOpen, TypeOK, BreakerInv
    <2>4. CASE SuccessClosed(r)
        BY <2>1, <2>4, ThresholdIsPositive DEF SuccessClosed, TypeOK, BreakerInv
    <2>5. CASE FailureClosed(r)
        <3>1. failures \in Nat /\ failures < Threshold
            BY <2>5 DEF FailureClosed, TypeOK, BreakerInv
        <3>2. failures' \in 0 .. Threshold
            BY <2>5, <3>1, ThresholdIsPositive DEF FailureClosed
        <3>3. QED
            BY <2>1, <2>5, <3>1, <3>2, BreakerAssumption, ThresholdIsPositive
               DEF FailureClosed, TypeOK, BreakerInv
    <2>6. QED
        BY <1>3, <2>2, <2>3, <2>4, <2>5 DEF OnResult
<1>4. CASE Tick
    <2>1. /\ age' = Older(age)
          /\ sinceProbe' = Older(sinceProbe)
          /\ sinceOpen' = Older(sinceOpen)
          /\ UNCHANGED <<state, failures, probing, req, healthy, panics>>
        BY <1>4 DEF Tick
    <2>2. {age, sinceProbe, sinceOpen}' \subseteq 0 .. OpenTimeout
        BY <2>1, OlderFacts DEF TypeOK
    <2>3. sinceOpen <= sinceProbe => sinceOpen' <= sinceProbe'
        BY <2>1, OlderFacts DEF TypeOK
    <2>4. QED
        BY <2>1, <2>2, <2>3 DEF TypeOK, BreakerInv
<1>5. CASE UpstreamChanges
    BY <1>5 DEF UpstreamChanges, history, TypeOK, BreakerInv
<1>6. CASE UNCHANGED vars
    BY <1>6 DEF vars, TypeOK, BreakerInv
<1>7. QED
    BY <1>1, <1>2, <1>3, <1>4, <1>5, <1>6 DEF Next, Allow, Serve

LEMMA InvCorrect == Spec => []Inv
<1>1. Init => Inv
    <2> SUFFICES ASSUME Init PROVE Inv
        OBVIOUS
    <2>1. ~probing /\ probing \in BOOLEAN
        BY Zenon DEF Init
    <2>2. TypeOK
        BY <2>1, BreakerAssumption, ThresholdIsPositive DEF Init, TypeOK
    <2>3. BreakerInv
        BY <2>1, ThresholdIsPositive DEF Init, BreakerInv
    <2>4. QED
        BY <2>2, <2>3 DEF Inv
<1>2. QED
    BY <1>1, InductiveInv, PTL DEF Spec

(* The variables keep their types, and the counter its bound. *)
THEOREM TypeCorrect == Spec => []TypeOK
    BY InvCorrect, PTL DEF Inv

(* The counter, the probing flag and the time of the last failure agree    *)
(* with the state of the breaker, whatever results arrive late.            *)
THEOREM BreakerCorrect == Spec => []BreakerInv
    BY InvCorrect, PTL DEF Inv

(* Until the next handler panics, a half-open breaker has a probe running. *)
THEOREM ProbeAliveCorrect == Spec => []ProbeAlive
<1>1. Init => ProbeAlive
    BY DEF Init, ProbeAlive
<1>2. Inv /\ ProbeAlive /\ [Next]_vars => ProbeAlive'
    <2> SUFFICES ASSUME Inv, ProbeAlive, [Next]_vars
                 PROVE  ProbeAlive'
        OBVIOUS
    <2>1. ASSUME NEW r \in Requests, AdmitClosed(r) \/ Reject(r)
          PROVE  ProbeAlive'
        BY <2>1 DEF AdmitClosed, Reject, ProbeAlive, vars
    <2>2. ASSUME NEW r \in Requests, AdmitProbe(r)
          PROVE  ProbeAlive'
        <3>1. req'[r] = "probe"
            BY <2>2 DEF AdmitProbe, Inv, TypeOK
        <3>2. QED
            BY <3>1 DEF ProbeAlive
    <2>3. ASSUME NEW r \in Requests, OnResult(r)
          PROVE  state' # "halfOpen"
        BY <2>3 DEF OnResult, ResultHalfOpen, ResultOpen, SuccessClosed,
                    FailureClosed
    <2>4. ASSUME NEW r \in Requests, Panic(r)
          PROVE  panics' # 0
        BY <2>4, BreakerAssumption DEF Panic, Inv, TypeOK
    <2>5. CASE Tick \/ UpstreamChanges \/ UNCHANGED vars
        BY <2>5 DEF Tick, UpstreamChanges, vars, ProbeAlive
    <2>6. QED
        BY <2>1, <2>2, <2>3, <2>4, <2>5 DEF Next, Allow, Serve, ProbeAlive
<1>3. QED
    BY <1>1, <1>2, InvCorrect, PTL DEF Spec

(* The breaker implements the admission gate: while it is not closed, the  *)
(* upstream gets at most one request per pause, and a whole pause after    *)
(* every failure that opened it, even with stale results and overlapping   *)
(* probes.                                                                 *)
THEOREM BreakerImplementsGate == Spec => ImplementsGate
<1>1. Init => Gate!Init
    BY DEF Init, Gate!Init
<1>2. Inv /\ [Next]_vars => [Gate!Next]_Gate!vars
    <2> SUFFICES ASSUME Inv, [Next]_vars
                 PROVE  [Gate!Next]_Gate!vars
        OBVIOUS
    <2> DEFINE inside == {r \in Requests : req[r] # "idle"}
               mode == IF state = "closed" THEN "pass" ELSE "block"
               wait == IF state = "closed" THEN 0
                       ELSE OpenTimeout - Lesser(sinceProbe, sinceOpen)
    <2>0. /\ OpenTimeout \in Nat
          /\ age \in 0 .. OpenTimeout /\ sinceProbe \in 0 .. OpenTimeout
          /\ sinceOpen \in 0 .. OpenTimeout
          /\ req \in [Requests -> {"idle", "passed", "probe"}]
        BY BreakerAssumption DEF Inv, TypeOK
    <2>1. ASSUME NEW r \in Requests, req[r] = "idle", NEW s \in {"passed", "probe"},
                 req' = [req EXCEPT ![r] = s]
          PROVE  r \notin inside /\ inside' = inside \cup {r}
        BY <2>0, <2>1
    <2>2. ASSUME NEW r \in Requests, req[r] # "idle",
                 req' = [req EXCEPT ![r] = "idle"]
          PROVE  r \in inside /\ inside' = inside \ {r}
        BY <2>0, <2>2
    <2>3. ASSUME NEW r \in Requests, AdmitClosed(r)
          PROVE  Gate!Enter(r)
        <3>1. r \notin inside /\ inside' = inside \cup {r}
            BY <2>1, <2>3 DEF AdmitClosed
        <3>2. mode = "pass" /\ mode' = mode /\ wait' = wait
            BY <2>3 DEF AdmitClosed, history
        <3>3. QED
            BY <3>1, <3>2 DEF Gate!Enter
    <2>4. ASSUME NEW r \in Requests, AdmitProbe(r)
          PROVE  Gate!Enter(r)
        <3>1. r \notin inside /\ inside' = inside \cup {r}
            BY <2>1, <2>4 DEF AdmitProbe
        <3>2. /\ state = "open" /\ age = OpenTimeout
              /\ sinceOpen = OpenTimeout /\ sinceProbe = OpenTimeout
            BY <2>0, <2>4 DEF AdmitProbe, MayProbe, Inv, BreakerInv
        <3>3. mode = "block" /\ mode' = mode /\ wait = 0 /\ wait' = OpenTimeout
            BY <2>0, <2>4, <3>2 DEF AdmitProbe, Lesser
        <3>4. QED
            BY <3>1, <3>3 DEF Gate!Enter
    <2>5. ASSUME NEW r \in Requests, OnResult(r)
          PROVE  Gate!Leave(r)
        <3>1. r \in inside /\ inside' = inside \ {r}
            BY <2>2, <2>5 DEF OnResult, ResultHalfOpen, ResultOpen,
                              SuccessClosed, FailureClosed, Returns
        <3>2. sinceProbe' = sinceProbe
            BY <2>5 DEF OnResult, ResultHalfOpen, ResultOpen,
                        SuccessClosed, FailureClosed, Returns
        <3>3. \/ mode' = mode /\ wait' = wait
              \/ mode' = "block" /\ wait' = OpenTimeout
              \/ mode' = "pass" /\ wait' = 0
            <4>1. ASSUME NEW ok \in BOOLEAN, ResultHalfOpen(r, ok)
                  PROVE  \/ mode' = "block" /\ wait' = OpenTimeout
                         \/ mode' = "pass" /\ wait' = 0
                <5>1. \/ state' = "closed"
                      \/ state' = "open" /\ sinceOpen' = 0
                    BY <4>1 DEF ResultHalfOpen
                <5>2. QED
                    BY <2>0, <3>2, <5>1 DEF Lesser
            <4>2. ASSUME NEW ok \in BOOLEAN, ResultOpen(r, ok)
                  PROVE  mode' = mode /\ wait' = wait
                BY <3>2, <4>2 DEF ResultOpen
            <4>3. CASE SuccessClosed(r)
                BY <4>3 DEF SuccessClosed
            <4>4. CASE FailureClosed(r)
                <5>1. \/ state' = state /\ state = "closed"
                      \/ state' = "open" /\ sinceOpen' = 0
                    BY <4>4 DEF FailureClosed
                <5>2. QED
                    BY <2>0, <3>2, <5>1 DEF Lesser
            <4>5. QED
                BY <2>5, <4>1, <4>2, <4>3, <4>4 DEF OnResult
        <3>4. QED
            BY <3>1, <3>3 DEF Gate!Leave
    <2>6. ASSUME NEW r \in Requests, Panic(r)
          PROVE  Gate!Leave(r)
        <3>1. r \in inside /\ inside' = inside \ {r}
            BY <2>2, <2>6 DEF Panic
        <3>2. mode' = mode /\ wait' = wait
            BY <2>6 DEF Panic, history
        <3>3. QED
            BY <3>1, <3>2 DEF Gate!Leave
    <2>7. CASE Tick
        <3>1. inside' = inside /\ mode' = mode
            BY <2>7 DEF Tick
        <3>2. wait' = wait \/ (wait > 0 /\ wait' = wait - 1)
            BY <2>0, <2>7 DEF Tick, Older, Lesser
        <3>3. QED
            BY <3>1, <3>2 DEF Gate!Tick, Gate!Next, Gate!vars
    <2>8. ASSUME \/ UpstreamChanges
                 \/ UNCHANGED vars
                 \/ \E r \in Requests : Reject(r)
          PROVE  UNCHANGED Gate!vars
        BY <2>8 DEF UpstreamChanges, Reject, history, vars, Gate!vars
    <2>9. QED
        BY <2>3, <2>4, <2>5, <2>6, <2>7, <2>8
           DEF Next, Allow, Serve, Gate!Next
<1>3. QED
    BY <1>1, <1>2, InvCorrect, PTL DEF Spec, ImplementsGate, Gate!Spec

-----------------------------------------------------------------------------
(* What RecoveryUnlessPanic rests on besides fairness: how far a breaker   *)
(* is from being closed.                                                   *)

Distance == IF state = "closed" THEN 0
            ELSE IF state = "halfOpen" THEN 1
            ELSE 2 + (OpenTimeout - age)

(* While the upstream is healthy, whatever results come late, the breaker  *)
(* gets no further from being closed; in Open it gets nearer with each     *)
(* tick of the pause and, that being over, with the next arrival; and in   *)
(* Half-Open the next result closes it.                                    *)
GetsNearer ==
    healthy =>
        /\ Distance' <= Distance
        /\ state = "open" /\ age < OpenTimeout /\ Tick => Distance' < Distance
        /\ state = "open" /\ age = OpenTimeout =>
              \A r \in Requests : Allow(r) => Distance' < Distance
        /\ state = "halfOpen" =>
              \A r \in Requests : OnResult(r) => Distance' = 0

LEMMA ResultsHelp ==
    ASSUME healthy, NEW r \in Requests, OnResult(r)
    PROVE  /\ state' = "closed" \/ (state' = state /\ age' = age)
           /\ state = "halfOpen" => state' = "closed"
  BY DEF OnResult, ResultHalfOpen, ResultOpen, SuccessClosed, FailureClosed,
         Returns

LEMMA ArrivalsHelp ==
    ASSUME Inv, NEW r \in Requests, Allow(r)
    PROVE  /\ age' = age
           /\ state' = state \/ (state = "open" /\ state' = "halfOpen")
           /\ state = "open" /\ age = OpenTimeout => state' = "halfOpen"
  <1>1. /\ OpenTimeout \in Nat
        /\ probing <=> state = "halfOpen"
    BY BreakerAssumption DEF Inv, BreakerInv
  <1>2. CASE AdmitClosed(r)
    BY <1>2 DEF AdmitClosed
  <1>3. CASE AdmitProbe(r)
    BY <1>1, <1>3 DEF AdmitProbe, MayProbe
  <1>4. CASE Reject(r)
    BY <1>1, <1>4 DEF Reject, MayProbe, vars
  <1>5. QED
    BY <1>2, <1>3, <1>4 DEF Allow

LEMMA TicksHelp ==
    ASSUME Inv, Tick
    PROVE  /\ state' = state /\ age' \in age .. OpenTimeout
           /\ age < OpenTimeout => age' = age + 1
  <1>1. OpenTimeout \in Nat /\ age \in 0 .. OpenTimeout
    BY BreakerAssumption DEF Inv, TypeOK
  <1>2. QED
    BY <1>1 DEF Tick, Older

(* A healthy upstream brings the breaker back.  With ProbeAliveCorrect, by *)
(* which a probe is under way in Half-Open whose result is to come, this   *)
(* is the automatic recovery of the package comment but for the fairness   *)
(* of the clock and of the requests.                                       *)
THEOREM RecoveryTheorem == Spec => [][GetsNearer]_vars
  <1>1. Inv /\ [Next]_vars => [GetsNearer]_vars
    <2> SUFFICES ASSUME Inv, Next, healthy
                 PROVE  GetsNearer
      BY DEF GetsNearer
    <2>1. /\ OpenTimeout \in Nat /\ age \in 0 .. OpenTimeout
          /\ state \in {"closed", "open", "halfOpen"}
      BY BreakerAssumption DEF Inv, TypeOK
    <2>2. state = "open" /\ age < OpenTimeout /\ Tick => Distance' < Distance
      BY <2>1, TicksHelp DEF Distance
    <2>3. ASSUME state = "open", age = OpenTimeout,
                 NEW r \in Requests, Allow(r)
          PROVE  Distance' < Distance
      <3>1. state' = "halfOpen"
        BY <2>3, ArrivalsHelp
      <3>2. QED
        BY <2>1, <2>3, <3>1 DEF Distance
    <2>4. ASSUME state = "halfOpen", NEW r \in Requests, OnResult(r)
          PROVE  Distance' = 0
      <3>1. state' = "closed"
        BY <2>4, ResultsHelp
      <3>2. QED
        BY <3>1 DEF Distance
    <2>5. Distance' <= Distance
      <3>1. ASSUME NEW r \in Requests, Allow(r)
            PROVE  Distance' <= Distance
        BY <2>1, <3>1, ArrivalsHelp DEF Distance
      <3>2. ASSUME NEW r \in Requests, OnResult(r)
            PROVE  Distance' <= Distance
        BY <2>1, <3>2, ResultsHelp DEF Distance
      <3>3. ASSUME UpstreamChanges \/ \E r \in Requests : Panic(r)
            PROVE  Distance' <= Distance
        <4>1. state' = state /\ age' = age
          BY <3>3 DEF UpstreamChanges, Panic
        <4>2. QED
          BY <2>1, <4>1 DEF Distance
      <3>4. CASE Tick
        BY <2>1, <3>4, TicksHelp DEF Distance
      <3>5. QED
        BY <3>1, <3>2, <3>3, <3>4 DEF Next, Serve
    <2>6. QED
      BY <2>2, <2>3, <2>4, <2>5 DEF GetsNearer
  <1>2. QED
    BY <1>1, InvCorrect, PTL DEF Spec

-----------------------------------------------------------------------------
(* The gate in plain terms.  An observer counts the ticks and the requests *)
(* that reach the next handler since some moment, which may be any, while  *)
(* the breaker stays other than closed: the watch begins with StartWatch,  *)
(* grows by Count and is off once the breaker closes.                      *)

VARIABLES watch,     \* "on" or "off"
          ticks,     \* ticks since the watch began
          admitted,  \* requests let through since then
          grace      \* 0 if the watch began when the breaker opened

watching == <<watch, ticks, admitted, grace>>

Opens == state # "open" /\ state' = "open"

StartWatch ==
    /\ Next
    /\ watch' = IF state' = "closed" THEN "off" ELSE "on"
    /\ ticks' = 0
    /\ admitted' = 0
    /\ grace' = IF Opens THEN 0 ELSE OpenTimeout

Count ==
    /\ \/ Tick /\ ticks' = ticks + 1 /\ UNCHANGED admitted
       \/ /\ \E r \in Requests : AdmitClosed(r) \/ AdmitProbe(r)
          /\ admitted' = admitted + 1 /\ UNCHANGED ticks
       \/ /\ \/ \E r \in Requests : Reject(r) \/ Serve(r)
             \/ UpstreamChanges
          /\ UNCHANGED <<ticks, admitted>>
    /\ watch' = IF state' = "closed" THEN "off" ELSE watch
    /\ UNCHANGED grace

WatchSpec ==
    /\ Init /\ watch = "off" /\ ticks = 0 /\ admitted = 0 /\ grace = 0
    /\ [][StartWatch \/ Count]_<<vars, watching>>

(* Within w ticks at most 1 + w / OpenTimeout requests are let through     *)
(* while the breaker is not closed, and from the moment it opens at most   *)
(* w / OpenTimeout: nobody before the pause is over.                       *)
PauseBound == watch = "on" => OpenTimeout * admitted <= ticks + grace

(* The time until a breaker that is not closed may let a request through.  *)
Wait == OpenTimeout - Lesser(sinceProbe, sinceOpen)

Watched ==
    /\ watch \in {"on", "off"}
    /\ ticks \in Nat /\ admitted \in Nat /\ grace \in 0 .. OpenTimeout
    /\ watch = "on" =>
        /\ state # "closed"
        /\ OpenTimeout * admitted + OpenTimeout <= ticks + Wait + grace

(* How the wait changes: it runs down with the clock, must be over when a  *)
(* probe is let through, and starts again then and at every opening.       *)
LEMMA WaitRunsDown ==
    ASSUME Inv
    PROVE  /\ Wait \in 0 .. OpenTimeout
           /\ Tick => /\ state' = state
                      /\ Wait' = Wait \/ Wait' = Wait - 1
  <1>1. /\ OpenTimeout \in Nat
        /\ sinceProbe \in 0 .. OpenTimeout /\ sinceOpen \in 0 .. OpenTimeout
    BY BreakerAssumption DEF Inv, TypeOK
  <1>2. QED
    BY <1>1 DEF Wait, Lesser, Tick, Older

LEMMA WaitBegins ==
    ASSUME Inv, NEW r \in Requests
    PROVE  /\ AdmitProbe(r) => Wait = 0 /\ Wait' = OpenTimeout
           /\ OnResult(r) \/ Panic(r) \/ Reject(r) \/ UpstreamChanges =>
                 \/ state' = state /\ Wait' = Wait
                 \/ state' = "open" /\ Wait' = OpenTimeout
                 \/ state' = "closed"
           /\ ~(Opens /\ (AdmitClosed(r) \/ AdmitProbe(r)))
  <1>1. /\ OpenTimeout \in Nat /\ age \in 0 .. OpenTimeout
        /\ sinceProbe \in 0 .. OpenTimeout /\ sinceOpen \in 0 .. OpenTimeout
    BY BreakerAssumption DEF Inv, TypeOK
  <1>2. AdmitProbe(r) => Wait = 0 /\ Wait' = OpenTimeout
    <2> SUFFICES ASSUME AdmitProbe(r)
                 PROVE  Wait = 0 /\ Wait' = OpenTimeout
      OBVIOUS
    <2>1. state = "open" /\ age = OpenTimeout
      BY <1>1 DEF AdmitProbe, MayProbe, Inv, BreakerInv
    <2>2. sinceOpen = OpenTimeout /\ sinceProbe = OpenTimeout
      BY <1>1, <2>1 DEF Inv, BreakerInv
    <2>3. sinceProbe' = 0 /\ sinceOpen' = OpenTimeout
      BY <2>2 DEF AdmitProbe
    <2>4. QED
      BY <1>1, <2>2, <2>3 DEF Wait, Lesser
  <1>3. ASSUME OnResult(r) \/ Panic(r) \/ Reject(r) \/ UpstreamChanges
        PROVE  \/ state' = state /\ Wait' = Wait
               \/ state' = "open" /\ Wait' = OpenTimeout
               \/ state' = "closed"
    <2>1. sinceProbe' = sinceProbe
      BY <1>3 DEF OnResult, ResultHalfOpen, ResultOpen, SuccessClosed,
                  FailureClosed, Returns, Panic, Reject, UpstreamChanges,
                  history, vars
    <2>2. \/ state' = state /\ sinceOpen' = sinceOpen
          \/ state' = "open" /\ sinceOpen' = 0
          \/ state' = "closed"
      BY <1>3 DEF OnResult, ResultHalfOpen, ResultOpen, SuccessClosed,
                  FailureClosed, Panic, Reject, UpstreamChanges, history, vars
    <2>3. QED
      BY <1>1, <2>1, <2>2 DEF Wait, Lesser
  <1>4. ~(Opens /\ (AdmitClosed(r) \/ AdmitProbe(r)))
    BY DEF Opens, AdmitClosed, AdmitProbe
  <1>5. QED
    BY <1>2, <1>3, <1>4

(* The observer watches without interfering. *)
LEMMA WatchesSpec == WatchSpec => Spec
  <1>1. [StartWatch \/ Count]_<<vars, watching>> => [Next]_vars
    BY DEF StartWatch, Count, Next, Allow
  <1>2. QED
    BY <1>1, PTL DEF WatchSpec, Spec

(* While the breaker is not closed, in any w ticks, whenever they begin,   *)
(* at most 1 + w / OpenTimeout requests reach the upstream, and in the w   *)
(* ticks from any opening at most w / OpenTimeout: what the package        *)
(* comment's pause amounts to with late results and overlapping probes.    *)
THEOREM PauseTheorem == WatchSpec => []PauseBound
  <1>0. OpenTimeout \in Nat
    BY BreakerAssumption
  <1>1. Init /\ watch = "off" /\ ticks = 0 /\ admitted = 0 /\ grace = 0
        => Watched
    BY <1>0 DEF Watched
  <1>2. Inv /\ Inv' /\ Watched /\ [StartWatch \/ Count]_<<vars, watching>>
        => Watched'
    <2>1. ASSUME Inv, Inv', StartWatch
          PROVE  Watched'
      <3>1. /\ ticks' = 0 /\ admitted' = 0 /\ watch' \in {"on", "off"}
            /\ watch' = "on" => state' # "closed"
            /\ grace' = IF Opens THEN 0 ELSE OpenTimeout
        BY <2>1 DEF StartWatch
      <3>2. Wait' \in 0 .. OpenTimeout
        <4>1. \A m, n \in 0 .. OpenTimeout :
                OpenTimeout - Lesser(m, n) \in 0 .. OpenTimeout
          BY <1>0 DEF Lesser
        <4>2. /\ sinceProbe' \in 0 .. OpenTimeout
              /\ sinceOpen' \in 0 .. OpenTimeout
          BY <2>1 DEF Inv, TypeOK
        <4>3. Wait' = OpenTimeout - Lesser(sinceProbe', sinceOpen')
          BY DEF Wait, Lesser
        <4>4. QED
          BY <4>1, <4>2, <4>3
      <3>3. Opens => Wait' = OpenTimeout
        <4>1. ASSUME NEW r \in Requests, Allow(r) \/ Serve(r), Opens
              PROVE  Wait' = OpenTimeout
          <5>1. Reject(r) \/ OnResult(r) \/ Panic(r)
            BY <2>1, <4>1, WaitBegins DEF Allow, Serve
          <5>2. QED
            BY <2>1, <4>1, <5>1, WaitBegins DEF Opens
        <4>2. ASSUME Tick \/ UpstreamChanges
              PROVE  ~Opens
          BY <4>2 DEF Tick, UpstreamChanges, Opens
        <4>3. QED
          BY <2>1, <4>1, <4>2 DEF StartWatch, Next
      <3>4. OpenTimeout * admitted' = 0
        BY <1>0, <3>1
      <3>5. OpenTimeout * admitted' + OpenTimeout <= ticks' + Wait' + grace'
        <4>1. 0 + OpenTimeout <= ticks' + Wait' + grace'
          <5>1. CASE Opens
            BY <1>0, <3>1, <3>3, <5>1
          <5>2. CASE ~Opens
            <6>1. grace' = OpenTimeout /\ ticks' = 0
              BY <3>1, <5>2
            <6>2. \A w \in 0 .. OpenTimeout : 0 + OpenTimeout <= 0 + w + OpenTimeout
              BY <1>0
            <6>3. QED
              BY <3>2, <6>1, <6>2, Zenon
          <5>3. QED
            BY <5>1, <5>2
        <4>2. QED
          BY <3>4, <4>1, Zenon
      <3>6. QED
        BY <1>0, <3>1, <3>5 DEF Watched
    <2>2. ASSUME Inv, Watched, Count
          PROVE  Watched'
      <3>1. PICK a \in Nat : a = OpenTimeout * admitted
        BY <1>0, <2>2 DEF Watched
      <3>2. /\ admitted \in Nat /\ ticks \in Nat /\ grace \in 0 .. OpenTimeout
            /\ watch \in {"on", "off"} /\ grace' = grace
            /\ watch' = IF state' = "closed" THEN "off" ELSE watch
            /\ watch = "on" => /\ state # "closed"
                               /\ a + OpenTimeout <= ticks + Wait + grace
        BY <2>2, <3>1 DEF Watched, Count
      <3>3. Wait \in 0 .. OpenTimeout
        BY <2>2, WaitRunsDown
      <3>4. CASE Tick /\ ticks' = ticks + 1 /\ UNCHANGED admitted
        <4>1. state' = state /\ (Wait' = Wait \/ Wait' = Wait - 1)
          BY <2>2, <3>4, WaitRunsDown
        <4>2. a = OpenTimeout * admitted'
          BY <3>1, <3>4
        <4>3. watch' = "on" => a + OpenTimeout <= ticks' + Wait' + grace'
          BY <1>0, <3>2, <3>3, <3>4, <4>1
        <4>4. QED
          BY <3>2, <3>4, <4>1, <4>2, <4>3 DEF Watched
      <3>5. ASSUME NEW r \in Requests, AdmitClosed(r) \/ AdmitProbe(r),
                   admitted' = admitted + 1, UNCHANGED ticks
            PROVE  Watched'
        <4>1. CASE AdmitClosed(r)
          <5>1. watch' # "on"
            BY <3>2, <4>1 DEF AdmitClosed
          <5>2. QED
            BY <3>2, <3>5, <5>1 DEF Watched
        <4>2. CASE AdmitProbe(r)
          <5>1. Wait = 0 /\ Wait' = OpenTimeout /\ state' = "halfOpen"
            BY <2>2, <4>2, WaitBegins DEF AdmitProbe
          <5>2. a + OpenTimeout = OpenTimeout * admitted'
            BY <1>0, <3>1, <3>2, <3>5
          <5>3. watch' = "on" =>
                   (a + OpenTimeout) + OpenTimeout <= ticks' + Wait' + grace'
            BY <1>0, <3>2, <3>5, <5>1
          <5>4. QED
            BY <3>2, <3>5, <5>1, <5>2, <5>3 DEF Watched
        <4>3. QED
          BY <3>5, <4>1, <4>2
      <3>6. ASSUME \/ \E r \in Requests : Reject(r) \/ Serve(r)
                   \/ UpstreamChanges,
                   UNCHANGED <<ticks, admitted>>
            PROVE  Watched'
        <4>1. \/ state' = state /\ Wait' = Wait
              \/ state' = "open" /\ Wait' = OpenTimeout
              \/ state' = "closed"
          <5>1. ASSUME NEW r \in Requests, Reject(r) \/ Serve(r)
                PROVE  \/ state' = state /\ Wait' = Wait
                       \/ state' = "open" /\ Wait' = OpenTimeout
                       \/ state' = "closed"
            BY <2>2, <5>1, WaitBegins DEF Serve
          <5>2. CASE UpstreamChanges
            BY <5>2 DEF UpstreamChanges, history, Wait
          <5>3. QED
            BY <3>6, <5>1, <5>2
        <4>2. a = OpenTimeout * admitted'
          BY <3>1, <3>6
        <4>3. watch' = "on" =>
                 /\ state' # "closed"
                 /\ a + OpenTimeout <= ticks' + Wait' + grace'
          BY <1>0, <3>2, <3>3, <3>6, <4>1
        <4>4. QED
          BY <3>2, <3>6, <4>2, <4>3 DEF Watched
      <3>7. QED
        BY <2>2, <3>4, <3>5, <3>6 DEF Count
    <2>3. ASSUME Watched, UNCHANGED <<vars, watching>>
          PROVE  Watched'
      BY <2>3 DEF vars, watching, Watched, Wait
    <2>4. QED
      BY <2>1, <2>2, <2>3
  <1>3. Inv /\ Watched => PauseBound
    <2> SUFFICES ASSUME Inv, Watched, watch = "on"
                 PROVE  OpenTimeout * admitted <= ticks + grace
      BY DEF PauseBound
    <2>1. PICK a \in Nat : a = OpenTimeout * admitted
      BY <1>0 DEF Watched
    <2>2. a + OpenTimeout <= ticks + Wait + grace /\ Wait \in 0 .. OpenTimeout
      BY <2>1, WaitRunsDown DEF Watched
    <2>3. a <= ticks + grace
      BY <1>0, <2>2 DEF Watched
    <2>4. QED
      BY <2>1, <2>3
  <1>4. QED
    BY <1>1, <1>2, <1>3, WatchesSpec, InvCorrect, PTL DEF WatchSpec

=============================================================================
