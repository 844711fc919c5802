----------------------------- MODULE RateLimiter -----------------------------
(***************************************************************************)
(* internal/middleware/ratelimiter.go: one token bucket before the next    *)
(* handler, asked without waiting (Middleware) or with (WaitMiddleware).   *)
(*                                                                         *)
(* The bucket is a rate.Limiter of golang.org/x/time/rate, modelled by     *)
(* what it does for these two callers.  Time passes in ticks; a token      *)
(* comes every Interval ticks, so the bucket's content is a number of      *)
(* ticks, Interval to a token, and below zero when tokens to come have     *)
(* been reserved.  What happens at a moment of the program is a distance   *)
(* from now: a waiting request has its token in until[r] ticks and the end *)
(* of its context in left[r].  Timers and goroutines may be Late ticks.    *)
(***************************************************************************)
EXTENDS Integers, FiniteSets

CONSTANTS Clients,   \* each makes one request at a time
          Interval,  \* ticks in which a token comes: 1/reqPerSec
          Burst,     \* tokens the bucket holds
          MaxWait,   \* the time limit of WaitMiddleware
          Late       \* by how much a timer may be late

ASSUME LimiterAssumption ==
    /\ Interval \in Nat \ {0}
    /\ Burst \in Nat \ {0}
    /\ MaxWait \in Nat
    /\ Late \in Nat
    /\ IsFiniteSet(Clients)

Full == Burst * Interval

VARIABLES
    enabled,    \* reqPerSec and burst were both positive
    credit,     \* content of the bucket
    stage,      \* of each request
    until,      \* ticks to the token of a waiting request
    left,       \* ticks to the end of its context
    level,      \* history: meter of what was let through, see RateBound
    forfeited   \* history: a cancelled reservation did not return its token

limiterVars == <<enabled, credit, stage, until, left, level, forfeited>>

RequestState == {"idle", "waiting", "inside", "refused"}

Waiting == {r \in Clients : stage[r] = "waiting"}

Enter(r, s) == stage' = [stage EXCEPT ![r] = s]

LimiterInit ==
    /\ enabled \in BOOLEAN
    /\ credit = Full
    /\ stage = [r \in Clients |-> "idle"]
    /\ until = [r \in Clients |-> 0]
    /\ left = [r \in Clients |-> 0]
    /\ level = 0
    /\ forfeited = FALSE

-----------------------------------------------------------------------------
(* A disabled limiter hands out the next handler itself. *)
PassThrough(r) ==
    /\ ~enabled
    /\ stage[r] = "idle"
    /\ Enter(r, "inside")
    /\ UNCHANGED <<enabled, credit, until, left, level, forfeited>>

(* Mutated form: the limiter is asked twice for one request. *)
TakeTwoTokens(r) ==
    /\ Interval <= credit
    /\ credit' = credit - 2 * Interval
    /\ level' = level + Interval
    /\ Enter(r, "inside")
    /\ UNCHANGED <<enabled, until, left, forfeited>>

(* A token is taken and the next handler runs. *)
TakeToken(r) ==
    /\ Interval <= credit
    /\ credit' = credit - Interval
    /\ level' = level + Interval
    /\ Enter(r, "inside")
    /\ UNCHANGED <<enabled, until, left, forfeited>>

Refuse(r) ==
    /\ Enter(r, "refused")
    /\ UNCHANGED <<enabled, credit, until, left, level, forfeited>>

(* limiter.Allow() *)
AllowNow(r) ==
    /\ enabled
    /\ stage[r] = "idle"
    /\ TakeToken(r) \/ (credit < Interval /\ Refuse(r))

(* limiter.Wait(ctx) of a context that lasts MaxWait: no token is reserved *)
(* that would come later.                                                  *)
Reserve(r) ==
    /\ credit < Interval
    /\ Interval - credit <= MaxWait
    /\ credit' = credit - Interval
    /\ until' = [until EXCEPT ![r] = Interval - credit]
    /\ left' = [left EXCEPT ![r] = MaxWait]
    /\ Enter(r, "waiting")
    /\ UNCHANGED <<enabled, level, forfeited>>

Wait(r) ==
    /\ enabled
    /\ stage[r] = "idle"
    /\ \/ TakeToken(r)
       \/ Reserve(r)
       \/ Interval - credit > MaxWait /\ credit < Interval /\ Refuse(r)

(* Wait looks at the context first: the client may have left already. *)
WaitOfNobody(r) ==
    /\ enabled
    /\ stage[r] = "idle"
    /\ Refuse(r)

-----------------------------------------------------------------------------
(* What becomes of a waiting request. *)

StopWaiting(r, s) ==
    /\ Enter(r, s)
    /\ until' = [until EXCEPT ![r] = 0]
    /\ left' = [left EXCEPT ![r] = 0]

(* Mutated form: the bucket is asked again after the wait. *)
ProceedOnToken(r) ==
    /\ stage[r] = "waiting"
    /\ until[r] <= 0
    /\ Interval <= credit
    /\ credit' = credit - Interval
    /\ StopWaiting(r, "inside")
    /\ level' = level + Interval
    /\ UNCHANGED <<enabled, forfeited>>

(* The timer of the reservation has fired. *)
Proceed(r) ==
    /\ stage[r] = "waiting"
    /\ until[r] <= 0
    /\ StopWaiting(r, "inside")
    /\ level' = level + Interval
    /\ UNCHANGED <<enabled, credit, forfeited>>

(* When the token of the latest reservation comes. *)
LastEvent == IF credit < 0 THEN -credit ELSE 0

(* Mutated form: a cancelled reservation always gives its token back. *)
ReturnedInFull(r) == Interval

(* Reservation.Cancel gives back what was not reserved after it by others, *)
(* and nothing once the moment of the reservation has passed.              *)
Returned(r) ==
    IF until[r] < 0 \/ LastEvent - until[r] >= Interval
    THEN 0
    ELSE Interval - (LastEvent - until[r])

(* The context ends first, because its time is over or the client has left.*)
ContextEnds(r) ==
    /\ stage[r] = "waiting"
    /\ StopWaiting(r, "refused")
    /\ credit' = IF credit + Returned(r) > Full THEN Full ELSE credit + Returned(r)
    /\ forfeited' = (forfeited \/ Returned(r) < Interval)
    /\ UNCHANGED <<enabled, level>>

(* The request is over, and its client may make another. *)
Again(r) ==
    /\ stage[r] \in {"inside", "refused"}
    /\ Enter(r, "idle")
    /\ UNCHANGED <<enabled, credit, until, left, level, forfeited>>

-----------------------------------------------------------------------------
(* Mutated form: the bucket fills without end. *)
TickOverflows ==
    /\ \A r \in Waiting : until[r] > -Late
    /\ credit' = credit + 1
    /\ level' = IF level > 0 THEN level - 1 ELSE 0
    /\ until' = [r \in Clients |-> IF r \in Waiting THEN until[r] - 1 ELSE 0]
    /\ left' = [r \in Clients |-> IF r \in Waiting THEN left[r] - 1 ELSE 0]
    /\ UNCHANGED <<enabled, stage, forfeited>>

(* A tick passes, unless a request has been due for Late ticks. *)
LimiterTick ==
    /\ \A r \in Waiting : until[r] > -Late
    /\ credit' = IF credit < Full THEN credit + 1 ELSE Full
    /\ level' = IF level > 0 THEN level - 1 ELSE 0
    /\ until' = [r \in Clients |-> IF r \in Waiting THEN until[r] - 1 ELSE 0]
    /\ left' = [r \in Clients |-> IF r \in Waiting THEN left[r] - 1 ELSE 0]
    /\ UNCHANGED <<enabled, stage, forfeited>>

LimiterNext ==
    \/ LimiterTick
    \/ \E r \in Clients :
          \/ PassThrough(r)
          \/ AllowNow(r)
          \/ Wait(r)
          \/ WaitOfNobody(r)
          \/ Proceed(r)
          \/ ContextEnds(r)
          \/ Again(r)

LimiterSpec == LimiterInit /\ [][LimiterNext]_limiterVars

(* Time passes and timers that are due run.  No client has to stay. *)
LimiterFairSpec ==
    /\ LimiterSpec
    /\ WF_limiterVars(LimiterTick)
    /\ \A r \in Clients : WF_limiterVars(Proceed(r))

-----------------------------------------------------------------------------
(* Properties *)

LimiterTypeOK ==
    /\ enabled \in BOOLEAN
    /\ credit \in Int /\ credit <= Full
    /\ stage \in [Clients -> RequestState]
    /\ until \in [Clients -> Int]
    /\ left \in [Clients -> Int]
    /\ level \in Nat
    /\ forfeited \in BOOLEAN

(* The next handler is protected from bursts: in any w ticks it gets at    *)
(* most Burst + (w + Late) / Interval requests, those let in at once and   *)
(* those that waited taken together, whatever reservations were cancelled. *)
(* level is the meter of that: it rises by Interval with every request and *)
(* falls by one with every tick.                                           *)
RateBound == level <= Full + Late

(* A burst does not pile up goroutines in WaitMiddleware: however many     *)
(* clients come, in whatever order their waits begin, are cancelled and    *)
(* end late, no more than 1 + (MaxWait + Late) / Interval requests wait at *)
(* a time.  What a cancelled wait gives back must not let the next ones    *)
(* reserve tokens that others hold.                                        *)
QueueBound == Interval * Cardinality(Waiting) <= MaxWait + Late + Interval

(* Nobody is refused while the bucket has been used for less than it       *)
(* allows: what was let through or will be accounts for every token that   *)
(* is missing, unless a cancelled reservation has not been returned.       *)
RefusalIsJust ==
    ~forfeited => level + Interval * Cardinality(Waiting) + credit >= Full

(* A waiting request is let through or refused. *)
WaitEnds == \A r \in Clients : stage[r] = "waiting" ~> stage[r] # "waiting"

=============================================================================
