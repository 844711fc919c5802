---------------------------- MODULE MCMiddleware ----------------------------
(***************************************************************************)
(* Instances of the two protective middlewares for TLC, side by side in    *)
(* one run: part says which of them a behaviour is about, and the other    *)
(* stays as it begins.  They share nothing.                                *)
(*                                                                         *)
(* Four clients of a bucket of two, with a token every two ticks and waits *)
(* of at most four, drain it, queue behind one another and are refused.    *)
(* Three requests of the breaker, with a threshold of five, overlap as     *)
(* requests let through before it opened, a probe and a newcomer.          *)
(***************************************************************************)
EXTENDS CircuitBreaker, RateLimiter

VARIABLE part

mcVars == <<part, vars, limiterVars>>

BreakerStep(A) == part = "breaker" /\ A /\ UNCHANGED <<part, limiterVars>>
LimiterStep(A) == part = "limiter" /\ A /\ UNCHANGED <<part, vars>>

MCInit ==
    /\ Init
    /\ LimiterInit
    /\ \/ part = "breaker" /\ ~enabled
       \/ part = "limiter" /\ healthy

MCNext == BreakerStep(Next) \/ LimiterStep(LimiterNext)

(* The fairness of both. *)
MCFairness ==
    /\ WF_mcVars(BreakerStep(Tick))
    /\ \A r \in Requests :
          WF_mcVars(BreakerStep(Serve(r))) /\ WF_mcVars(BreakerStep(Allow(r)))
    /\ WF_mcVars(LimiterStep(LimiterTick))
    /\ \A r \in Clients : WF_mcVars(LimiterStep(Proceed(r)))

MCSpec == MCInit /\ [][MCNext]_mcVars /\ MCFairness

=============================================================================
