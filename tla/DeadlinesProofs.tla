--------------------------- MODULE DeadlinesProofs ---------------------------
(***************************************************************************)
(* Theorems about the deadlines of a request, for all values of the        *)
(* timeouts that DeadlinesAssumption allows.                               *)
(***************************************************************************)
EXTENDS Deadlines, TLAPS

(* WriteTimeout never ends later than it would if it began now, so it is   *)
(* over when a call is that begins now.                                    *)
WriteInv ==
    /\ writeBy <= now + WriteTimeout
    /\ place = "header" => why = "none"
    /\ place = "call" => writeBy <= callBy /\ now <= callBy
    /\ why = "timeout" => writeBy <= now
    /\ place # "done" => reply = "none"

(* Where a proxied request is, and until when at most. *)
ProxyInv ==
    kind = "proxied" =>
        /\ place \notin Query
        /\ place \in {"header", "body"} => now <= ReadTimeout
        /\ place = "call" =>
               now <= callBy /\ callBy <= ReadTimeout + CallTime(kind)

Inv == TypeOK /\ WriteInv /\ ProxyInv /\ HandlerBounded /\ TimeoutIsSilent

USE DeadlinesAssumption DEF Kind, Query, Place

(* A call is given at least the WriteTimeout. *)
LEMMA CallTimeLemma ==
    ASSUME NEW k \in Kind
    PROVE  CallTime(k) \in Nat /\ CallTime(k) >= WriteTimeout
    BY DEF CallTime

LEMMA InitInv == DeadlineInit => Inv
<1> SUFFICES ASSUME DeadlineInit
             PROVE  Inv
    OBVIOUS
<1>1. CallTime(kind) \in Nat
    BY CallTimeLemma DEF DeadlineInit
<1>2. TypeOK
    BY DEF DeadlineInit, TypeOK
<1>3. WriteInv /\ ProxyInv /\ HandlerBounded /\ TimeoutIsSilent
    BY <1>1 DEF DeadlineInit, WriteInv, ProxyInv, HandlerBounded, TimeoutIsSilent
<1>4. QED
    BY <1>2, <1>3 DEF Inv

(* Reading the request. *)
LEMMA ReadInv ==
    ASSUME Inv, ReadHeader \/ HeaderFails \/ ReadBody \/ ReadFails
    PROVE  Inv'
<1> USE DEF Inv, TypeOK, WriteInv, ProxyInv, HandlerBounded, TimeoutIsSilent
<1>1. CallTime(kind) \in Nat /\ CallTime(kind) >= WriteTimeout
    BY CallTimeLemma
<1>2. UNCHANGED kind => CallTime(kind)' = CallTime(kind)
    BY DEF CallTime
<1>3. CASE ReadHeader
    BY <1>1, <1>2, <1>3 DEF ReadHeader
<1>4. CASE HeaderFails
    BY <1>1, <1>2, <1>4 DEF HeaderFails
<1>5. CASE ReadBody
    BY <1>1, <1>2, <1>5 DEF ReadBody, Call
<1>6. CASE ReadFails
    BY <1>1, <1>2, <1>6 DEF ReadFails, Call
<1>7. QED
    BY <1>3, <1>4, <1>5, <1>6

(* The queries, with which a proxied request has nothing to do. *)
LEMMA QueryInv ==
    ASSUME Inv, QueryReturns \/ QueryCancelled
    PROVE  Inv'
<1>1. CallTime(kind) \in Nat /\ CallTime(kind) >= WriteTimeout
    BY CallTimeLemma DEF Inv, TypeOK
<1>2. PICK next \in {"body", "call", "refuse", "return"} :
        /\ place \in Query
        /\ Goto(next)
        /\ why' = IF next = "refuse" THEN "request" ELSE why
        /\ UNCHANGED <<kind, now, writeBy, watched, left, reply>>
    BY DEF QueryReturns, QueryCancelled, After
<1>3. kind = "dynamic"
    BY <1>2 DEF Inv, TypeOK, ProxyInv
<1>4. /\ place' = next
      /\ callBy' = IF next = "call" THEN now + CallTime(kind) ELSE callBy
    BY <1>2 DEF Goto, Call
<1>5. QED
    BY <1>1, <1>2, <1>3, <1>4
       DEF Inv, TypeOK, WriteInv, ProxyInv, HandlerBounded, TimeoutIsSilent

(* The end of the call: when its Timeout is over the WriteTimeout is, too. *)
LEMMA CallInv ==
    ASSUME Inv,
           UpstreamAnswers \/ UpstreamFails \/ CallTimesOut \/ CallCancelled
    PROVE  Inv'
<1>1. CallTime(kind) \in Nat
    BY CallTimeLemma DEF Inv, TypeOK
<1>2. PICK reason \in {"request", "upstream", "timeout"} :
        /\ CallEnds(reason)
        /\ reason = "timeout" => now = callBy
        /\ place' \in {"outbound", "refuse", "return"}
        /\ kind = "proxied" => place' = "return"
    BY DEF UpstreamAnswers, UpstreamFails, CallTimesOut, CallCancelled, Failed,
           Inv, TypeOK
<1>3. UNCHANGED kind => CallTime(kind)' = CallTime(kind)
    BY DEF CallTime
<1>4. QED
    BY <1>1, <1>2, <1>3
       DEF CallEnds, Inv, TypeOK, WriteInv, ProxyInv, HandlerBounded,
           TimeoutIsSilent

(* Returning, leaving, and time. *)
LEMMA OtherInv ==
    ASSUME Inv, Return \/ ClientLeaves \/ Tick
    PROVE  Inv'
<1> USE DEF Inv, TypeOK, WriteInv, ProxyInv, HandlerBounded, TimeoutIsSilent
<1>1. CallTime(kind) \in Nat
    BY CallTimeLemma
<1>2. UNCHANGED kind => CallTime(kind)' = CallTime(kind)
    BY DEF CallTime
<1>3. CASE Return
    BY <1>1, <1>2, <1>3 DEF Return
<1>4. CASE ClientLeaves
    BY <1>1, <1>2, <1>4 DEF ClientLeaves
<1>5. CASE Tick
    BY <1>1, <1>2, <1>5 DEF Tick
<1>6. QED
    BY <1>3, <1>4, <1>5

LEMMA NextInv == Inv /\ [DeadlineNext]_deadlineVars => Inv'
<1> SUFFICES ASSUME Inv, [DeadlineNext]_deadlineVars
             PROVE  Inv'
    OBVIOUS
<1>1. CASE DeadlineNext
    BY <1>1, ReadInv, QueryInv, CallInv, OtherInv
       DEF DeadlineNext, Handler, ReadNothing
<1>2. CASE UNCHANGED deadlineVars
    BY <1>2 DEF deadlineVars, Inv, TypeOK, WriteInv, ProxyInv, HandlerBounded,
        TimeoutIsSilent, CallTime
<1>3. QED
    BY <1>1, <1>2

LEMMA InvHolds == DeadlineSpec => []Inv
    BY InitInv, NextInv, PTL DEF DeadlineSpec

(* Every variable of Deadlines keeps its type. *)
THEOREM TypeCorrect == DeadlineSpec => []TypeOK
<1>1. Inv => TypeOK
    BY DEF Inv
<1>2. QED
    BY <1>1, InvHolds, PTL

(* With a client whose Timeout is not shorter than the WriteTimeout of the *)
(* server, the answer to a call that timed out reaches nobody.             *)
THEOREM TimeoutIsSilentCorrect == DeadlineSpec => []TimeoutIsSilent
<1>1. Inv => TimeoutIsSilent
    BY DEF Inv
<1>2. QED
    BY <1>1, InvHolds, PTL

(* A proxied request is over by the ReadTimeout and the client's Timeout.  *)
THEOREM HandlerBoundedCorrect == DeadlineSpec => []HandlerBounded
<1>1. Inv => HandlerBounded
    BY DEF Inv
<1>2. QED
    BY <1>1, InvHolds, PTL

=============================================================================
