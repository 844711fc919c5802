------------------------------ MODULE Deadlines ------------------------------
(***************************************************************************)
(* The deadlines a request runs under: ReadTimeout and WriteTimeout of the *)
(* server, the Timeout of the upstream's client, and none for the queries  *)
(* of the database, which only the context of the request can end.         *)
(*                                                                         *)
(* One request on its connection, either to the dynamic gateway or to a    *)
(* route whose handler proxies it before it answers.  net/http starts both *)
(* deadlines of the server; it cancels the context when it sees the client *)
(* leave, for which it must have read the body to its end; and it keeps a  *)
(* small answer, the only kind here, until the handler returns.  Only      *)
(* waiting takes time.                                                     *)
(***************************************************************************)
EXTENDS Naturals

CONSTANTS ReadTimeout, WriteTimeout,  \* of the server
          DynamicTimeout,             \* of the client of the dynamic gateway
          Margin,                     \* what NewClient adds to the other two
          MaxTime                     \* bound: the time at which clocks stop

(* main gives the dynamic gateway the five seconds of the WriteTimeout. *)
ASSUME DeadlinesAssumption ==
    /\ ReadTimeout \in Nat /\ WriteTimeout \in Nat /\ Margin \in Nat
    /\ DynamicTimeout \in Nat
    /\ DynamicTimeout >= WriteTimeout
    /\ MaxTime \in Nat

Kind == {"dynamic", "proxied"}

VARIABLES
    kind,     \* which of the two the request goes to
    now,      \* the time since the server waits for the request
    place,    \* what the handler waits for
    writeBy,  \* the deadline of what is written to the connection
    callBy,   \* the deadline of the upstream's client
    watched,  \* net/http would see the client leave
    left,     \* the client has left
    why,      \* what the answer is about
    reply     \* whether the client has got the answer

deadlineVars == <<kind, now, place, writeBy, callBy, watched, left, why, reply>>

Query == {"inbound", "checks", "refuse", "outbound"}
Place == Query \cup {"header", "body", "call", "return", "done"}

Cancelled == left /\ watched

DeadlineInit ==
    /\ kind \in Kind
    /\ now = 0
    /\ place = "header"
    /\ writeBy = 0
    /\ callBy = 0
    /\ watched = FALSE
    /\ left = FALSE
    /\ why = "none"
    /\ reply = "none"

(* Mutated form: NewClient forgets to add the two timeouts of the server. *)
MarginOnly(k) == IF k = "proxied" THEN Margin ELSE DynamicTimeout

(* The Timeout of the client that calls the upstream. *)
CallTime(k) ==
    IF k = "proxied" THEN ReadTimeout + WriteTimeout + Margin ELSE DynamicTimeout

-----------------------------------------------------------------------------
(* Reading the request. *)

(* With no body there is nothing to read before the client is watched. *)
ReadHeader ==
    /\ place = "header"
    /\ writeBy' = now + WriteTimeout
    /\ watched' \in BOOLEAN
    /\ place' = IF kind = "dynamic" THEN "inbound" ELSE "body"
    /\ UNCHANGED <<kind, now, callBy, left, why, reply>>

(* ReadTimeout is over, or the client has left, before there is a request. *)
HeaderFails ==
    /\ place = "header"
    /\ now = ReadTimeout \/ left
    /\ place' = "done"
    /\ UNCHANGED <<kind, now, writeBy, callBy, watched, left, why, reply>>

(* Mutated form: a client without a Timeout. *)
CallForever ==
    /\ place' = "call"
    /\ callBy' = MaxTime + 1

Call ==
    /\ place' = "call"
    /\ callBy' = now + CallTime(kind)

(* ReadAll gets the whole body, even after ReadTimeout if it came with the *)
(* header and so is in net/http's buffer.                                  *)
ReadBody ==
    /\ place = "body"
    /\ watched' = TRUE
    /\ IF kind = "dynamic"
       THEN place' = "checks" /\ UNCHANGED callBy
       ELSE Call
    /\ UNCHANGED <<kind, now, writeBy, left, why, reply>>

(* ReadAll returns an error: the dynamic gateway and a validated route     *)
(* answer 400, other routes go on with what they have.  Nobody watches the *)
(* client then, for the end of the body was not reached.                   *)
ReadFails ==
    /\ place = "body"
    /\ ~watched
    /\ now >= ReadTimeout \/ left
    /\ \/ /\ why' = "request"
          /\ place' = IF kind = "dynamic" THEN "refuse" ELSE "return"
          /\ UNCHANGED callBy
       \/ /\ kind = "proxied"
          /\ Call
          /\ UNCHANGED why
    /\ UNCHANGED <<kind, now, writeBy, watched, left, reply>>

-----------------------------------------------------------------------------
(* The dynamic gateway's queries: the inbound log's before the body is     *)
(* read, the checks, the log's before an error is answered and, behind the *)
(* answer, those of the outbound log.  They return whenever the database   *)
(* does.                                                                   *)

After(query) ==
    CASE query = "inbound" -> {"body"}
      [] query = "checks" -> {"call", "refuse"}
      [] OTHER -> {"return"}

Goto(next) ==
    IF next = "call" THEN Call ELSE place' = next /\ UNCHANGED callBy

QueryReturns ==
    /\ place \in Query
    /\ \E next \in After(place) :
        /\ Goto(next)
        /\ why' = IF next = "refuse" THEN "request" ELSE why
    /\ UNCHANGED <<kind, now, writeBy, watched, left, reply>>

(* Mutated form: the queries are given another context than the request's. *)
QueryUncancelled == FALSE /\ UNCHANGED deadlineVars

(* The context ends the query: the log is skipped, a check has failed.     *)
QueryCancelled ==
    /\ place \in Query
    /\ Cancelled
    /\ \E next \in After(place) \ {"call"} :
        /\ Goto(next)
        /\ why' = IF next = "refuse" THEN "request" ELSE why
    /\ UNCHANGED <<kind, now, writeBy, watched, left, reply>>

-----------------------------------------------------------------------------
(* The call of the upstream, up to the end of its answer's body. *)

CallEnds(reason) ==
    /\ place = "call"
    /\ why' = reason
    /\ UNCHANGED <<kind, now, writeBy, callBy, watched, left, reply>>

UpstreamAnswers ==
    /\ now < callBy
    /\ place' = IF kind = "dynamic" THEN "outbound" ELSE "return"
    /\ CallEnds("upstream")

(* The dynamic gateway skips the log where the answer's body is cut short. *)
Failed == place' \in (IF kind = "dynamic" THEN {"refuse", "return"}
                      ELSE {"return"})

UpstreamFails == now < callBy /\ Failed /\ CallEnds("upstream")
CallTimesOut == now = callBy /\ Failed /\ CallEnds("timeout")
CallCancelled == Cancelled /\ Failed /\ CallEnds("request")

(* The handler returns, and what it wrote goes to the connection. *)
Return ==
    /\ place = "return"
    /\ place' = "done"
    /\ reply' = IF left THEN reply
                ELSE IF now < writeBy THEN "got" ELSE "lost"
    /\ UNCHANGED <<kind, now, writeBy, callBy, watched, left, why>>

-----------------------------------------------------------------------------
ClientLeaves ==
    /\ ~left
    /\ place # "done"
    /\ left' = TRUE
    /\ UNCHANGED <<kind, now, place, writeBy, callBy, watched, why, reply>>

(* Time passes while the handler waits, but not past a deadline it is      *)
(* waiting under.                                                          *)
Tick ==
    /\ now < MaxTime
    /\ place \notin {"return", "done"}
    /\ place \in {"header", "body"} => now < ReadTimeout
    /\ place = "body" => ~watched
    /\ place = "call" => now < callBy
    /\ now' = now + 1
    /\ UNCHANGED <<kind, place, writeBy, callBy, watched, left, why, reply>>

ReadNothing == watched /\ ReadBody

(* What the handler does by itself. *)
Handler ==
    \/ ReadNothing
    \/ ReadFails
    \/ QueryCancelled
    \/ CallTimesOut
    \/ CallCancelled
    \/ Return

DeadlineNext ==
    \/ ReadHeader
    \/ HeaderFails
    \/ ReadBody
    \/ QueryReturns
    \/ UpstreamAnswers
    \/ UpstreamFails
    \/ Handler
    \/ ClientLeaves
    \/ Tick

DeadlineSpec == DeadlineInit /\ [][DeadlineNext]_deadlineVars

(* Go runs the handler.  Nothing is assumed about the client, the database *)
(* or the upstream, nor that time passes.                                  *)
DeadlineFairSpec == DeadlineSpec /\ WF_deadlineVars(Handler)

-----------------------------------------------------------------------------
(* Properties *)

(* Every variable has its type. *)
TypeOK ==
    /\ kind \in Kind
    /\ now \in Nat /\ writeBy \in Nat /\ callBy \in Nat
    /\ place \in Place
    /\ watched \in BOOLEAN /\ left \in BOOLEAN
    /\ why \in {"none", "request", "upstream", "timeout"}
    /\ reply \in {"none", "got", "lost"}

(* A client never learns that the upstream has taken too long: on either   *)
(* way the Timeout of the call passes after the WriteTimeout, and the 502  *)
(* is written to a connection that takes nothing more.                     *)
TimeoutIsSilent == why = "timeout" => reply # "got"

(* A proxied request occupies its handler for the time of reading it and   *)
(* the Timeout of one call at most, whatever the client and the upstream   *)
(* do.  The dynamic gateway, whose queries have no deadline, has no such   *)
(* bound.                                                                  *)
HandlerBounded ==
    kind = "proxied" /\ place # "done" =>
        now <= ReadTimeout + CallTime(kind)

(* Once net/http watches a client that has left, the handler ends, even if *)
(* neither the database nor the upstream ever answers again.               *)
LeavingFreesHandler == (left /\ watched) ~> (place = "done")

=============================================================================
