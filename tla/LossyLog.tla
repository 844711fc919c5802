------------------------------ MODULE LossyLog ------------------------------
(***************************************************************************)
(* What a request handler may rely on when it hands an event to the log   *)
(* publisher (the interface Publisher of internal/kafkax/producer.go): a   *)
(* best-effort, first-in first-out log.  An event may be refused at the    *)
(* door or lost later, and whatever is still pending when the log stops is *)
(* lost, but an event is delivered at most once, events are delivered in   *)
(* the order in which they were accepted, and nothing is accepted or       *)
(* delivered after the log has stopped.                                    *)
(***************************************************************************)
EXTENDS Naturals, Sequences

CONSTANTS Handlers,   \* the goroutines that offer events
          MaxCalls    \* how many events one of them offers

(* An event is named by who offers it and by its number among his offers. *)
Message == [from : Handlers, no : 1 .. MaxCalls]

VARIABLES issued,     \* how many events each handler has offered
          pending,    \* accepted, neither delivered nor lost yet
          delivered,  \* what has reached the log, in order
          stopped     \* the log accepts and delivers nothing any more

vars == <<issued, pending, delivered, stopped>>

Init ==
    /\ issued = [h \in Handlers |-> 0]
    /\ pending = <<>>
    /\ delivered = <<>>
    /\ stopped = FALSE

(* An offer returns at once: the event is taken, or it is refused. *)
Offer(h) ==
    /\ issued[h] < MaxCalls
    /\ issued' = [issued EXCEPT ![h] = @ + 1]
    /\ \/ /\ ~stopped
          /\ pending' = Append(pending, [from |-> h, no |-> issued[h] + 1])
       \/ UNCHANGED pending
    /\ UNCHANGED <<delivered, stopped>>

Deliver ==
    /\ ~stopped
    /\ pending # <<>>
    /\ delivered' = Append(delivered, Head(pending))
    /\ pending' = Tail(pending)
    /\ UNCHANGED <<issued, stopped>>

Lose ==
    /\ ~stopped
    /\ pending # <<>>
    /\ pending' = Tail(pending)
    /\ UNCHANGED <<issued, delivered, stopped>>

Stop ==
    /\ ~stopped
    /\ stopped' = TRUE
    /\ UNCHANGED <<issued, pending, delivered>>

Next ==
    \/ \E h \in Handlers : Offer(h)
    \/ Deliver
    \/ Lose
    \/ Stop

Spec == Init /\ [][Next]_vars

=============================================================================
