------------------------------ MODULE Lifecycle ------------------------------
(***************************************************************************)
(* The life of the process: main() of cmd/gateway/main.go, the handlers    *)
(* that net/http runs and the log publisher they share.                    *)
(*                                                                         *)
(* main acquires the tracer, the repository and the publisher one after    *)
(* the other, registers the routes, starts the server and waits for a      *)
(* signal.  Then it gives Shutdown five seconds, ignores its error, and    *)
(* returns, which runs what was deferred, the last first: pub.Close(),     *)
(* repo.Close() and the shutdown of the tracer.  A panic in main runs what *)
(* has been deferred by then; log.Fatal, in main or in the server's        *)
(* goroutine, ends the process on the spot.                                *)
(***************************************************************************)
EXTENDS Naturals, Sequences, FiniteSets

CONSTANTS Handlers, Capacity, MaxCalls,  \* see Publisher
          PatternLists                   \* what main may register, in order

ASSUME LifecycleAssumption ==
    /\ Capacity \in Nat \ {0}
    /\ MaxCalls \in Nat

VARIABLES
    main,        \* control point of main()
    open,        \* what main has acquired and deferred the closing of
    kafka,       \* kafka.enabled: NewPublisher returns more than Noop()
    patterns,    \* the patterns that main registers
    registered,  \* how many patterns the mux has
    busy,        \* handlers whose connection has a request
    timedOut,    \* Shutdown returned because its context ended
    cause,       \* why main left: "none", "signal", "panic" or "fatal"
    orphaned,    \* history: handlers that queried a closed repository
    ch, loop, current, closer, calls, panicked, written, failed, dropped,
    brokerUp     \* the publisher

log == <<ch, loop, current, closer, calls, panicked, written, failed, dropped,
         brokerUp>>
config == <<kafka, patterns>>
vars == <<main, open, config, registered, busy, timedOut, cause, orphaned, log>>

Pub == INSTANCE Publisher

Starting == {"config", "tracer", "table", "repo", "publisher", "registering"}

Init ==
    /\ main = "config"
    /\ open = <<>>
    /\ kafka \in BOOLEAN
    /\ patterns \in PatternLists
    /\ registered = 0
    /\ busy = {}
    /\ timedOut = FALSE
    /\ cause = "none"
    /\ orphaned = {}
    /\ Pub!Init

-----------------------------------------------------------------------------
(* Starting.  Each step of main may be its last: with log.Fatal where it   *)
(* returns an error, with a panic where a pattern does not compile or the  *)
(* mux has it already.                                                     *)

Begin(from, to, stack) ==
    /\ main = from
    /\ main' = to
    /\ open' = stack
    /\ UNCHANGED <<config, registered, busy, timedOut, cause, orphaned, log>>

LoadConfig == Begin("config", "tracer", open)
InitTracer == Begin("tracer", "table", Append(open, "tracer"))
NewTable == Begin("table", "repo", open)
BuildRepo == Begin("repo", "publisher", Append(open, "repo"))

(* Mutated form: the call of pub.Close is not deferred. *)
NewPublisherOnly == Begin("publisher", "registering", open)

NewPublisher == Begin("publisher", "registering", Append(open, "log"))

StartFails ==
    /\ main \in {"config", "tracer", "repo", "publisher"}
    /\ main' = "exited"
    /\ cause' = "fatal"
    /\ UNCHANGED <<open, config, registered, busy, timedOut, orphaned, log>>

Panics ==
    /\ \/ main = "table"
       \/ /\ main = "registering"
          /\ registered < Len(patterns)
          /\ \E i \in 1 .. registered : patterns[i] = patterns[registered + 1]
    /\ main' = "closing"
    /\ cause' = "panic"
    /\ UNCHANGED <<open, config, registered, busy, timedOut, orphaned, log>>

Register ==
    /\ main = "registering"
    /\ registered < Len(patterns)
    /\ \A i \in 1 .. registered : patterns[i] # patterns[registered + 1]
    /\ registered' = registered + 1
    /\ UNCHANGED <<main, open, config, busy, timedOut, cause, orphaned, log>>

Listen ==
    /\ main = "registering"
    /\ registered = Len(patterns)
    /\ main' = "serving"
    /\ UNCHANGED <<open, config, registered, busy, timedOut, cause, orphaned, log>>

(* ListenAndServe returns an error: the address is taken, say. *)
ListenFails ==
    /\ main = "serving"
    /\ main' = "exited"
    /\ cause' = "fatal"
    /\ UNCHANGED <<open, config, registered, busy, timedOut, orphaned, log>>

-----------------------------------------------------------------------------
(* Serving.  A handler queries the repository and publishes events until   *)
(* its request is finished, or until Publish panics, which net/http        *)
(* recovers by closing the connection.  A query changes nothing here while *)
(* the repository is open, and Publish nothing if Kafka is disabled.       *)

Accept(h) ==
    /\ main = "serving"
    /\ h \notin panicked
    /\ busy' = busy \cup {h}
    /\ UNCHANGED <<main, open, config, registered, timedOut, cause, orphaned, log>>

HandlerPublish(h) ==
    /\ main # "exited"
    /\ h \in busy
    /\ kafka
    /\ Pub!Publish(h)
    /\ busy' = busy \ panicked'
    /\ UNCHANGED <<main, open, config, registered, timedOut, cause, orphaned>>

QueryFails(h) ==
    /\ main # "exited"
    /\ h \in busy
    /\ \A i \in DOMAIN open : open[i] # "repo"
    /\ orphaned' = orphaned \cup {h}
    /\ UNCHANGED <<main, open, config, registered, busy, timedOut, cause, log>>

Finish(h) ==
    /\ main # "exited"
    /\ h \in busy
    /\ busy' = busy \ {h}
    /\ UNCHANGED <<main, open, config, registered, timedOut, cause, orphaned, log>>

-----------------------------------------------------------------------------
(* Stopping.  Shutdown closes the listener and waits until no connection   *)
(* has a request, or until its time is over.                               *)

SignalArrives ==
    /\ main = "serving"
    /\ main' = "shutdown"
    /\ cause' = "signal"
    /\ UNCHANGED <<open, config, registered, busy, timedOut, orphaned, log>>

(* Mutated form: Shutdown returns without having waited. *)
ShutdownWaitsForNobody ==
    /\ main = "shutdown"
    /\ main' = "closing"
    /\ UNCHANGED <<open, config, registered, busy, timedOut, cause, orphaned, log>>

ShutdownDrained ==
    /\ main = "shutdown"
    /\ busy = {}
    /\ main' = "closing"
    /\ UNCHANGED <<open, config, registered, busy, timedOut, cause, orphaned, log>>

(* Mutated form: Shutdown gets a context without a deadline. *)
ShutdownNeverTimesOut == FALSE /\ UNCHANGED vars

ShutdownTimesOut ==
    /\ main = "shutdown"
    /\ main' = "closing"
    /\ timedOut' = TRUE
    /\ UNCHANGED <<open, config, registered, busy, cause, orphaned, log>>

(* The call deferred last returns. *)
Release(resource) ==
    /\ main = "closing"
    /\ open # <<>>
    /\ open[Len(open)] = resource
    /\ open' = SubSeq(open, 1, Len(open) - 1)
    /\ UNCHANGED <<main, config, registered, busy, timedOut, cause, orphaned, log>>

CloseLog ==
    /\ main = "closing"
    /\ open # <<>>
    /\ open[Len(open)] = "log"
    /\ kafka
    /\ Pub!SignalLoop \/ Pub!Closing
    /\ UNCHANGED <<main, open, config, registered, busy, timedOut, cause, orphaned>>

LogClosed == (kafka => closer = "done") /\ Release("log")
CloseRepo == Release("repo")
ShutdownTracer == Release("tracer")

Exit ==
    /\ main = "closing"
    /\ open = <<>>
    /\ main' = "exited"
    /\ UNCHANGED <<open, config, registered, busy, timedOut, cause, orphaned, log>>

Main ==
    \/ LoadConfig
    \/ InitTracer
    \/ NewTable
    \/ BuildRepo
    \/ NewPublisher
    \/ StartFails
    \/ Panics
    \/ Register
    \/ Listen
    \/ ShutdownDrained
    \/ ShutdownTimesOut
    \/ CloseLog
    \/ LogClosed
    \/ CloseRepo
    \/ ShutdownTracer
    \/ Exit

(* The publisher's goroutine runs as long as the process. *)
RunLoop ==
    /\ main # "exited"
    /\ Pub!Loop
    /\ UNCHANGED <<main, open, config, registered, busy, timedOut, cause, orphaned>>

BrokerChanges ==
    /\ main # "exited"
    /\ Pub!BrokerChanges
    /\ UNCHANGED <<main, open, config, registered, busy, timedOut, cause, orphaned>>

Next ==
    \/ Main
    \/ ListenFails
    \/ SignalArrives
    \/ \E h \in Handlers :
          Accept(h) \/ HandlerPublish(h) \/ QueryFails(h) \/ Finish(h)
    \/ RunLoop
    \/ BrokerChanges

Spec == Init /\ [][Next]_vars

(* The Go scheduler runs main and the loop.  Nothing is assumed about      *)
(* handlers, which may hang, about Kafka, or about signals.                *)
FairSpec == Spec /\ WF_vars(Main) /\ WF_vars(RunLoop)

-----------------------------------------------------------------------------
(* Properties *)

(* The order of Shutdown and the deferred calls keeps handlers off the     *)
(* closed channel and the closed database: none panics in Publish or has a *)
(* query fail unless Shutdown's five seconds have run out.                 *)
DrainedIsSafe == ~timedOut => panicked = {} /\ orphaned = {}

(* A process that ends by a signal, or by a panic of main wherever it has  *)
(* got to, has closed what it had acquired by then and cuts off no write   *)
(* to Kafka.  After log.Fatal neither is so.                               *)
OrderlyExit ==
    main = "exited" /\ cause # "fatal" => open = <<>> /\ loop # "writing"

(* What makes DrainedIsSafe inductive: the publisher is closed only by a   *)
(* main that has stopped serving, and by then, if Shutdown has drained the *)
(* server, no handler has a request.                                       *)
ShutdownInv ==
    /\ closer # "open" => main \in {"closing", "exited"}
    /\ main \in Starting => busy = {}
    /\ main = "closing" /\ ~timedOut => busy = {}
    /\ timedOut => main \in {"closing", "exited"}

(* Once main has the signal, or panics, the process ends, although         *)
(* handlers may hang, keep publishing or panic and Kafka may never answer. *)
ProcessEnds == (main \in {"shutdown", "closing"}) ~> (main = "exited")

(* "Put it into the channel so that the request is not held up, and drop   *)
(* it if the channel is full": Publish never breaks the request.  The code *)
(* does not keep this.                                                     *)
PublishIsHarmless == panicked = {}

=============================================================================
