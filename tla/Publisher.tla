----------------------------- MODULE Publisher -----------------------------
(***************************************************************************)
(* The asynchronous Kafka publisher of internal/kafkax/producer.go.        *)
(*                                                                         *)
(* Request handlers call Publish, which puts the event into a buffered Go  *)
(* channel without ever waiting.  One background goroutine, loop, takes    *)
(* events out and writes them to Kafka one at a time.  Close signals the   *)
(* loop, closes the channel, waits for the loop and closes the writer.     *)
(*                                                                         *)
(* A Go select with several ready cases takes any of them; a send on a     *)
(* closed channel panics, also inside a select that has a default case.    *)
(***************************************************************************)
EXTENDS Naturals, Sequences, FiniteSets, Functions

CONSTANTS Handlers,   \* goroutines that serve requests and call Publish
          Capacity,   \* size of the channel: 1000 in the code
          MaxCalls    \* bound: Publish calls made by one handler

ASSUME PublisherAssumption ==
    /\ Capacity \in Nat \ {0}
    /\ MaxCalls \in Nat

(* The payload is abstracted to the caller and the number of his call. *)
Message == [from : Handlers, no : 1 .. MaxCalls]

VARIABLES
    ch,        \* p.ch: the buffered channel
    loop,      \* control point of loop(): "select", "writing" or "exited"
    current,   \* the event loop() is writing: a sequence of at most one
    closer,    \* control point of Close()
    calls,     \* how many times each handler has called Publish
    panicked,  \* handlers whose Publish panicked; their goroutine is gone
    written,   \* history: events whose WriteMessages returned nil, in order
    failed,    \* history: events whose WriteMessages returned an error
    dropped,   \* history: events Publish dropped because ch was full
    brokerUp   \* environment: Kafka can be reached

vars == <<ch, loop, current, closer, calls, panicked, written, failed,
          dropped, brokerUp>>

history == <<written, failed, dropped>>

LoopState == {"select", "writing", "exited"}
CloserState == {"open", "signalled", "joining", "joined", "done"}

(* p.closed has been closed / p.ch has been closed, by where Close() is. *)
Signalled == closer # "open"
ChClosed == closer \in {"joining", "joined", "done"}

Init ==
    /\ ch = <<>>
    /\ loop = "select"
    /\ current = <<>>
    /\ closer = "open"
    /\ calls = [h \in Handlers |-> 0]
    /\ panicked = {}
    /\ written = <<>>
    /\ failed = {}
    /\ dropped = {}
    /\ brokerUp = TRUE

-----------------------------------------------------------------------------
(* Publish: one call is one select on p.ch, hence one step. *)

Call(h) ==
    /\ h \notin panicked
    /\ calls[h] < MaxCalls
    /\ calls' = [calls EXCEPT ![h] = @ + 1]
    /\ UNCHANGED <<loop, current, closer, written, failed, brokerUp>>

Event(h) == [from |-> h, no |-> calls[h] + 1]

Enqueue(h) ==
    /\ Call(h)
    /\ ~ChClosed
    /\ Len(ch) < Capacity
    /\ ch' = Append(ch, Event(h))
    /\ UNCHANGED <<panicked, dropped>>

Drop(h) ==
    /\ Call(h)
    /\ ~ChClosed
    /\ Len(ch) = Capacity
    /\ dropped' = dropped \cup {Event(h)}
    /\ UNCHANGED <<ch, panicked>>

SendOnClosed(h) ==
    /\ Call(h)
    /\ ChClosed
    /\ panicked' = panicked \cup {h}
    /\ UNCHANGED <<ch, dropped>>

(* Mutated form: no default case, so a full channel makes the caller wait. *)
PublishWaits(h) == Enqueue(h) \/ SendOnClosed(h)

Publish(h) == Enqueue(h) \/ Drop(h) \/ SendOnClosed(h)

-----------------------------------------------------------------------------
(* loop: the select takes an event, sees ch closed and empty, or sees the  *)
(* signal; with an event in ch and the signal given it may do either.      *)

Receive ==
    /\ loop = "select"
    /\ ch # <<>>
    /\ loop' = "writing"
    /\ current' = <<Head(ch)>>
    /\ ch' = Tail(ch)
    /\ UNCHANGED <<closer, calls, panicked, history, brokerUp>>

ExitDrained ==
    /\ loop = "select"
    /\ ChClosed
    /\ ch = <<>>
    /\ loop' = "exited"
    /\ UNCHANGED <<ch, current, closer, calls, panicked, history, brokerUp>>

ExitSignalled ==
    /\ loop = "select"
    /\ Signalled
    /\ loop' = "exited"
    /\ UNCHANGED <<ch, current, closer, calls, panicked, history, brokerUp>>

(* WriteMessages runs under a context with p.cfg.Timeout: it returns nil   *)
(* only if Kafka can be reached and it may return an error at any time.    *)
WriteReturnsNil ==
    /\ loop = "writing"
    /\ brokerUp
    /\ written' = Append(written, current[1])
    /\ current' = <<>>
    /\ loop' = "select"
    /\ UNCHANGED <<ch, closer, calls, panicked, failed, dropped, brokerUp>>

(* Mutated form: loop() gives up when a write fails. *)
WriteErrorStopsLoop ==
    /\ loop = "writing"
    /\ failed' = failed \cup {current[1]}
    /\ current' = <<>>
    /\ loop' = "exited"
    /\ UNCHANGED <<ch, closer, calls, panicked, written, dropped, brokerUp>>

(* Mutated form: an event that could not be written is logged as such and  *)
(* goes back to the end of the channel.                                    *)
WriteErrorRequeues ==
    /\ loop = "writing"
    /\ ch' = ch \o current
    /\ failed' = failed \cup {current[1]}
    /\ current' = <<>>
    /\ loop' = "select"
    /\ UNCHANGED <<closer, calls, panicked, written, dropped, brokerUp>>

(* Mutated form: the context of the write has no deadline. *)
WriteErrorOnlyIfUp ==
    /\ loop = "writing"
    /\ brokerUp
    /\ failed' = failed \cup {current[1]}
    /\ current' = <<>>
    /\ loop' = "select"
    /\ UNCHANGED <<ch, closer, calls, panicked, written, dropped, brokerUp>>

WriteReturnsError ==
    /\ loop = "writing"
    /\ failed' = failed \cup {current[1]}
    /\ current' = <<>>
    /\ loop' = "select"
    /\ UNCHANGED <<ch, closer, calls, panicked, written, dropped, brokerUp>>

Loop ==
    \/ Receive
    \/ ExitDrained
    \/ ExitSignalled
    \/ WriteReturnsNil
    \/ WriteReturnsError

-----------------------------------------------------------------------------
(* Close: called once, when main returns; each statement is a step. *)

CloseAt(from, to) ==
    /\ closer = from
    /\ closer' = to
    /\ UNCHANGED <<ch, loop, current, calls, panicked, history, brokerUp>>

SignalLoop == CloseAt("open", "signalled")
CloseChannel == CloseAt("signalled", "joining")

(* Mutated form: Close does not wait for the loop. *)
JoinNobody == CloseAt("joining", "joined")

JoinLoop == loop = "exited" /\ CloseAt("joining", "joined")
CloseWriter == CloseAt("joined", "done")

(* The rest of Close once it has been entered. *)
Closing == CloseChannel \/ JoinLoop \/ CloseWriter

BrokerChanges ==
    /\ brokerUp' = ~brokerUp
    /\ UNCHANGED <<ch, loop, current, closer, calls, panicked, history>>

Next ==
    \/ \E h \in Handlers : Publish(h)
    \/ Loop
    \/ SignalLoop
    \/ Closing
    \/ BrokerChanges

Spec == Init /\ [][Next]_vars

(* The Go scheduler runs every goroutine that can run.  The fairness of    *)
(* the handlers inside Publish is part of the specification; a property    *)
(* that needs loop(), or Close() once main has called it, to be run as     *)
(* well says so.  Nothing makes main call Close and nothing makes Kafka    *)
(* come back.                                                              *)
FairSpec == Spec /\ \A h \in Handlers : WF_vars(Publish(h))

LoopRuns == WF_vars(Loop)
CloseRuns == WF_vars(Closing)

-----------------------------------------------------------------------------
(* Properties *)

(* Every variable holds a value of the Go type it stands for, the channel  *)
(* holds at most Capacity events, and loop() has an event exactly while it *)
(* is inside WriteMessages.                                                *)
TypeOK ==
    /\ ch \in Seq(Message)
    /\ Len(ch) <= Capacity
    /\ loop \in LoopState
    /\ current \in Seq(Message)
    /\ Len(current) = IF loop = "writing" THEN 1 ELSE 0
    /\ closer \in CloserState
    /\ calls \in [Handlers -> 0 .. MaxCalls]
    /\ panicked \subseteq Handlers
    /\ written \in Seq(Message)
    /\ failed \subseteq Message
    /\ dropped \subseteq Message
    /\ brokerUp \in BOOLEAN

(* The events of one handler reach Kafka in the order in which it          *)
(* published them and none of them twice, whatever was dropped, whatever   *)
(* write failed and however the handlers, loop() and Close() interleave.   *)
Precedes(a, b) == a.from = b.from => a.no < b.no

HandlerOrder ==
    \A i, j \in DOMAIN written : i < j => Precedes(written[i], written[j])

(* What makes HandlerOrder inductive: the events on their way to Kafka, in *)
(* the order written, current, ch, are in the order of their calls, and    *)
(* none of them comes from a call that has not been made.                  *)
Ordered(s) == \A i, j \in DOMAIN s : i < j => Precedes(s[i], s[j])

Follows(s, t) == \A i \in DOMAIN s, j \in DOMAIN t : Precedes(s[i], t[j])

Called(s) == \A i \in DOMAIN s : s[i].no <= calls[s[i].from]

HandoverInv ==
    /\ Ordered(written) /\ Ordered(ch)
    /\ Follows(written, current) /\ Follows(written, ch)
    /\ Follows(current, ch)
    /\ Called(written) /\ Called(current) /\ Called(ch)

(* Every event whose Publish returned is in exactly one place: waiting in  *)
(* ch, being written, written, failed or dropped.  No step of the hand-    *)
(* over loses one silently or leaves it in two places.                     *)
Returned ==
    {m \in Message : m.no <= calls[m.from]}
        \ {[from |-> h, no |-> calls[h]] : h \in panicked}

EveryEventAccounted ==
    /\ Range(ch) \cup Range(current) \cup Range(written)
           \cup failed \cup dropped = Returned
    /\ Range(ch) \cap (Range(current) \cup Range(written)
                           \cup failed \cup dropped) = {}
    /\ Range(current) \cap (Range(written) \cup failed \cup dropped) = {}
    /\ Range(written) \cap (failed \cup dropped) = {}
    /\ failed \cap dropped = {}

(* Close() closes the Kafka writer only when loop() is gone, so no write   *)
(* is in progress on a closed writer and none starts.                      *)
WriterClosedLast ==
    closer \in {"joined", "done"} => loop = "exited" /\ current = <<>>

(* Once main has entered Close(), Close() returns, even if Kafka never     *)
(* answers again and the handlers keep publishing.                         *)
CloseReturns ==
    LoopRuns /\ CloseRuns => (closer = "signalled") ~> (closer = "done")

(* Until main calls Close(), no accepted event stays in the channel for    *)
(* ever: a failed write does not end loop().                               *)
BacklogMoves ==
    LoopRuns => \A m \in Message :
        (m \in Range(ch)) ~> (m \notin Range(ch) \/ closer # "open")

(* A handler gets through its calls of Publish even if loop() never takes  *)
(* another step: logging cannot hold up a request.                         *)
HandlersFinish ==
    \A h \in Handlers : <>(calls[h] = MaxCalls \/ h \in panicked)

(* The publisher implements the best-effort log. *)
Log == INSTANCE LossyLog WITH
           issued <- calls,
           pending <- current \o ch,
           delivered <- written,
           stopped <- (closer = "done")

ImplementsLossyLog == Log!Spec

(* The comment on p.wg.Wait() in Close(), "wait until the loop has         *)
(* processed the remaining messages": when Close() has returned, nothing   *)
(* is left in the channel.  The code does not keep this.                   *)
CloseDrainsBacklog == closer = "done" => ch = <<>>

=============================================================================
