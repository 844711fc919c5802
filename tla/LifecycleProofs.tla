--------------------------- MODULE LifecycleProofs ---------------------------
(***************************************************************************)
(* Theorems about the life of the process, for any number of handlers, any *)
(* size of the channel and any lists of patterns.                          *)
(***************************************************************************)
EXTENDS Lifecycle, TLAPS, SequenceTheorems

Complete == <<"tracer", "repo", "log">>
Prefixes == {<<>>, <<"tracer">>, <<"tracer", "repo">>, Complete}

(* What main has to close is what it has acquired at each point, and while *)
(* it returns some first part of that.                                     *)
OpenInv ==
    /\ main \in Starting \cup {"serving", "shutdown", "closing", "exited"}
    /\ main \in {"config", "tracer"} => open = <<>>
    /\ main \in {"table", "repo"} => open = <<"tracer">>
    /\ main = "publisher" => open = <<"tracer", "repo">>
    /\ main \in {"registering", "serving", "shutdown"} => open = Complete
    /\ main = "closing" => open \in Prefixes
    /\ main = "exited" /\ cause # "fatal" => open = <<>>

(* The loop of a publisher that is not there, or is closed, writes nothing *)
(* and nothing will make it write.                                         *)
Quiet ==
    \/ loop = "exited"
    \/ loop = "select" /\ ch = <<>> /\ (kafka => busy = {})

LogInv ==
    /\ ~kafka => loop = "select" /\ ch = <<>> /\ closer = "open"
    /\ open # Complete => Quiet
    /\ closer \in {"joined", "done"} => loop = "exited"

IInv == ShutdownInv /\ DrainedIsSafe /\ OpenInv /\ LogInv

-----------------------------------------------------------------------------
(* Sequences of the resources. *)

LEMMA AppendToOne ==
    ASSUME NEW S, NEW x \in S, NEW y \in S
    PROVE  Append(<<x>>, y) = <<x, y>>
<1>1. <<x>> \in Seq(S) /\ <<x, y>> \in Seq(S) /\ Len(<<x, y>>) = 2
    OBVIOUS
<1>2. Append(<<x>>, y) \in Seq(S) /\ Len(Append(<<x>>, y)) = 2
    BY <1>1, AppendProperties
<1>3. \A i \in 1 .. 2 : Append(<<x>>, y)[i] = <<x, y>>[i]
    BY <1>1, AppendProperties
<1>4. QED
    BY <1>1, <1>2, <1>3, SeqEqual

LEMMA AppendToTwo ==
    ASSUME NEW S, NEW x \in S, NEW y \in S, NEW z \in S
    PROVE  Append(<<x, y>>, z) = <<x, y, z>>
<1>1. <<x, y>> \in Seq(S) /\ <<x, y, z>> \in Seq(S) /\ Len(<<x, y, z>>) = 3
    OBVIOUS
<1>2. Append(<<x, y>>, z) \in Seq(S) /\ Len(Append(<<x, y>>, z)) = 3
    BY <1>1, AppendProperties
<1>3. \A i \in 1 .. 3 : Append(<<x, y>>, z)[i] = <<x, y, z>>[i]
    BY <1>1, AppendProperties
<1>4. QED
    BY <1>1, <1>2, <1>3, SeqEqual

LEMMA FrontOfTwo ==
    ASSUME NEW S, NEW x \in S, NEW y \in S
    PROVE  SubSeq(<<x, y>>, 1, 1) = <<x>>
<1>1. <<x>> \in Seq(S) /\ <<x, y>> \in Seq(S)
    OBVIOUS
<1>2. SubSeq(<<x, y>>, 1, 1) \in Seq(S) /\ Len(SubSeq(<<x, y>>, 1, 1)) = 1
    BY <1>1, SubSeqProperties
<1>3. \A i \in 1 .. 1 : SubSeq(<<x, y>>, 1, 1)[i] = <<x>>[i]
    BY <1>1, SubSeqProperties
<1>4. QED
    BY <1>1, <1>2, <1>3, SeqEqual

LEMMA FrontOfThree ==
    ASSUME NEW S, NEW x \in S, NEW y \in S, NEW z \in S
    PROVE  SubSeq(<<x, y, z>>, 1, 2) = <<x, y>>
<1>1. <<x, y>> \in Seq(S) /\ <<x, y, z>> \in Seq(S) /\ Len(<<x, y>>) = 2
    OBVIOUS
<1>2. SubSeq(<<x, y, z>>, 1, 2) \in Seq(S) /\ Len(SubSeq(<<x, y, z>>, 1, 2)) = 2
    BY <1>1, SubSeqProperties
<1>3. \A i \in 1 .. 2 : SubSeq(<<x, y, z>>, 1, 2)[i] = <<x, y>>[i]
    BY <1>1, SubSeqProperties
<1>4. QED
    BY <1>1, <1>2, <1>3, SeqEqual

LEMMA Acquire ==
    /\ Append(<<>>, "tracer") = <<"tracer">>
    /\ Append(<<"tracer">>, "repo") = <<"tracer", "repo">>
    /\ Append(<<"tracer", "repo">>, "log") = Complete
<1> DEFINE S == {"tracer", "repo", "log"}
<1>1. "tracer" \in S /\ "repo" \in S /\ "log" \in S
    OBVIOUS
<1>2. Append(<<>>, "tracer") = <<"tracer">>
    OBVIOUS
<1> HIDE DEF S
<1>3. QED
    BY <1>1, <1>2, AppendToOne, AppendToTwo DEF Complete

LEMMA ReleaseLast ==
    ASSUME NEW s \in Prefixes, s # <<>>
    PROVE  /\ SubSeq(s, 1, Len(s) - 1) \in Prefixes
           /\ s[Len(s)] = "log" <=> s = Complete
           /\ SubSeq(s, 1, Len(s) - 1) # Complete
<1> DEFINE S == {"tracer", "repo", "log"}
<1>1. "tracer" \in S /\ "repo" \in S /\ "log" \in S
    OBVIOUS
<1> HIDE DEF S
<1>2. CASE s = <<"tracer">>
    <2>1. Len(s) = 1 /\ s[1] = "tracer" /\ SubSeq(s, 1, 0) = <<>>
        BY <1>2, SubSeqEmpty
    <2>2. QED
        BY <1>2, <2>1 DEF Prefixes, Complete
<1>3. CASE s = <<"tracer", "repo">>
    <2>1. Len(s) = 2 /\ s[2] = "repo"
        BY <1>3
    <2>2. SubSeq(s, 1, 1) = <<"tracer">>
        BY <1>1, <1>3, FrontOfTwo
    <2>3. QED
        BY <1>3, <2>1, <2>2 DEF Prefixes, Complete
<1>4. CASE s = Complete
    <2>1. Len(s) = 3 /\ s[3] = "log"
        BY <1>4 DEF Complete
    <2>2. SubSeq(s, 1, 2) = <<"tracer", "repo">>
        BY <1>1, <1>4, FrontOfThree DEF Complete
    <2>3. QED
        BY <1>4, <2>1, <2>2 DEF Prefixes, Complete
<1>5. QED
    BY <1>2, <1>3, <1>4 DEF Prefixes

LEMMA CompleteHasAll ==
    /\ Complete # <<>>
    /\ Complete # <<"tracer">>
    /\ Complete # <<"tracer", "repo">>
    /\ \E i \in DOMAIN Complete : Complete[i] = "repo"
<1>1. 2 \in DOMAIN Complete /\ Complete[2] = "repo"
    BY DEF Complete
<1>2. QED
    BY <1>1 DEF Complete

-----------------------------------------------------------------------------
LEMMA InitInv == Init => IInv
    BY DEF Init, Pub!Init, IInv, ShutdownInv, DrainedIsSafe, OpenInv, LogInv,
           Quiet, Starting

LEMMA StartInv ==
    ASSUME IInv, LoadConfig \/ InitTracer \/ NewTable \/ BuildRepo \/ NewPublisher
    PROVE  IInv'
<1> USE DEF IInv, ShutdownInv, DrainedIsSafe, OpenInv, LogInv, Quiet, Begin,
            Starting, log, config
<1>1. CASE LoadConfig
    BY <1>1, Acquire, CompleteHasAll DEF LoadConfig
<1>2. CASE InitTracer
    BY <1>2, Acquire, CompleteHasAll DEF InitTracer
<1>3. CASE NewTable
    BY <1>3, Acquire, CompleteHasAll DEF NewTable
<1>4. CASE BuildRepo
    BY <1>4, Acquire, CompleteHasAll DEF BuildRepo
<1>5. CASE NewPublisher
    BY <1>5, Acquire, CompleteHasAll DEF NewPublisher
<1>6. QED
    BY <1>1, <1>2, <1>3, <1>4, <1>5

(* Steps of main that acquire and close nothing. *)
LEMMA MainInv ==
    ASSUME IInv,
           \/ StartFails \/ Panics \/ Register \/ Listen \/ ListenFails
           \/ SignalArrives \/ ShutdownDrained \/ ShutdownTimesOut \/ Exit
    PROVE  IInv'
<1> USE DEF IInv, ShutdownInv, DrainedIsSafe, OpenInv, LogInv, Quiet, Starting,
            log, config
<1>1. CASE StartFails \/ ListenFails
    BY <1>1 DEF StartFails, ListenFails
<1>2. CASE Panics
    BY <1>2 DEF Panics, Prefixes
<1>3. CASE Register \/ Listen
    BY <1>3 DEF Register, Listen
<1>4. CASE SignalArrives
    BY <1>4 DEF SignalArrives
<1>5. CASE ShutdownDrained \/ ShutdownTimesOut
    BY <1>5 DEF ShutdownDrained, ShutdownTimesOut, Prefixes
<1>6. CASE Exit
    BY <1>6 DEF Exit
<1>7. QED
    BY <1>1, <1>2, <1>3, <1>4, <1>5, <1>6

(* The deferred calls: the one of the log is over only when the loop is.   *)
LEMMA ReleaseInv ==
    ASSUME IInv, LogClosed \/ CloseRepo \/ ShutdownTracer
    PROVE  IInv'
<1>1. PICK resource : Release(resource) /\ (resource = "log" => LogClosed)
    BY DEF LogClosed, CloseRepo, ShutdownTracer
<1>2. /\ main = "closing" /\ open \in Prefixes /\ open # <<>>
      /\ open[Len(open)] = resource
      /\ open' = SubSeq(open, 1, Len(open) - 1)
      /\ UNCHANGED <<main, kafka, busy, timedOut, cause, orphaned, ch, loop,
                     closer, panicked>>
    BY <1>1 DEF Release, IInv, OpenInv, config, log
<1>3. open' \in Prefixes
    BY <1>2, ReleaseLast
<1>4. open = Complete => resource = "log"
    BY <1>2, ReleaseLast
<1>5. Quiet
    <2>1. CASE open # Complete
        BY <2>1 DEF IInv, LogInv
    <2>2. CASE open = Complete /\ kafka
        BY <2>2, <1>1, <1>4 DEF LogClosed, IInv, LogInv, Quiet
    <2>3. CASE ~kafka
        BY <2>3 DEF IInv, LogInv, Quiet
    <2>4. QED
        BY <2>1, <2>2, <2>3
<1>6. Quiet'
    BY <1>2, <1>5 DEF Quiet
<1>7. QED
    BY <1>2, <1>3, <1>6 DEF IInv, ShutdownInv, DrainedIsSafe, OpenInv, LogInv,
        Starting

(* Only Publish of a handler with a request may panic, and only when       *)
(* pub.Close() has closed the channel; a query fails only behind           *)
(* repo.Close().                                                           *)
LEMMA HandlerInv ==
    ASSUME IInv, NEW h \in Handlers,
           Accept(h) \/ HandlerPublish(h) \/ QueryFails(h) \/ Finish(h)
    PROVE  IInv'
<1>1. CASE Accept(h)
    <2>1. open = Complete
        BY <1>1 DEF Accept, IInv, OpenInv
    <2>2. QED
        BY <1>1, <2>1 DEF Accept, IInv, ShutdownInv, DrainedIsSafe, OpenInv,
            LogInv, Quiet, Starting, log, config
<1>2. CASE Finish(h)
    BY <1>2 DEF Finish, IInv, ShutdownInv, DrainedIsSafe, OpenInv, LogInv,
        Quiet, Starting, log, config
<1>3. CASE HandlerPublish(h)
    <2>1. /\ main # "exited" /\ h \in busy /\ kafka
          /\ busy' = busy \ panicked'
          /\ UNCHANGED <<main, open, kafka, timedOut, cause, orphaned>>
          /\ UNCHANGED <<loop, closer>>
        BY <1>3 DEF HandlerPublish, Pub!Publish, Pub!Enqueue, Pub!Drop,
               Pub!SendOnClosed, Pub!Call, config
    <2>2. panicked' = panicked \/ closer # "open"
        BY <1>3 DEF HandlerPublish, Pub!Publish, Pub!Enqueue, Pub!Drop,
               Pub!SendOnClosed, Pub!ChClosed
    <2>3. ShutdownInv' /\ OpenInv'
        BY <2>1 DEF IInv, ShutdownInv, OpenInv, Starting
    <2>4. DrainedIsSafe'
        BY <2>1, <2>2 DEF IInv, ShutdownInv, DrainedIsSafe
    <2>5. LogInv'
        BY <2>1 DEF IInv, LogInv, Quiet
    <2>6. QED
        BY <2>3, <2>4, <2>5 DEF IInv
<1>4. CASE QueryFails(h)
    <2>1. /\ main # "exited" /\ h \in busy
          /\ UNCHANGED <<main, open, kafka, busy, timedOut, cause, ch, loop,
                         closer, panicked>>
        BY <1>4 DEF QueryFails, config, log
    <2>2. open # Complete
        BY <1>4, CompleteHasAll DEF QueryFails
    <2>3. main = "closing"
        BY <2>1, <2>2 DEF IInv, ShutdownInv, OpenInv, Starting
    <2>4. timedOut
        BY <2>1, <2>3 DEF IInv, ShutdownInv
    <2>5. QED
        BY <2>1, <2>4 DEF IInv, ShutdownInv, DrainedIsSafe, OpenInv, LogInv,
            Quiet, Starting
<1>5. QED
    BY <1>1, <1>2, <1>3, <1>4

LEMMA PublisherInv ==
    ASSUME IInv, CloseLog \/ RunLoop \/ BrokerChanges
    PROVE  IInv'
<1>1. CASE CloseLog
    <2>1. /\ main = "closing" /\ kafka /\ open # <<>>
          /\ open[Len(open)] = "log"
          /\ UNCHANGED <<main, open, kafka, busy, timedOut, cause, orphaned,
                         panicked, loop, ch>>
        BY <1>1 DEF CloseLog, Pub!SignalLoop, Pub!Closing, Pub!CloseChannel,
               Pub!JoinLoop, Pub!CloseWriter, Pub!CloseAt, config
    <2>2. open = Complete
        BY <2>1, ReleaseLast DEF IInv, OpenInv
    <2>3. closer' \in {"joined", "done"} => loop = "exited"
        BY <1>1 DEF CloseLog, Pub!SignalLoop, Pub!Closing, Pub!CloseChannel,
               Pub!JoinLoop, Pub!CloseWriter, Pub!CloseAt, IInv, LogInv
    <2>4. QED
        BY <2>1, <2>2, <2>3 DEF IInv, ShutdownInv, DrainedIsSafe, OpenInv,
            LogInv, Quiet, Starting
<1>2. CASE RunLoop
    <2>1. /\ main # "exited"
          /\ UNCHANGED <<main, open, kafka, busy, timedOut, cause, orphaned,
                         panicked, closer>>
        BY <1>2 DEF RunLoop, config, Pub!Loop, Pub!Receive, Pub!ExitDrained,
               Pub!ExitSignalled, Pub!WriteReturnsNil, Pub!WriteReturnsError
    <2>2. loop # "exited"
        BY <1>2 DEF RunLoop, Pub!Loop, Pub!Receive, Pub!ExitDrained,
               Pub!ExitSignalled, Pub!WriteReturnsNil, Pub!WriteReturnsError
    <2>3. loop = "select" /\ ch = <<>> =>
              loop' = "exited" /\ closer # "open"
        BY <1>2 DEF RunLoop, Pub!Loop, Pub!Receive, Pub!ExitDrained,
               Pub!ExitSignalled, Pub!WriteReturnsNil, Pub!WriteReturnsError,
               Pub!Signalled, Pub!ChClosed
    <2>4. LogInv'
        BY <2>1, <2>2, <2>3 DEF IInv, LogInv, Quiet
    <2>5. QED
        BY <2>1, <2>4 DEF IInv, ShutdownInv, DrainedIsSafe, OpenInv, Starting
<1>3. CASE BrokerChanges
    BY <1>3 DEF BrokerChanges, Pub!BrokerChanges, Pub!history, config, IInv,
        ShutdownInv, DrainedIsSafe, OpenInv, LogInv, Quiet, Starting
<1>4. QED
    BY <1>1, <1>2, <1>3

LEMMA NextInv == IInv /\ [Next]_vars => IInv'
<1> SUFFICES ASSUME IInv, [Next]_vars
             PROVE  IInv'
    OBVIOUS
<1>1. CASE Next
    BY <1>1, StartInv, MainInv, ReleaseInv, HandlerInv, PublisherInv
       DEF Next, Main
<1>2. CASE UNCHANGED vars
    BY <1>2 DEF vars, log, config, IInv, ShutdownInv, DrainedIsSafe, OpenInv,
        LogInv, Quiet, Starting
<1>3. QED
    BY <1>1, <1>2

(* However main, the handlers, the loop and Kafka interleave: the channel  *)
(* and the database are closed under a handler only after Shutdown has run *)
(* out of time.                                                            *)
THEOREM DrainedIsSafeCorrect == Spec => []DrainedIsSafe
<1>1. IInv => DrainedIsSafe
    BY DEF IInv
<1>2. QED
    BY <1>1, InitInv, NextInv, PTL DEF Spec

(* main closes what it has acquired, wherever it stopped, and the loop of  *)
(* the publisher is not in a write when the process ends, unless by        *)
(* log.Fatal.                                                              *)
THEOREM OrderlyExitCorrect == Spec => []OrderlyExit
<1>1. IInv => OrderlyExit
    BY CompleteHasAll DEF IInv, OpenInv, LogInv, Quiet, OrderlyExit
<1>2. QED
    BY <1>1, InitInv, NextInv, PTL DEF Spec

(* What relates the points of main, the closing of the publisher and the   *)
(* handlers with a request.                                                *)
THEOREM ShutdownInvCorrect == Spec => []ShutdownInv
<1>1. IInv => ShutdownInv
    BY DEF IInv
<1>2. QED
    BY <1>1, InitInv, NextInv, PTL DEF Spec

(* A handler, main and the broker use the publisher as it is meant to be   *)
(* used, so whatever is proved of Publisher holds in the process.          *)
THEOREM ImplementsPublisher == Spec => Pub!Spec
<1>1. Init => Pub!Init
    BY DEF Init
<1>2. [Next]_vars => [Pub!Next]_(Pub!vars)
    <2>1. CASE \E h \in Handlers : HandlerPublish(h)
        BY <2>1 DEF HandlerPublish, Pub!Next
    <2>2. CASE CloseLog \/ RunLoop \/ BrokerChanges
        BY <2>2 DEF CloseLog, RunLoop, BrokerChanges, Pub!Next
    <2>3. CASE \/ LoadConfig \/ InitTracer \/ NewTable \/ BuildRepo
               \/ NewPublisher \/ StartFails \/ Panics \/ Register \/ Listen
               \/ ListenFails \/ SignalArrives \/ ShutdownDrained
               \/ ShutdownTimesOut \/ Exit
        BY <2>3 DEF LoadConfig, InitTracer, NewTable, BuildRepo, NewPublisher,
               Begin, StartFails, Panics, Register, Listen, ListenFails,
               SignalArrives, ShutdownDrained, ShutdownTimesOut, Exit, log,
               Pub!vars
    <2>4. CASE \/ LogClosed \/ CloseRepo \/ ShutdownTracer
               \/ \E h \in Handlers : Accept(h) \/ QueryFails(h) \/ Finish(h)
        BY <2>4 DEF LogClosed, CloseRepo, ShutdownTracer, Release, Accept,
               QueryFails, Finish, log, Pub!vars
    <2>5. CASE UNCHANGED vars
        BY <2>5 DEF vars, log, Pub!vars
    <2>6. QED
        BY <2>1, <2>2, <2>3, <2>4, <2>5 DEF Next, Main
<1>3. QED
    BY <1>1, <1>2, PTL DEF Spec, Pub!Spec


-----------------------------------------------------------------------------
(* What is proved of Publisher, carried over to the process.  Published is *)
(* the publisher of the process once more, with its theorems; Pub and      *)
(* Published are the same definitions under two names.                     *)

Published == INSTANCE PublisherProofs

LEMMA SamePublisher == Pub!Spec => Published!Spec
<1>1. Pub!Init => Published!Init
    BY DEF Pub!Init, Published!Init
<1>2. [Pub!Next]_(Pub!vars) => [Published!Next]_(Published!vars)
    <2>1. ASSUME NEW h \in Handlers, Pub!Publish(h)
          PROVE  Published!Publish(h)
        BY <2>1 DEF Pub!Publish, Pub!Enqueue, Pub!Drop, Pub!SendOnClosed,
           Pub!Call, Pub!Event, Pub!ChClosed,
           Published!Publish, Published!Enqueue, Published!Drop,
           Published!SendOnClosed, Published!Call, Published!Event,
           Published!ChClosed
    <2>2. Pub!Loop => Published!Loop
        BY DEF Pub!Loop, Pub!Receive, Pub!ExitDrained, Pub!ExitSignalled,
           Pub!WriteReturnsNil, Pub!WriteReturnsError, Pub!Signalled,
           Pub!ChClosed, Pub!history,
           Published!Loop, Published!Receive, Published!ExitDrained,
           Published!ExitSignalled, Published!WriteReturnsNil,
           Published!WriteReturnsError, Published!Signalled,
           Published!ChClosed, Published!history
    <2>3. Pub!SignalLoop \/ Pub!Closing
              => Published!SignalLoop \/ Published!Closing
        BY DEF Pub!SignalLoop, Pub!Closing, Pub!CloseChannel, Pub!JoinLoop,
           Pub!CloseWriter, Pub!CloseAt, Pub!history,
           Published!SignalLoop, Published!Closing, Published!CloseChannel,
           Published!JoinLoop, Published!CloseWriter, Published!CloseAt,
           Published!history
    <2>4. Pub!BrokerChanges => Published!BrokerChanges
        BY DEF Pub!BrokerChanges, Pub!history, Published!BrokerChanges,
           Published!history
    <2>5. UNCHANGED Pub!vars => UNCHANGED Published!vars
        BY DEF Pub!vars, Published!vars
    <2>6. QED
        BY <2>1, <2>2, <2>3, <2>4, <2>5 DEF Pub!Next, Published!Next
<1>3. QED
    BY <1>1, <1>2, PTL DEF Pub!Spec, Published!Spec

(* The whole process, from its start to its exit, is a best-effort log to  *)
(* its handlers: whatever main, Shutdown, the deferred calls and Kafka do, *)
(* no event is delivered twice, out of order or after Close.               *)
THEOREM ProcessImplementsLossyLog == Spec => Pub!ImplementsLossyLog
<1>1. Published!Spec => Published!ImplementsLossyLog
    BY LifecycleAssumption, Published!PublisherImplementsLossyLog
<1>2. Published!ImplementsLossyLog => Pub!ImplementsLossyLog
    <2>1. Published!Log!Init => Pub!Log!Init
        BY DEF Published!Log!Init, Pub!Log!Init
    <2>2. [Published!Log!Next]_(Published!Log!vars)
              => [Pub!Log!Next]_(Pub!Log!vars)
        BY DEF Published!Log!Next, Published!Log!Offer, Published!Log!Deliver,
           Published!Log!Lose, Published!Log!Stop, Published!Log!vars,
           Pub!Log!Next, Pub!Log!Offer, Pub!Log!Deliver, Pub!Log!Lose,
           Pub!Log!Stop, Pub!Log!vars
    <2>3. QED
        BY <2>1, <2>2, PTL DEF Published!ImplementsLossyLog,
           Pub!ImplementsLossyLog, Published!Log!Spec, Pub!Log!Spec
<1>3. QED
    BY <1>1, <1>2, SamePublisher, ImplementsPublisher, PTL

(* In the process, too, the events of one handler reach Kafka in order,    *)
(* every event is in exactly one place, and the writer is closed last.     *)
THEOREM ProcessKeepsEvents ==
    Spec => [](Pub!HandlerOrder /\ Pub!EveryEventAccounted
               /\ Pub!WriterClosedLast)
<1>1. Published!HandlerOrder => Pub!HandlerOrder
    BY DEF Published!HandlerOrder, Published!Precedes, Pub!HandlerOrder,
       Pub!Precedes
<1>2. Published!EveryEventAccounted => Pub!EveryEventAccounted
    BY DEF Published!EveryEventAccounted, Published!Returned,
       Published!Message, Published!Range, Pub!EveryEventAccounted,
       Pub!Returned, Pub!Message, Pub!Range
<1>3. Published!WriterClosedLast => Pub!WriterClosedLast
    BY DEF Published!WriterClosedLast, Pub!WriterClosedLast
<1>4. Published!Spec => []Published!HandlerOrder
    BY LifecycleAssumption, Published!HandlerOrderCorrect
<1>5. Published!Spec => []Published!EveryEventAccounted
    BY LifecycleAssumption, Published!EveryEventAccountedCorrect
<1>6. Published!Spec => []Published!WriterClosedLast
    BY LifecycleAssumption, Published!WriterClosedLastCorrect
<1>7. QED
    BY <1>1, <1>2, <1>3, <1>4, <1>5, <1>6, SamePublisher, ImplementsPublisher,
       PTL

=============================================================================
