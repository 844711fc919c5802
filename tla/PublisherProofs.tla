--------------------------- MODULE PublisherProofs ---------------------------
(***************************************************************************)
(* Theorems about the log publisher, for every set of handlers, every      *)
(* capacity of the channel and every number of calls.                      *)
(***************************************************************************)
EXTENDS Publisher, SequenceTheorems, TLAPS

(* What a call of Publish does to the counters, and what event it makes.   *)
LEMMA CallFacts ==
    ASSUME TypeOK, NEW h \in Handlers, Call(h)
    PROVE  /\ calls[h] \in Nat
           /\ calls' \in [Handlers -> 0 .. MaxCalls]
           /\ calls'[h] = calls[h] + 1
           /\ \A g \in Handlers \ {h} : calls'[g] = calls[g]
           /\ Event(h) \in Message
           /\ Event(h).from = h
           /\ Event(h).no = calls[h] + 1
<1>1. /\ calls[h] \in Nat
      /\ calls[h] + 1 \in 1 .. MaxCalls
      /\ calls' \in [Handlers -> 0 .. MaxCalls]
      /\ calls'[h] = calls[h] + 1
      /\ \A g \in Handlers \ {h} : calls'[g] = calls[g]
    BY PublisherAssumption DEF TypeOK, Call
<1>2. QED
    BY <1>1 DEF Event, Message

(* What appending one element does to a sequence. *)
LEMMA AppendFacts ==
    ASSUME NEW S, NEW s \in Seq(S), NEW e \in S
    PROVE  /\ Append(s, e) \in Seq(S)
           /\ Len(Append(s, e)) = Len(s) + 1
           /\ DOMAIN Append(s, e) = 1 .. Len(s) + 1
           /\ \A i \in 1 .. Len(s) : Append(s, e)[i] = s[i]
           /\ Append(s, e)[Len(s) + 1] = e
    BY AppendProperties

(* TypeOK is an inductive invariant by itself. *)
THEOREM TypeCorrect == Spec => []TypeOK
<1>1. Init => TypeOK
    BY PublisherAssumption DEF Init, TypeOK, LoopState, CloserState
<1>2. TypeOK /\ [Next]_vars => TypeOK'
    <2> SUFFICES ASSUME TypeOK, [Next]_vars
                 PROVE  TypeOK'
        OBVIOUS
    <2>1. ASSUME NEW h \in Handlers, Publish(h)
          PROVE  TypeOK'
        <3>1. Call(h)
            BY <2>1 DEF Publish, Enqueue, Drop, SendOnClosed
        <3>2. /\ calls' \in [Handlers -> 0 .. MaxCalls]
              /\ Event(h) \in Message
            BY <3>1, CallFacts
        <3>3. UNCHANGED <<loop, current, closer, written, failed, brokerUp>>
            BY <3>1 DEF Call
        <3>4. CASE Enqueue(h)
            <4>1. ch' \in Seq(Message) /\ Len(ch') <= Capacity
                BY <3>2, <3>4, AppendFacts, PublisherAssumption DEF Enqueue, TypeOK
            <4>2. QED
                BY <3>2, <3>3, <3>4, <4>1 DEF Enqueue, TypeOK
        <3>5. CASE Drop(h)
            BY <3>2, <3>3, <3>5 DEF Drop, TypeOK
        <3>6. CASE SendOnClosed(h)
            BY <3>2, <3>3, <3>6 DEF SendOnClosed, TypeOK
        <3>7. QED
            BY <2>1, <3>4, <3>5, <3>6 DEF Publish
    <2>2. CASE Receive
        <3>1. /\ Head(ch) \in Message
              /\ Tail(ch) \in Seq(Message)
              /\ Len(Tail(ch)) = Len(ch) - 1
            BY <2>2, HeadTailProperties DEF Receive, TypeOK
        <3>2. /\ ch' \in Seq(Message) /\ Len(ch') <= Capacity
              /\ current' \in Seq(Message) /\ Len(current') = 1
            BY <2>2, <3>1, PublisherAssumption DEF Receive, TypeOK
        <3>3. QED
            BY <2>2, <3>2 DEF Receive, history, TypeOK, LoopState
    <2>3. CASE ExitDrained
        BY <2>3 DEF ExitDrained, history, TypeOK, LoopState
    <2>4. CASE ExitSignalled
        BY <2>4 DEF ExitSignalled, history, TypeOK, LoopState
    <2>5. CASE WriteReturnsNil \/ WriteReturnsError
        <3>1. current[1] \in Message
            BY <2>5 DEF WriteReturnsNil, WriteReturnsError, TypeOK
        <3>2. Append(written, current[1]) \in Seq(Message)
            BY <3>1, AppendFacts DEF TypeOK
        <3>3. CASE WriteReturnsNil
            BY <3>2, <3>3 DEF WriteReturnsNil, TypeOK, LoopState
        <3>4. CASE WriteReturnsError
            BY <3>1, <3>4 DEF WriteReturnsError, TypeOK, LoopState
        <3>5. QED
            BY <2>5, <3>3, <3>4
    <2>6. CASE SignalLoop \/ Closing
        BY <2>6 DEF SignalLoop, Closing, CloseChannel, JoinLoop, CloseWriter,
                    CloseAt, history, TypeOK, CloserState
    <2>7. CASE BrokerChanges
        BY <2>7 DEF BrokerChanges, history, TypeOK
    <2>8. CASE UNCHANGED vars
        BY <2>8 DEF vars, TypeOK
    <2>9. QED
        BY <2>1, <2>2, <2>3, <2>4, <2>5, <2>6, <2>7, <2>8 DEF Next, Loop
<1>3. QED
    BY <1>1, <1>2, PTL DEF Spec

-----------------------------------------------------------------------------
(* The Kafka writer is closed after loop() has gone: loop() never leaves   *)
(* "exited", and Close() passes the join only there.                       *)
THEOREM WriterClosedLastCorrect == Spec => []WriterClosedLast
<1>1. Init => WriterClosedLast
    BY DEF Init, WriterClosedLast
<1>2. TypeOK /\ WriterClosedLast /\ [Next]_vars => WriterClosedLast'
    <2> SUFFICES ASSUME TypeOK, WriterClosedLast, [Next]_vars
                 PROVE  WriterClosedLast'
        OBVIOUS
    <2>1. CASE \E h \in Handlers : Publish(h)
        BY <2>1 DEF Publish, Enqueue, Drop, SendOnClosed, Call, WriterClosedLast
    <2>2. CASE Loop
        BY <2>2 DEF Loop, Receive, ExitDrained, ExitSignalled, WriteReturnsNil,
                    WriteReturnsError, WriterClosedLast
    <2>3. CASE SignalLoop \/ CloseChannel \/ CloseWriter
        BY <2>3 DEF SignalLoop, CloseChannel, CloseWriter, CloseAt,
                    WriterClosedLast
    <2>4. CASE JoinLoop
        <3>1. current = <<>>
            BY <2>4, EmptySeq DEF JoinLoop, TypeOK
        <3>2. QED
            BY <2>4, <3>1 DEF JoinLoop, CloseAt, WriterClosedLast
    <2>5. CASE BrokerChanges \/ UNCHANGED vars
        BY <2>5 DEF BrokerChanges, vars, WriterClosedLast
    <2>6. QED
        BY <2>1, <2>2, <2>3, <2>4, <2>5 DEF Next, Closing
<1>3. QED
    BY <1>1, <1>2, TypeCorrect, PTL DEF Spec

-----------------------------------------------------------------------------
(* HandoverInv is preserved because a new event comes after everything its *)
(* caller published before, and because loop() moves events along from ch  *)
(* through current to written without changing their order.                *)

LEMMA MessageFields ==
    \A m \in Message : m.from \in Handlers /\ m.no \in Nat
    BY DEF Message

(* If no event of s comes from a later call than those made so far, they   *)
(* all precede the event of the next call.                                 *)
LEMMA NewEventIsLast ==
    ASSUME TypeOK, NEW h \in Handlers, Call(h),
           NEW s \in Seq(Message), Called(s)
    PROVE  /\ \A i \in DOMAIN s : Precedes(s[i], Event(h))
           /\ \A i \in DOMAIN s : s[i].no <= calls'[s[i].from]
<1> SUFFICES ASSUME NEW i \in DOMAIN s
             PROVE  Precedes(s[i], Event(h)) /\ s[i].no <= calls'[s[i].from]
    OBVIOUS
<1>1. s[i] \in Message /\ s[i].no <= calls[s[i].from]
    BY DEF Called
<1>2. s[i].from \in Handlers /\ s[i].no \in Nat
    BY <1>1, MessageFields
<1>3. calls[s[i].from] \in Nat /\ calls'[s[i].from] \in Nat
    BY <1>2, CallFacts DEF TypeOK
<1>4. QED
    BY <1>1, <1>2, <1>3, CallFacts DEF Precedes

(* Appending to an ordered sequence an event that all others precede.      *)
LEMMA OrderedAppend ==
    ASSUME NEW s \in Seq(Message), Ordered(s), NEW e \in Message,
           \A i \in DOMAIN s : Precedes(s[i], e)
    PROVE  Ordered(Append(s, e))
<1> DEFINE t == Append(s, e)
<1> SUFFICES ASSUME NEW i \in DOMAIN t, NEW j \in DOMAIN t, i < j
             PROVE  Precedes(t[i], t[j])
    BY DEF Ordered
<1>1. /\ i \in 1 .. Len(s) /\ t[i] = s[i]
      /\ j \in 1 .. Len(s) + 1
      /\ DOMAIN s = 1 .. Len(s) /\ Len(s) \in Nat
    BY AppendFacts
<1>2. CASE j \in 1 .. Len(s)
    BY <1>1, <1>2, AppendFacts DEF Ordered
<1>3. CASE j = Len(s) + 1
    BY <1>1, <1>3, AppendFacts
<1>4. QED
    BY <1>1, <1>2, <1>3

(* Taking the head off a sequence. *)
LEMMA TailFacts ==
    ASSUME NEW S, NEW s \in Seq(S), s # <<>>
    PROVE  /\ Head(s) = s[1] /\ Head(s) \in S
           /\ Tail(s) \in Seq(S)
           /\ 1 \in DOMAIN s
           /\ \A i \in DOMAIN Tail(s) : i + 1 \in DOMAIN s /\ i \in Nat \ {0} /\ Tail(s)[i] = s[i + 1]
    BY EmptySeq, HeadTailProperties, LenProperties

LEMMA EmptyHandover ==
    ASSUME NEW s
    PROVE  Follows(s, <<>>) /\ Follows(<<>>, s) /\ Ordered(<<>>) /\ Called(<<>>)
    BY DEF Follows, Ordered, Called

LEMMA EnqueueKeepsHandover ==
    ASSUME TypeOK, HandoverInv, NEW h \in Handlers, Enqueue(h)
    PROVE  HandoverInv'
<1> DEFINE e == Event(h)
<1>1. /\ Call(h)
      /\ ch' = Append(ch, e) /\ written' = written /\ current' = current
    BY DEF Enqueue, Call
<1>2. /\ e \in Message /\ e.from = h /\ e.no = calls'[h]
      /\ e.no \in Nat
    BY <1>1, CallFacts
<1>3. /\ ch \in Seq(Message) /\ written \in Seq(Message)
      /\ current \in Seq(Message)
      /\ Len(ch) \in Nat /\ DOMAIN ch = 1 .. Len(ch)
    BY LenProperties DEF TypeOK
<1>4. /\ DOMAIN ch' = 1 .. Len(ch) + 1
      /\ \A i \in 1 .. Len(ch) : ch'[i] = ch[i]
      /\ ch'[Len(ch) + 1] = e
    BY <1>1, <1>2, <1>3, AppendFacts
<1>5. \A j \in DOMAIN ch' : \/ j \in DOMAIN ch /\ ch'[j] = ch[j]
                            \/ ch'[j] = e
    BY <1>3, <1>4
<1>6. Ordered(written') /\ Follows(written', current')
    BY <1>1 DEF HandoverInv
<1>7. Ordered(ch')
    BY <1>1, <1>2, <1>3, NewEventIsLast, OrderedAppend DEF HandoverInv
<1>8. Follows(written', ch')
    BY <1>1, <1>3, <1>5, NewEventIsLast DEF HandoverInv, Follows
<1>9. Follows(current', ch')
    BY <1>1, <1>3, <1>5, NewEventIsLast DEF HandoverInv, Follows
<1>10. Called(written)' /\ Called(current)'
    BY <1>1, <1>3, NewEventIsLast DEF HandoverInv, Called
<1>11. Called(ch)'
    <2>1. \A i \in DOMAIN ch : ch[i].no <= calls'[ch[i].from]
        BY <1>1, <1>3, NewEventIsLast DEF HandoverInv
    <2>2. QED
        BY <1>2, <1>5, <2>1 DEF Called
<1>12. QED
    BY <1>6, <1>7, <1>8, <1>9, <1>10, <1>11 DEF HandoverInv, Ordered, Follows

LEMMA LostCallKeepsHandover ==
    ASSUME TypeOK, HandoverInv, NEW h \in Handlers,
           Drop(h) \/ SendOnClosed(h)
    PROVE  HandoverInv'
<1>1. Call(h) /\ UNCHANGED <<ch, written, current>>
    BY DEF Drop, SendOnClosed, Call
<1>2. Called(written)' /\ Called(current)' /\ Called(ch)'
    BY <1>1, NewEventIsLast DEF TypeOK, HandoverInv, Called
<1>3. QED
    BY <1>1, <1>2 DEF HandoverInv, Ordered, Follows

LEMMA ReceiveKeepsHandover ==
    ASSUME TypeOK, HandoverInv, Receive
    PROVE  HandoverInv'
<1>1. /\ ch \in Seq(Message) /\ ch # <<>>
      /\ ch' = Tail(ch) /\ current' = <<Head(ch)>>
      /\ written' = written /\ calls' = calls
    BY DEF TypeOK, Receive, history
<1>2. /\ 1 \in DOMAIN ch
      /\ DOMAIN current' = {1} /\ current'[1] = ch[1]
      /\ \A i \in DOMAIN ch' : /\ i \in Nat \ {0}
                               /\ i + 1 \in DOMAIN ch
                               /\ ch'[i] = ch[i + 1]
    BY <1>1, TailFacts
<1>3. Ordered(ch')
    BY <1>2 DEF HandoverInv, Ordered
<1>4. Follows(current', ch')
    BY <1>2 DEF HandoverInv, Ordered, Follows
<1>5. Follows(written', current') /\ Follows(written', ch')
    BY <1>1, <1>2 DEF HandoverInv, Follows
<1>6. Called(current)' /\ Called(ch)'
    BY <1>1, <1>2 DEF HandoverInv, Called
<1>7. QED
    BY <1>1, <1>3, <1>4, <1>5, <1>6 DEF HandoverInv, Ordered, Called, Follows

LEMMA WriteKeepsHandover ==
    ASSUME TypeOK, HandoverInv, WriteReturnsNil
    PROVE  HandoverInv'
<1> DEFINE e == current[1]
<1>1. /\ written' = Append(written, e) /\ current' = <<>>
      /\ ch' = ch /\ calls' = calls
    BY DEF WriteReturnsNil
<1>2. /\ 1 \in DOMAIN current /\ e \in Message
      /\ written \in Seq(Message)
      /\ Len(written) \in Nat /\ DOMAIN written = 1 .. Len(written)
    <2>1. /\ current \in Seq(Message) /\ Len(current) = 1
          /\ written \in Seq(Message)
        BY DEF TypeOK, WriteReturnsNil
    <2>2. 1 \in DOMAIN current /\ e \in Message
        BY <2>1, LenProperties, ElementOfSeq
    <2>3. QED
        BY <2>1, <2>2, LenProperties
<1>3. \A i \in DOMAIN written' :
          \/ i \in DOMAIN written /\ written'[i] = written[i]
          \/ written'[i] = e
    BY <1>1, <1>2, AppendFacts
<1>4. Ordered(written')
    BY <1>1, <1>2, OrderedAppend DEF HandoverInv, Follows
<1>5. Follows(written', ch')
    BY <1>1, <1>2, <1>3 DEF HandoverInv, Follows
<1>6. Called(written)'
    BY <1>1, <1>2, <1>3 DEF HandoverInv, Called
<1>7. Follows(written', current') /\ Follows(current', ch') /\ Called(current)'
    BY <1>1, EmptyHandover DEF Called
<1>8. QED
    BY <1>1, <1>4, <1>5, <1>6, <1>7 DEF HandoverInv, Ordered, Called, Follows

(* The events on their way stay in the order of their calls. *)
THEOREM HandoverCorrect == Spec => []HandoverInv
<1>1. Init => HandoverInv
    BY EmptyHandover DEF Init, HandoverInv
<1>2. TypeOK /\ HandoverInv /\ [Next]_vars => HandoverInv'
    <2> SUFFICES ASSUME TypeOK, HandoverInv, [Next]_vars
                 PROVE  HandoverInv'
        OBVIOUS
    <2>1. CASE \E h \in Handlers : Publish(h)
        BY <2>1, EnqueueKeepsHandover, LostCallKeepsHandover DEF Publish
    <2>2. CASE Receive
        BY <2>2, ReceiveKeepsHandover
    <2>3. CASE WriteReturnsNil
        BY <2>3, WriteKeepsHandover
    <2>4. CASE WriteReturnsError
        <3>1. current' = <<>> /\ UNCHANGED <<ch, written, calls>>
            BY <2>4 DEF WriteReturnsError
        <3>2. Follows(written', current') /\ Follows(current', ch')
              /\ Called(current)'
            BY <3>1, EmptyHandover DEF Called
        <3>3. QED
            BY <3>1, <3>2 DEF HandoverInv, Ordered, Called, Follows
    <2>5. CASE UNCHANGED <<ch, current, written, calls>>
        BY <2>5 DEF HandoverInv, Ordered, Called, Follows
    <2>6. QED
        BY <2>1, <2>2, <2>3, <2>4, <2>5
           DEF Next, Loop, ExitDrained, ExitSignalled, SignalLoop, Closing,
               CloseChannel, JoinLoop, CloseWriter, CloseAt, BrokerChanges,
               history, vars
<1>3. QED
    BY <1>1, <1>2, TypeCorrect, PTL DEF Spec

(* The events of one handler reach Kafka in the order of its calls, and    *)
(* none of them twice.                                                     *)
THEOREM HandlerOrderCorrect == Spec => []HandlerOrder
<1>1. HandoverInv => HandlerOrder
    BY DEF HandoverInv, Ordered, HandlerOrder
<1>2. QED
    BY <1>1, HandoverCorrect, PTL

-----------------------------------------------------------------------------
(* Where the events are.  What the steps do to the ranges.                 *)

(* The one event loop() holds. *)
LEMMA CurrentIsSingleton ==
    ASSUME TypeOK, loop = "writing"
    PROVE  current[1] \in Message /\ current = <<current[1]>>
<1>1. current \in Seq(Message) /\ Len(current) = 1
    BY DEF TypeOK
<1>2. current[1] \in Message
    BY <1>1, ElementOfSeq
<1>3. QED
    BY <1>1, <1>2, SeqEqual

LEMMA CurrentIsEmpty ==
    ASSUME TypeOK, loop # "writing"
    PROVE  current = <<>>
    BY EmptySeq DEF TypeOK

LEMMA RangeAppend ==
    ASSUME NEW S, NEW s \in Seq(S), NEW e \in S
    PROVE  Range(Append(s, e)) = Range(s) \cup {e}
<1>1. /\ DOMAIN s = 1 .. Len(s) /\ Len(s) \in Nat
      /\ DOMAIN Append(s, e) = 1 .. Len(s) + 1
      /\ \A i \in 1 .. Len(s) : Append(s, e)[i] = s[i]
      /\ Append(s, e)[Len(s) + 1] = e
    BY AppendFacts, LenProperties
<1>2. \A x \in Range(Append(s, e)) : x \in Range(s) \cup {e}
    BY <1>1 DEF Range
<1>3. \A i \in DOMAIN s : i \in DOMAIN Append(s, e) /\ Append(s, e)[i] = s[i]
    BY <1>1
<1>4. \A x \in Range(s) : x \in Range(Append(s, e))
    BY <1>3 DEF Range
<1>5. e \in Range(Append(s, e))
    BY <1>1 DEF Range
<1>6. QED
    BY <1>2, <1>4, <1>5

LEMMA RangeOfFew ==
    ASSUME NEW e
    PROVE  Range(<<e>>) = {e} /\ Range(<<>>) = {}
    BY DEF Range

(* No event is in an ordered sequence twice, so that its head is not in    *)
(* the rest.                                                               *)
LEMMA HeadLeaves ==
    ASSUME NEW s \in Seq(Message), s # <<>>, Ordered(s)
    PROVE  /\ Range(s) = {Head(s)} \cup Range(Tail(s))
           /\ Head(s) \notin Range(Tail(s))
<1>1. /\ Head(s) = s[1] /\ 1 \in DOMAIN s /\ s[1] \in Message
      /\ DOMAIN s = 1 .. Len(s) /\ Len(s) \in Nat
      /\ DOMAIN Tail(s) = 1 .. Len(s) - 1
      /\ \A i \in 1 .. Len(s) - 1 : Tail(s)[i] = s[i + 1]
    BY TailFacts, HeadTailProperties, LenProperties, EmptySeq
<1>2. ASSUME NEW i \in DOMAIN s
      PROVE  i = 1 \/ (i - 1 \in DOMAIN Tail(s) /\ s[i] = Tail(s)[i - 1])
    <2>1. i \in Nat /\ 1 <= i /\ i <= Len(s)
        BY <1>1
    <2>2. CASE i # 1
        <3>1. i - 1 \in 1 .. Len(s) - 1 /\ (i - 1) + 1 = i
            BY <1>1, <2>1, <2>2
        <3>2. Tail(s)[i - 1] = s[(i - 1) + 1]
            BY <1>1, <3>1
        <3>3. QED
            BY <1>1, <3>1, <3>2
    <2>3. CASE i = 1
        BY <2>3
    <2>4. QED
        BY <2>2, <2>3
<1>3. ASSUME NEW i \in DOMAIN Tail(s)
      PROVE  i + 1 \in DOMAIN s /\ Tail(s)[i] = s[i + 1] /\ 1 < i + 1
    <2>1. i \in 1 .. Len(s) - 1
        BY <1>1
    <2>2. i + 1 \in 1 .. Len(s) /\ 1 < i + 1
        BY <1>1, <2>1
    <2>3. QED
        BY <1>1, <2>1, <2>2
<1>4. ASSUME NEW x \in Range(s)
      PROVE  x \in {Head(s)} \cup Range(Tail(s))
    <2>1. PICK i \in DOMAIN s : x = s[i]
        BY DEF Range
    <2>2. CASE i = 1
        BY <1>1, <2>1, <2>2
    <2>3. CASE i # 1
        <3>1. i - 1 \in DOMAIN Tail(s) /\ x = Tail(s)[i - 1]
            BY <1>2, <2>1, <2>3
        <3>2. QED
            BY <3>1 DEF Range
    <2>4. QED
        BY <2>2, <2>3
<1>5. {Head(s)} \cup Range(Tail(s)) \subseteq Range(s)
    BY <1>1, <1>3 DEF Range
<1>6. \A i \in DOMAIN Tail(s) : Precedes(s[1], Tail(s)[i])
    BY <1>1, <1>3 DEF Ordered
<1>7. ~Precedes(s[1], s[1])
    BY <1>1, MessageFields DEF Precedes
<1>8. QED
    BY <1>1, <1>4, <1>5, <1>6, <1>7 DEF Range

(* A call of Publish that returns adds its event to those whose Publish    *)
(* has returned; a call that panics adds nothing.                          *)
LEMMA ReturnedFacts ==
    ASSUME TypeOK, NEW h \in Handlers, Call(h)
    PROVE  /\ Event(h) \notin Returned
           /\ panicked' = panicked => Returned' = Returned \cup {Event(h)}
           /\ panicked' = panicked \cup {h} => Returned' = Returned
<1>1. /\ calls[h] \in Nat /\ calls'[h] = calls[h] + 1
      /\ \A g \in Handlers \ {h} : calls'[g] = calls[g]
      /\ Event(h) \in Message /\ Event(h) = [from |-> h, no |-> calls'[h]]
      /\ h \notin panicked /\ panicked \subseteq Handlers
    BY CallFacts DEF Call, Event, TypeOK
<1>2. \A m \in Message : /\ m = [from |-> m.from, no |-> m.no]
                         /\ m.from \in Handlers /\ m.no \in Nat
    BY DEF Message
<1>3. \A m \in Message :
          m \in Returned <=> m.no <= calls[m.from]
                             /\ ~(m.from \in panicked /\ m.no = calls[m.from])
    BY <1>2 DEF Returned
<1>4. \A m \in Message :
          m \in Returned' <=> m.no <= calls'[m.from]
                             /\ ~(m.from \in panicked' /\ m.no = calls'[m.from])
    BY <1>2 DEF Returned
<1>5. Event(h).from = h /\ Event(h).no = calls[h] + 1
    BY <1>1
<1>6. Event(h) \notin Returned
    BY <1>1, <1>3, <1>5
<1>7. \A m \in Message : m = Event(h) <=> m.from = h /\ m.no = calls[h] + 1
    BY <1>1, <1>2
<1>8. Returned \subseteq Message /\ Returned' \subseteq Message
    BY DEF Returned
<1>9. ASSUME panicked' = panicked, NEW m \in Message
      PROVE  m \in Returned' <=> m \in Returned \cup {Event(h)}
    BY <1>1, <1>2, <1>3, <1>4, <1>7, <1>9
<1>10. ASSUME panicked' = panicked \cup {h}, NEW m \in Message
      PROVE  m \in Returned' <=> m \in Returned
    BY <1>1, <1>2, <1>3, <1>4, <1>7, <1>10
<1>11. QED
    BY <1>1, <1>6, <1>8, <1>9, <1>10

(* The hand-over loses no event silently and leaves none in two places,    *)
(* for any capacity and any number of handlers and calls.                  *)
THEOREM EveryEventAccountedCorrect == Spec => []EveryEventAccounted
<1>1. Init => EveryEventAccounted
    <2> SUFFICES ASSUME Init
                 PROVE  EveryEventAccounted
        OBVIOUS
    <2>1. Range(ch) = {} /\ Range(current) = {} /\ Range(written) = {}
        BY DEF Init, Range
    <2>2. Returned = {}
        BY DEF Init, Returned, Message
    <2>3. QED
        BY <2>1, <2>2 DEF Init, EveryEventAccounted
<1>2. ASSUME TypeOK, HandoverInv, EveryEventAccounted, [Next]_vars
      PROVE  EveryEventAccounted'
    <2>0. /\ ch \in Seq(Message) /\ current \in Seq(Message)
          /\ written \in Seq(Message)
        BY <1>2 DEF TypeOK
    <2>1. ASSUME NEW h \in Handlers, Publish(h)
          PROVE  EveryEventAccounted'
        <3>1. /\ Call(h) /\ UNCHANGED <<current, written, failed>>
              /\ Event(h) \in Message
            BY <1>2, <2>1, CallFacts DEF Publish, Enqueue, Drop, SendOnClosed, Call
        <3>2. /\ Event(h) \notin Returned
              /\ panicked' = panicked => Returned' = Returned \cup {Event(h)}
              /\ panicked' = panicked \cup {h} => Returned' = Returned
            BY <1>2, <3>1, ReturnedFacts
        <3>3. CASE Enqueue(h)
            <4>1. Range(ch') = Range(ch) \cup {Event(h)}
                <5>1. ch' = Append(ch, Event(h))
                    BY <3>3 DEF Enqueue
                <5>2. QED
                    BY <2>0, <3>1, <5>1, RangeAppend
            <4>2. QED
                BY <1>2, <3>1, <3>2, <3>3, <4>1
                   DEF Enqueue, EveryEventAccounted
        <3>4. CASE Drop(h)
            BY <1>2, <3>1, <3>2, <3>4 DEF Drop, EveryEventAccounted
        <3>5. CASE SendOnClosed(h)
            BY <1>2, <3>1, <3>2, <3>5 DEF SendOnClosed, EveryEventAccounted
        <3>6. QED
            BY <2>1, <3>3, <3>4, <3>5 DEF Publish
    <2>2. CASE Receive
        <3>1. /\ ch # <<>> /\ ch' = Tail(ch) /\ current' = <<Head(ch)>>
              /\ UNCHANGED <<calls, panicked, written, failed, dropped>>
              /\ current = <<>>
            BY <1>2, <2>2, EmptySeq DEF Receive, history, TypeOK
        <3>2. /\ Range(current) = {} /\ Range(current') = {Head(ch)}
              /\ Range(ch) = {Head(ch)} \cup Range(ch')
              /\ Head(ch) \notin Range(ch')
            <4>1. Head(ch) \in Message
                BY <2>0, <3>1, TailFacts
            <4>2. QED
                BY <1>2, <2>0, <3>1, <4>1, RangeOfFew, HeadLeaves DEF HandoverInv
        <3>3. Returned' = Returned
            BY <3>1 DEF Returned
        <3>4. QED
            BY <1>2, <3>1, <3>2, <3>3 DEF EveryEventAccounted
    <2>3. CASE WriteReturnsNil \/ WriteReturnsError
        <3>1. /\ current' = <<>> /\ loop = "writing"
              /\ UNCHANGED <<ch, calls, panicked, dropped>>
            BY <2>3 DEF WriteReturnsNil, WriteReturnsError
        <3>2. current[1] \in Message /\ current = <<current[1]>>
            BY <1>2, <3>1, CurrentIsSingleton
        <3>3. Range(current) = {current[1]} /\ Range(current') = {}
            BY <3>1, <3>2, RangeOfFew
        <3>4. Returned' = Returned
            BY <3>1 DEF Returned
        <3>5. CASE WriteReturnsNil
            <4>1. /\ Range(written') = Range(written) \cup {current[1]}
                  /\ failed' = failed
                BY <2>0, <3>2, <3>5, RangeAppend DEF WriteReturnsNil
            <4>2. QED
                BY <1>2, <3>1, <3>3, <3>4, <4>1 DEF EveryEventAccounted
        <3>6. CASE WriteReturnsError
            BY <1>2, <3>1, <3>3, <3>4, <3>6
               DEF WriteReturnsError, EveryEventAccounted
        <3>7. QED
            BY <2>3, <3>5, <3>6
    <2>4. CASE UNCHANGED <<ch, current, calls, panicked, written, failed,
                           dropped>>
        <3>1. Returned' = Returned
            BY <2>4 DEF Returned
        <3>2. QED
            BY <1>2, <2>4, <3>1 DEF EveryEventAccounted
    <2>5. QED
        BY <1>2, <2>1, <2>2, <2>3, <2>4
           DEF Next, Loop, ExitDrained, ExitSignalled, SignalLoop, Closing,
               CloseChannel, JoinLoop, CloseWriter, CloseAt, BrokerChanges,
               history, vars
<1>3. QED
    BY <1>1, <1>2, TypeCorrect, HandoverCorrect, PTL DEF Spec

-----------------------------------------------------------------------------
(* The refinement: an accepted call is an Offer that is taken, a dropped or *)
(* panicking one an Offer that is refused, a finished write delivers, a    *)
(* failed one loses, and CloseWriter stops the log; the other steps move   *)
(* events inside the publisher and the log does not see them.              *)

LEMMA PendingIsSeq ==
    ASSUME TypeOK
    PROVE  /\ ch \in Seq(Message) /\ current \in Seq(Message)
           /\ current \o ch \in Seq(Message)
    BY ConcatProperties DEF TypeOK

LEMMA SingletonConcat ==
    ASSUME NEW S, NEW s \in Seq(S), NEW e \in S
    PROVE  /\ <<e>> \o s # <<>>
           /\ Head(<<e>> \o s) = e
           /\ Tail(<<e>> \o s) = s
<1> DEFINE t == <<e>> \o s
<1>1. <<e>> \in Seq(S) /\ Len(<<e>>) = 1 /\ <<e>>[1] = e
    OBVIOUS
<1>2. /\ t \in Seq(S) /\ Len(t) = Len(s) + 1 /\ t[1] = e
      /\ \A i \in 2 .. Len(s) + 1 : t[i] = s[i - 1]
      /\ Len(s) \in Nat
    BY <1>1, ConcatProperties, LenProperties
<1>3. t # <<>>
    BY <1>2, EmptySeq
<1>4. Head(t) = e
    BY <1>2, <1>3, TailFacts
<1>5. /\ Tail(t) \in Seq(S) /\ Len(Tail(t)) = Len(s)
      /\ \A i \in 1 .. Len(s) : Tail(t)[i] = s[i]
    BY <1>2, <1>3, HeadTailProperties
<1>6. Tail(t) = s
    BY <1>5, SeqEqual
<1>7. QED
    BY <1>3, <1>4, <1>6

LEMMA HeadTailConcat ==
    ASSUME NEW S, NEW s \in Seq(S), s # <<>>
    PROVE  <<Head(s)>> \o Tail(s) = s
<1> DEFINE t == <<Head(s)>> \o Tail(s)
<1>1. /\ Head(s) \in S /\ Head(s) = s[1] /\ Tail(s) \in Seq(S)
      /\ Len(Tail(s)) = Len(s) - 1 /\ Len(s) \in Nat \ {0}
      /\ \A i \in 1 .. Len(s) - 1 : Tail(s)[i] = s[i + 1]
    BY TailFacts, HeadTailProperties, EmptySeq
<1>2. <<Head(s)>> \in Seq(S) /\ Len(<<Head(s)>>) = 1
      /\ <<Head(s)>>[1] = s[1]
    BY <1>1
<1>3. /\ t \in Seq(S) /\ Len(t) = Len(s)
      /\ \A i \in 1 .. Len(s) : t[i] = IF i <= 1 THEN <<Head(s)>>[i]
                                                 ELSE Tail(s)[i - 1]
    BY <1>1, <1>2, ConcatProperties
<1>4. \A i \in 1 .. Len(s) : t[i] = s[i]
    BY <1>1, <1>2, <1>3
<1>5. QED
    BY <1>3, <1>4, SeqEqual

LEMMA ConcatAppend ==
    ASSUME NEW S, NEW s \in Seq(S), NEW t \in Seq(S), NEW e \in S
    PROVE  s \o Append(t, e) = Append(s \o t, e)
<1>1. <<e>> \in Seq(S) /\ s \o t \in Seq(S)
    BY ConcatProperties
<1>2. Append(t, e) = t \o <<e>> /\ Append(s \o t, e) = (s \o t) \o <<e>>
    BY <1>1, AppendIsConcat
<1>3. QED
    BY <1>1, <1>2, ConcatAssociative

(* The publisher implements the best-effort log, with any number of        *)
(* handlers, any capacity and any number of calls: Close() racing with     *)
(* Publish(), with loop() and with failing writes never delivers an event  *)
(* twice, out of order or after the log has stopped.                       *)
THEOREM PublisherImplementsLossyLog == Spec => ImplementsLossyLog
<1>1. Init => Log!Init
    BY ConcatEmptySeq, EmptySeq DEF Init, Log!Init
<1>2. TypeOK /\ WriterClosedLast /\ [Next]_vars => [Log!Next]_Log!vars
    <2> SUFFICES ASSUME TypeOK, WriterClosedLast, [Next]_vars
                 PROVE  [Log!Next]_Log!vars
        OBVIOUS
    <2>1. ASSUME NEW h \in Handlers, Publish(h)
          PROVE  Log!Offer(h)
        <3>1. /\ calls[h] < MaxCalls
              /\ calls' = [calls EXCEPT ![h] = @ + 1]
              /\ UNCHANGED <<current, closer, written>>
              /\ Call(h)
            BY <2>1 DEF Publish, Enqueue, Drop, SendOnClosed, Call
        <3>2. CASE Enqueue(h)
            <4>1. ch' = Append(ch, Event(h)) /\ closer # "done"
                BY <3>2 DEF Enqueue, ChClosed
            <4>2. current' \o ch' = Append(current \o ch, Event(h))
                BY <3>1, <4>1, PendingIsSeq, CallFacts, ConcatAppend
            <4>3. QED
                BY <3>1, <4>1, <4>2 DEF Log!Offer, Event
        <3>3. CASE Drop(h) \/ SendOnClosed(h)
            BY <3>1, <3>3 DEF Drop, SendOnClosed, Log!Offer
        <3>4. QED
            BY <2>1, <3>2, <3>3 DEF Publish
    <2>2. CASE Receive
        <3>1. current = <<>> /\ current' \o ch' = ch
            BY <2>2, CurrentIsEmpty, PendingIsSeq, HeadTailConcat DEF Receive
        <3>2. current' \o ch' = current \o ch
            BY <3>1, PendingIsSeq, ConcatEmptySeq
        <3>3. QED
            BY <2>2, <3>2 DEF Receive, history, Log!vars
    <2>3. CASE WriteReturnsNil \/ WriteReturnsError
        <3>1. /\ loop = "writing" /\ closer # "done"
              /\ current' = <<>> /\ UNCHANGED <<ch, closer, calls>>
            BY <2>3 DEF WriteReturnsNil, WriteReturnsError, WriterClosedLast
        <3>2. /\ current \o ch # <<>>
              /\ Head(current \o ch) = current[1]
              /\ Tail(current \o ch) = ch
            BY <3>1, CurrentIsSingleton, PendingIsSeq, SingletonConcat
        <3>3. current' \o ch' = Tail(current \o ch)
            BY <3>1, <3>2, PendingIsSeq, ConcatEmptySeq
        <3>4. CASE WriteReturnsNil
            BY <3>1, <3>2, <3>3, <3>4 DEF WriteReturnsNil, Log!Deliver, Log!Next
        <3>5. CASE WriteReturnsError
            BY <3>1, <3>2, <3>3, <3>5 DEF WriteReturnsError, Log!Lose, Log!Next
        <3>6. QED
            BY <2>3, <3>4, <3>5
    <2>4. CASE CloseWriter
        BY <2>4 DEF CloseWriter, CloseAt, history, Log!Stop, Log!Next
    <2>5. CASE SignalLoop \/ CloseChannel \/ JoinLoop
        BY <2>5 DEF SignalLoop, CloseChannel, JoinLoop, CloseAt, history,
                    Log!vars
    <2>6. CASE ExitDrained \/ ExitSignalled \/ BrokerChanges \/ UNCHANGED vars
        BY <2>6 DEF ExitDrained, ExitSignalled, BrokerChanges, history, vars,
                    Log!vars
    <2>7. QED
        BY <2>1, <2>2, <2>3, <2>4, <2>5, <2>6
           DEF Next, Loop, Closing, Log!Next
<1>3. QED
    BY <1>1, <1>2, TypeCorrect, WriterClosedLastCorrect, PTL
       DEF Spec, ImplementsLossyLog, Log!Spec

=============================================================================
