-------------------------- MODULE CodeGatewayProofs --------------------------
(***************************************************************************)
(* Theorems about CodeGateway, for every set of routes.  The inductive     *)
(* invariant says where the one request is: with the handler or, once it   *)
(* is acknowledged, with the background, and what each has done by then.   *)
(***************************************************************************)
EXTENDS CodeGateway, TLAPS

Before == {"limit", "match", "check", "build", "ack"}
After == {"return", "done"}
Calling == {"read", "send", "wait", "copy"}

(* The background runs only after the handler has answered 202. *)
Handover ==
    /\ pc["background"] \in Calling \cup {"idle", "done"}
    /\ pc["background"] # "idle" =>
        pc["handler"] \in After /\ answers = <<"202">>

(* The call is made once, by the thread that waits for its answer. *)
OneCall ==
    /\ pc["handler"] \in Before => received = <<>>
    /\ \A t \in Threads : pc[t] \in {"read", "send"} => received = <<>>
    /\ \A t \in Threads : pc[t] \in {"wait", "copy"} => received = <<out>>

(* Where a route validates, what has passed is the client's whole body.    *)
Passed ==
    req.route.table = "code" /\ req.route.validates =>
        /\ raw # "unread" => raw = req.body /\ raw # "invalid"
        /\ \A t \in Threads :
            pc[t] \in Calling \cup {"build", "ack"} => raw # "unread"
        /\ \A t \in Threads : pc[t] \in {"send", "wait"} => out = raw

(* The session was found in the body that is to be sent. *)
Found == sessionID <=> req.route.name = "save-user" /\ out \in Keyed

(* What the client has of an answer was written by the handler, none of it *)
(* before the upstream answered; the background never adds to it.          *)
Nothing == [session |-> FALSE, declared |-> FALSE, body |-> "nothing"]

Replied ==
    /\ pc["handler"] \in Before \cup {"read", "send", "wait"} => reply = Nothing
    /\ pc["background"] # "idle" => reply = Nothing
    /\ pc["handler"] = "copy" => reply.declared = sized /\ reply.body = "nothing"

Inv ==
    /\ TypeOK
    /\ AnsweredOnce
    /\ Handover
    /\ OneCall
    /\ StatusIsTrue
    /\ Passed
    /\ ForwardedIsChecked
    /\ Found
    /\ Replied
    /\ DeclaredIsWhole
    /\ SessionIsForwarded

-----------------------------------------------------------------------------
(* The definitions a step of the invariant is expanded with. *)
USE DEF Before, After, Calling, Threads, Place, Status, Data, Request,
        RouteShape, Reply, Keyed, call

(* Nothing has happened when a request arrives. *)
LEMMA InitInv == Init => Inv
  <1> SUFFICES ASSUME Init
               PROVE  Inv
    OBVIOUS
  <1> USE DEF Init
  <1>1. TypeOK
    <2>1. req \in Request
      OBVIOUS
    <2>2. pc \in [Threads -> Place]
      OBVIOUS
    <2>3. received \in Seq(Data)
      OBVIOUS
    <2>4. answers \in Seq(Status)
      OBVIOUS
    <2>5. /\ raw \in Data \cup {"unread"} /\ out \in Data /\ left \in BOOLEAN
          /\ sessionID \in BOOLEAN /\ sized \in BOOLEAN /\ reply \in Reply
      OBVIOUS
    <2>6. QED
      BY ONLY <2>1, <2>2, <2>3, <2>4, <2>5 DEF TypeOK
  <1>2. AnsweredOnce /\ Handover /\ OneCall
    BY DEF AnsweredOnce, Handover, OneCall
  <1>3. StatusIsTrue /\ Passed /\ ForwardedIsChecked
    BY DEF StatusIsTrue, Passed, ForwardedIsChecked, Found, Replied, Nothing,
               DeclaredIsWhole, SessionIsForwarded
  <1>4. Found /\ Replied /\ DeclaredIsWhole /\ SessionIsForwarded
    BY DEF Found, Replied, Nothing, DeclaredIsWhole, SessionIsForwarded
  <1>5. QED
    BY <1>1, <1>2, <1>3, <1>4 DEF Inv

(* A read of the body without error has got all of it. *)
LEMMA ReadsLemma ==
  ASSUME NEW read \in Reads, req.body \in Data
  PROVE  /\ read.data \in Data
         /\ ~read.err => read.data = req.body
  <1> DEFINE whole == [data |-> req.body, err |-> FALSE]
             broken == [data : {"nothing", "part", "keyed"}, err : {TRUE}]
  <1>1. read = whole \/ read \in broken
    BY DEF Reads
  <1>2. CASE read = whole
    BY <1>2
  <1>3. CASE read \in broken
    BY <1>3
  <1>4. QED
    BY <1>1, <1>2, <1>3

(* Two single answers differ as their statuses do. *)
LEMMA OtherAnswer ==
  ASSUME NEW a, NEW b, a # b
  PROVE  <<a>> # <<b>> /\ Append(<<>>, a) = <<a>>
  <1>1. <<a>>[1] = a /\ <<b>>[1] = b
    OBVIOUS
  <1>2. QED
    BY <1>1

(* Answering in the handler ends it. *)
LEMMA RefuseInv ==
  ASSUME Inv, pc["handler"] \in Before, NEW s \in {"400", "404", "413", "500"},
         Refuse(s)
  PROVE  Inv'
  <1> USE DEF Refuse, Write, End, Goto
  <1>1. TypeOK'
    BY DEF Inv, TypeOK
  <1>2. AnsweredOnce' /\ Handover' /\ OneCall'
    BY DEF Inv, TypeOK, AnsweredOnce, Handover, OneCall
  <1>3. StatusIsTrue'
    BY DEF Inv, TypeOK, AnsweredOnce, OneCall, StatusIsTrue
  <1>4. Passed' /\ ForwardedIsChecked'
    BY DEF Inv, TypeOK, Passed, ForwardedIsChecked, Handover
  <1>5. Found' /\ Replied' /\ DeclaredIsWhole'
    BY DEF Inv, TypeOK, Handover, Found, Replied, Nothing, DeclaredIsWhole
  <1>6. SessionIsForwarded'
    <2>1. answers = <<>> /\ ~reply.session
      BY DEF Inv, AnsweredOnce, Replied, Nothing
    <2>2. answers' = Append(<<>>, s)
      BY <2>1
    <2>3. answers' # <<"upstream">>
      BY <2>2, OtherAnswer
    <2>4. ~reply'.session
      BY <2>1
    <2>5. QED
      BY ONLY <2>3, <2>4 DEF SessionIsForwarded
  <1>7. QED
    BY <1>1, <1>2, <1>3, <1>4, <1>5, <1>6 DEF Inv

(* The handler's own steps. *)
LEMMA HandleInv ==
  ASSUME Inv, Handle
  PROVE  Inv'
  <1> USE DEF Goto
  <1>1. CASE Limit
    <2>1. CASE Refuse("413")
      BY <1>1, <2>1, RefuseInv DEF Limit
    <2>2. CASE ~Refuse("413")
      <3>1. pc["handler"] = "limit"
        BY <1>1 DEF Limit
      <3>2. PICK place \in {"match", "check", "build"} :
              /\ pc' = [pc EXCEPT !["handler"] = place]
              /\ place = "build" =>
                   ~(req.route.table = "code" /\ req.route.validates)
              /\ UNCHANGED <<req, call, answers, left>>
        BY <1>1, <2>2 DEF Limit
      <3>3. QED
        BY <3>1, <3>2
           DEF Inv, TypeOK, AnsweredOnce, Handover, OneCall, StatusIsTrue,
               Passed, ForwardedIsChecked, Found, Replied, Nothing,
               DeclaredIsWhole, SessionIsForwarded
    <2>3. QED
      BY <2>1, <2>2
  <1>2. CASE Match
    <2>1. CASE Refuse("404")
      BY <1>2, <2>1, RefuseInv DEF Match
    <2>2. CASE ~Refuse("404")
      <3>1. pc["handler"] = "match"
        BY <1>2 DEF Match
      <3>2. PICK place \in {"match", "check", "build"} :
              /\ pc' = [pc EXCEPT !["handler"] = place]
              /\ place = "build" =>
                   ~(req.route.table = "code" /\ req.route.validates)
              /\ UNCHANGED <<req, call, answers, left>>
        BY <1>2, <2>2 DEF Match
      <3>3. QED
        BY <3>1, <3>2
           DEF Inv, TypeOK, AnsweredOnce, Handover, OneCall, StatusIsTrue,
               Passed, ForwardedIsChecked, Found, Replied, Nothing,
               DeclaredIsWhole, SessionIsForwarded
    <2>3. QED
      BY <2>1, <2>2
  <1>3. CASE Check
    <2>1. CASE Refuse("400")
      BY <1>3, <2>1, RefuseInv DEF Check
    <2>2. CASE ~Refuse("400")
      <3>1. PICK read \in Reads :
              /\ ~read.err
              /\ read.data # "invalid"
              /\ raw' = read.data
              /\ pc' = [pc EXCEPT !["handler"] = "build"]
              /\ UNCHANGED <<req, out, sessionID, received, sized, reply,
                             answers, left>>
        BY <1>3, <2>2 DEF Check
      <3>2. read.data = req.body
        BY <3>1, ReadsLemma DEF Inv, TypeOK
      <3>3. QED
        BY <1>3, <3>1, <3>2
           DEF Check, Inv, TypeOK, AnsweredOnce, Handover, OneCall,
               StatusIsTrue, Passed, ForwardedIsChecked, Found, Replied, Nothing,
               DeclaredIsWhole, SessionIsForwarded
    <2>3. QED
      BY <2>1, <2>2
  <1>4. CASE Build
    BY <1>4 DEF Build, Inv, TypeOK, AnsweredOnce, Handover, OneCall,
                StatusIsTrue, Passed, ForwardedIsChecked, Found, Replied, Nothing,
               DeclaredIsWhole, SessionIsForwarded
  <1>5. CASE BuildFails
    BY <1>5, RefuseInv DEF BuildFails
  <1>6. CASE Ack
    <2> USE <1>6 DEF Ack, Write
    <2>1. TypeOK' /\ AnsweredOnce' /\ Handover' /\ OneCall'
      BY DEF Inv, TypeOK, AnsweredOnce, Handover, OneCall
    <2>2. StatusIsTrue'
      BY DEF Inv, TypeOK, AnsweredOnce, StatusIsTrue
    <2>3. Passed' /\ ForwardedIsChecked'
      BY DEF Inv, TypeOK, Passed, ForwardedIsChecked
    <2>4. Found' /\ Replied' /\ DeclaredIsWhole'
      BY DEF Inv, TypeOK, Found, Replied, Nothing, DeclaredIsWhole
    <2>5. SessionIsForwarded'
      <3>1. answers = <<>> /\ ~reply.session
        BY DEF Inv, AnsweredOnce, Replied, Nothing
      <3>2. answers' = Append(<<>>, "202")
        BY <3>1
      <3>3. answers' # <<"upstream">>
        BY <3>2, OtherAnswer
      <3>4. ~reply'.session
        BY <3>1
      <3>5. QED
        BY ONLY <3>3, <3>4 DEF SessionIsForwarded
    <2>6. QED
      BY <2>1, <2>2, <2>3, <2>4, <2>5 DEF Inv
  <1>7. CASE Return
    BY <1>7 DEF Return, Inv, TypeOK, AnsweredOnce, Handover, OneCall,
                StatusIsTrue, Passed, ForwardedIsChecked, Found, Replied, Nothing,
               DeclaredIsWhole, SessionIsForwarded
  <1>8. QED
    BY <1>1, <1>2, <1>3, <1>4, <1>5, <1>6, <1>7 DEF Handle

(* Ending a call that failed, with a status that says nothing about what   *)
(* was forwarded.                                                          *)
LEMMA EndInv ==
  ASSUME Inv, NEW t \in Threads, pc[t] \in {"read", "send", "wait"},
         Write(t, "502"), End(t), UNCHANGED <<req, call, left>>
  PROVE  Inv'
  <1> USE DEF Write, End, Goto
  <1>1. TypeOK'
    BY DEF Inv, TypeOK
  <1>2. AnsweredOnce' /\ Handover' /\ OneCall'
    BY DEF Inv, TypeOK, AnsweredOnce, Handover, OneCall
  <1>3. StatusIsTrue'
    BY DEF Inv, TypeOK, AnsweredOnce, Handover, OneCall, StatusIsTrue
  <1>4. Passed' /\ ForwardedIsChecked'
    BY DEF Inv, TypeOK, Passed, ForwardedIsChecked, Handover
  <1>5. Found' /\ Replied' /\ DeclaredIsWhole'
    BY DEF Inv, TypeOK, Handover, Found, Replied, Nothing, DeclaredIsWhole
  <1>6. SessionIsForwarded'
    <2>1. ~reply.session
      BY DEF Inv, TypeOK, Replied, Nothing
    <2>2. answers' = Append(<<>>, "502") \/ answers' = <<"202">>
      BY DEF Inv, TypeOK, AnsweredOnce, Handover
    <2>3. answers' # <<"upstream">>
      BY <2>2, OtherAnswer
    <2>4. ~reply'.session
      BY <2>1
    <2>5. QED
      BY ONLY <2>3, <2>4 DEF SessionIsForwarded
  <1>7. QED
    BY <1>1, <1>2, <1>3, <1>4, <1>5, <1>6 DEF Inv

(* The upstream's answer: the client is told its length, and the session   *)
(* of the body that was sent.                                              *)
LEMMA RespondInv ==
  ASSUME Inv, NEW t \in Threads, Respond(t)
  PROVE  Inv'
  <1> USE DEF Respond, Write, Goto
  <1>1. TypeOK'
    <2>1. sized' \in BOOLEAN /\ sessionID \in BOOLEAN /\ reply \in Reply
      BY DEF Inv, TypeOK
    <2>2. reply' \in Reply
      <3>1. \A a, b \in BOOLEAN :
              [reply EXCEPT !.session = a, !.declared = b] \in Reply
        BY <2>1
      <3>2. QED
        BY <2>1, <3>1, Zenon
    <2>3. pc' \in [Threads -> Place] /\ answers' \in Seq(Status)
      BY DEF Inv, TypeOK
    <2>4. /\ req' \in Request /\ raw' \in Data \cup {"unread"} /\ out' \in Data
          /\ sessionID' \in BOOLEAN /\ received' \in Seq(Data) /\ left' \in BOOLEAN
      BY DEF Inv, TypeOK
    <2>5. QED
      BY ONLY <2>1, <2>2, <2>3, <2>4 DEF TypeOK
  <1>2. AnsweredOnce' /\ Handover' /\ OneCall'
    BY DEF Inv, TypeOK, AnsweredOnce, Handover, OneCall
  <1>3. Len(received) = 1
    BY DEF Inv, OneCall
  <1>4. StatusIsTrue'
    BY <1>3 DEF Inv, TypeOK, AnsweredOnce, Handover, StatusIsTrue
  <1>5. Passed' /\ ForwardedIsChecked'
    BY DEF Inv, TypeOK, Passed, ForwardedIsChecked, Handover
  <1>6. CASE t = "handler"
    <2>1. answers = <<>> /\ reply = Nothing /\ pc["background"] = "idle"
      BY <1>6 DEF Inv, TypeOK, AnsweredOnce, Replied, Handover
    <2>2. answers' = <<"upstream">>
      BY <1>6, <2>1
    <2>3. received' = <<out>>
      BY <1>6 DEF Inv, OneCall
    <2>4. reply' = [Nothing EXCEPT !.session = sessionID, !.declared = sized']
      BY <1>6, <2>1
    <2>5. Found' /\ Replied' /\ DeclaredIsWhole' /\ SessionIsForwarded'
      BY <1>6, <2>1, <2>2, <2>3, <2>4
         DEF Inv, TypeOK, Found, Replied, Nothing, DeclaredIsWhole,
             SessionIsForwarded
    <2>6. QED
      BY <1>1, <1>2, <1>4, <1>5, <2>5 DEF Inv
  <1>7. CASE t = "background"
    <2>1. reply = Nothing
      BY <1>7 DEF Inv, TypeOK, Replied
    <2>2. Found' /\ Replied' /\ DeclaredIsWhole' /\ SessionIsForwarded'
      BY <1>7, <2>1 DEF Inv, TypeOK, Handover, Found, Replied, Nothing,
         DeclaredIsWhole, SessionIsForwarded
    <2>3. QED
      BY <1>1, <1>2, <1>4, <1>5, <2>2 DEF Inv
  <1>8. QED
    BY <1>6, <1>7

(* A body that breaks off is taken for the whole only if no length was     *)
(* declared.                                                               *)
LEMMA CopyBodyInv ==
  ASSUME Inv, NEW t \in Threads, CopyBody(t)
  PROVE  Inv'
  <1>1. /\ pc[t] = "copy"
        /\ End(t)
        /\ UNCHANGED <<req, raw, out, sessionID, received, sized, answers, left>>
    BY DEF CopyBody
  <1>2. \/ reply' = reply
        \/ t = "handler" /\ \E b \in {"whole", "part", "broken"} :
              /\ reply' = [reply EXCEPT !.body = b]
              /\ b = "part" => ~reply.declared
    BY DEF CopyBody
  <1>3. TypeOK'
    <2>1. pc' \in [Threads -> Place]
      BY <1>1 DEF Inv, TypeOK, End, Goto
    <2>2. reply' \in Reply
      BY <1>2 DEF Inv, TypeOK
    <2>3. QED
      BY <1>1, <2>1, <2>2 DEF Inv, TypeOK
  <1>4. AnsweredOnce' /\ Handover' /\ OneCall'
    BY <1>1 DEF Inv, TypeOK, AnsweredOnce, Handover, OneCall, End, Goto
  <1>5. StatusIsTrue' /\ Passed' /\ ForwardedIsChecked' /\ Found'
    BY <1>1 DEF Inv, TypeOK, StatusIsTrue, Passed, ForwardedIsChecked, Found,
                Handover, End, Goto
  <1>6. CASE reply' = reply
    BY <1>1, <1>3, <1>4, <1>5, <1>6
       DEF Inv, TypeOK, Handover, Replied, Nothing, DeclaredIsWhole,
           SessionIsForwarded, End, Goto
  <1>7. CASE reply' # reply
    <2>1. t = "handler"
      BY <1>2, <1>7
    <2>2. PICK b \in {"whole", "part", "broken"} :
            /\ reply' = [reply EXCEPT !.body = b]
            /\ b = "part" => ~reply.declared
      BY <1>2, <1>7
    <2>3. pc["background"] = "idle" /\ reply.declared = sized
      BY <1>1, <2>1 DEF Inv, Handover, Replied
    <2>4. reply'.body = b /\ reply'.session = reply.session
      BY <2>2 DEF Inv, TypeOK
    <2>5. pc'["background"] = "idle" /\ pc'["handler"] = "return"
      BY <1>1, <2>1, <2>3 DEF End, Goto, Inv, TypeOK
    <2>6. Replied'
      BY <2>5 DEF Replied
    <2>7. DeclaredIsWhole' /\ SessionIsForwarded'
      BY <1>1, <2>2, <2>3, <2>4 DEF Inv, DeclaredIsWhole, SessionIsForwarded
    <2>8. QED
      BY <1>3, <1>4, <1>5, <2>6, <2>7 DEF Inv
  <1>8. QED
    BY <1>6, <1>7

(* The steps of Proxy, whoever runs it. *)
LEMMA ProxyInv ==
  ASSUME Inv, NEW t \in Threads, Proxy(t) \/ Respond(t)
  PROVE  Inv'
  <1>1. CASE ReadBody(t)
    <2>1. CASE Write(t, "502") /\ End(t) /\ UNCHANGED <<out, sessionID>>
      BY <1>1, <2>1, EndInv DEF ReadBody
    <2>2. CASE ~(Write(t, "502") /\ End(t) /\ UNCHANGED <<out, sessionID>>)
      <3>1. PICK read \in IF raw = "unread" THEN Reads
                          ELSE {[data |-> raw, err |-> FALSE]} :
              /\ out' = IF req.route.name = "find-user-info" THEN "session"
                        ELSE read.data
              /\ sessionID' = SessionOf(read.data)
              /\ pc' = [pc EXCEPT ![t] = "send"]
              /\ UNCHANGED <<req, raw, received, sized, reply, answers, left>>
        BY <1>1, <2>2 DEF ReadBody, Goto
      <3>2. read.data \in Data
        <4>1. CASE raw = "unread"
          BY <3>1, <4>1, ReadsLemma DEF Inv, TypeOK
        <4>2. CASE raw # "unread"
          BY <3>1, <4>2 DEF Inv, TypeOK
        <4>3. QED
          BY <4>1, <4>2
      <3>3. raw # "unread" => read.data = raw
        BY <3>1
      <3>4. req.route.name # "another" => req.route.table = "yaml"
        BY RoutesAssumption DEF Inv, TypeOK
      <3>5. TypeOK' /\ AnsweredOnce' /\ Handover' /\ OneCall'
        BY <1>1, <3>1, <3>2
           DEF ReadBody, Inv, TypeOK, AnsweredOnce, Handover, OneCall, SessionOf
      <3>6. StatusIsTrue'
        BY <3>1 DEF Inv, StatusIsTrue
      <3>7. Passed' /\ ForwardedIsChecked'
        BY <1>1, <3>1, <3>3, <3>4
           DEF ReadBody, Inv, TypeOK, Passed, ForwardedIsChecked
      <3>8. Found' /\ Replied' /\ DeclaredIsWhole' /\ SessionIsForwarded'
        <4>1. Found'
          BY <3>1 DEF SessionOf, Found
        <4>2. QED
          BY <1>1, <3>1, <4>1
             DEF ReadBody, Inv, TypeOK, Handover, Replied, Nothing,
                 DeclaredIsWhole, SessionIsForwarded
      <3>9. QED
        BY <3>5, <3>6, <3>7, <3>8 DEF Inv
    <2>3. QED
      BY <2>1, <2>2
  <1>2. CASE Send(t)
    <2> USE <1>2 DEF Send, Goto
    <2>1. TypeOK'
      BY DEF Inv, TypeOK
    <2>2. /\ received = <<>> /\ received' = <<out>>
          /\ Len(received') = 1 /\ received'[1] = out
      <3>1. received = <<>> /\ received' = Append(received, out)
        BY DEF Inv, OneCall
      <3>2. Append(<<>>, out) = <<out>> /\ Len(<<out>>) = 1 /\ <<out>>[1] = out
        OBVIOUS
      <3>3. QED
        BY <3>1, <3>2
    <2>3. AnsweredOnce' /\ Handover'
      BY DEF Inv, TypeOK, AnsweredOnce, Handover
    <2>4. OneCall'
      BY <2>2 DEF Inv, TypeOK, OneCall, Handover, AnsweredOnce
    <2>5. StatusIsTrue'
      BY <2>2 DEF Inv, TypeOK, StatusIsTrue, AnsweredOnce, Handover
    <2>6. Passed'
      BY DEF Inv, TypeOK, Passed
    <2>7. ForwardedIsChecked'
      BY <2>2 DEF Inv, TypeOK, Passed, ForwardedIsChecked
    <2>8. reply = Nothing
      BY DEF Inv, TypeOK, Replied
    <2>9. Found' /\ Replied' /\ DeclaredIsWhole'
      BY <2>8 DEF Inv, TypeOK, Found, Replied, Nothing, DeclaredIsWhole
    <2>10. SessionIsForwarded'
      <3>1. answers = <<>> \/ answers = <<"202">>
        BY DEF Inv, TypeOK, AnsweredOnce, Handover
      <3>2. answers' # <<"upstream">>
        BY <3>1
      <3>3. ~reply'.session
        BY <2>8 DEF Nothing
      <3>4. QED
        BY ONLY <3>2, <3>3 DEF SessionIsForwarded
    <2>11. QED
      BY <2>1, <2>3, <2>4, <2>5, <2>6, <2>7, <2>9, <2>10 DEF Inv
  <1>3. CASE CallFails(t)
    BY <1>3, EndInv DEF CallFails
  <1>4. CASE Respond(t)
    BY <1>4, RespondInv
  <1>5. CASE CopyBody(t)
    BY <1>5, CopyBodyInv
  <1>6. QED
    BY <1>1, <1>2, <1>3, <1>4, <1>5 DEF Proxy

(* Every step keeps the invariant. *)
LEMMA NextInv == Inv /\ [Next]_vars => Inv'
  <1> SUFFICES ASSUME Inv, [Next]_vars
               PROVE  Inv'
    OBVIOUS
  <1>1. CASE Handle
    BY <1>1, HandleInv
  <1>2. CASE \E t \in Threads : Proxy(t) \/ Respond(t)
    BY <1>2, ProxyInv
  <1>3. CASE ClientLeaves
    BY <1>3 DEF ClientLeaves, Inv, TypeOK, AnsweredOnce, Handover, OneCall,
                StatusIsTrue, Passed, ForwardedIsChecked, Found, Replied, Nothing,
               DeclaredIsWhole, SessionIsForwarded
  <1>4. CASE UNCHANGED vars
    BY <1>4 DEF vars, Inv, TypeOK, AnsweredOnce, Handover, OneCall,
                StatusIsTrue, Passed, ForwardedIsChecked, Found, Replied, Nothing,
               DeclaredIsWhole, SessionIsForwarded
  <1>5. QED
    BY <1>1, <1>2, <1>3, <1>4 DEF Next

(* The invariant holds in every behavior. *)
LEMMA InvHolds == Spec => []Inv
  BY InitInv, NextInv, PTL DEF Spec

-----------------------------------------------------------------------------
(* Every variable of CodeGateway keeps its type, for any routes. *)
THEOREM TypeCorrect == Spec => []TypeOK
  <1>1. Inv => TypeOK
    BY DEF Inv
  <1>2. QED
    BY InvHolds, <1>1, PTL

(* The client is answered once and by the handler, whatever the background *)
(* goroutine of WithAsyncAck still does: gateway.Handler gives it a writer *)
(* that discards.                                                          *)
THEOREM AnsweredOnceCorrect == Spec => []AnsweredOnce
  <1>1. Inv => AnsweredOnce
    BY DEF Inv
  <1>2. QED
    BY InvHolds, <1>1, PTL

(* What a validated route forwards is the client's whole valid body, also  *)
(* in the background: gateway.Handler stops at the error that Proxy drops. *)
THEOREM ForwardedIsCheckedCorrect == Spec => []ForwardedIsChecked
  <1>1. Inv => ForwardedIsChecked
    BY DEF Inv
  <1>2. QED
    BY InvHolds, <1>1, PTL

(* A refused request has not reached the upstream, and an upstream's       *)
(* status comes from exactly one call of Proxy.                            *)
THEOREM StatusIsTrueCorrect == Spec => []StatusIsTrue
  <1>1. Inv => StatusIsTrue
    BY DEF Inv
  <1>2. QED
    BY InvHolds, <1>1, PTL

(* However an answer breaks off, a client told its length does not take a  *)
(* part for the whole, although Proxy drops the error of io.Copy.          *)
THEOREM DeclaredIsWholeCorrect == Spec => []DeclaredIsWhole
  <1>1. Inv => DeclaredIsWhole
    BY DEF Inv
  <1>2. QED
    BY InvHolds, <1>1, PTL

(* The session header of an answer stands for the key that the upstream    *)
(* has got and answered to, although Proxy sets it from what it has read   *)
(* before the call, and drops the error of that reading.                   *)
THEOREM SessionIsForwardedCorrect == Spec => []SessionIsForwarded
  <1>1. Inv => SessionIsForwarded
    BY DEF Inv
  <1>2. QED
    BY InvHolds, <1>1, PTL

-----------------------------------------------------------------------------
(* Refinement: CodeGateway implements Exchange. *)

(* The body of an answer is copied only behind its status. *)
Relayed == pc["handler"] = "copy" => answers = <<"upstream">>

LEMMA RelayedInv ==
  ASSUME Inv, Relayed, [Next]_vars
  PROVE  Relayed'
  <1> USE DEF Relayed, Inv, TypeOK
  <1>1. CASE Handle
    <2>1. pc'["handler"] # "copy"
      BY <1>1 DEF Handle, Limit, Match, Check, Build, BuildFails, Ack, Return,
                  Refuse, Goto, End
    <2>2. QED
      BY <2>1
  <1>2. ASSUME NEW t \in Threads, ReadBody(t) \/ Send(t) \/ CallFails(t)
        PROVE  Relayed'
    <2>1. pc[t] # "copy" /\ pc'[t] # "copy"
      BY <1>2 DEF ReadBody, Send, CallFails, Goto, End
    <2>2. /\ \A u \in Threads \ {t} : pc'[u] = pc[u]
          /\ t = "background" => answers' = answers
      BY <1>2 DEF ReadBody, Send, CallFails, Goto, End, Write
    <2>3. QED
      BY <2>1, <2>2
  <1>3. ASSUME NEW t \in Threads, Respond(t)
        PROVE  Relayed'
    <2>1. CASE t = "handler"
      <3>1. answers = <<>> /\ answers' = Append(answers, "upstream")
        BY <1>3, <2>1 DEF Respond, Write, AnsweredOnce
      <3>2. QED
        BY <3>1
    <2>2. CASE t = "background"
      BY <1>3, <2>2 DEF Respond, Write, Goto
    <2>3. QED
      BY <2>1, <2>2
  <1>4. ASSUME NEW t \in Threads, CopyBody(t)
        PROVE  Relayed'
    BY <1>4 DEF CopyBody, Goto, End
  <1>5. CASE ClientLeaves \/ UNCHANGED vars
    BY <1>5 DEF ClientLeaves, vars
  <1>6. QED
    BY <1>1, <1>2, <1>3, <1>4, <1>5 DEF Next, Proxy

(* The handler's own steps refuse, acknowledge, or are nobody's business. *)
LEMMA HandleExchanges ==
  ASSUME Inv, Handle
  PROVE  [Between!Next]_(Between!vars)
  <1>2. UNCHANGED <<req, received, sized, reply>>
    BY DEF Handle, Limit, Match, Check, Build, BuildFails, Ack, Return, Refuse
  <1>3. pc["handler"] \in Before => received = <<>> /\ answers = <<>>
    BY DEF Inv, OneCall, AnsweredOnce
  <1>4. ASSUME NEW s \in {"400", "404", "413", "500"},
               pc["handler"] \in Before, Refuse(s)
        PROVE  Between!Refuse
    <2>1. answers' = <<s>>
      <3>1. answers = <<>>
        BY <1>3, <1>4
      <3>2. answers' = Append(answers, s)
        BY <1>4 DEF Refuse, Write
      <3>3. QED
        BY <3>1, <3>2
    <2>2. QED
      BY <1>2, <1>3, <1>4, <2>1 DEF Between!Refuse
  <1>5. CASE Ack
    <2>1. received = <<>> /\ answers = <<>> /\ answers' = <<"202">>
      BY <1>3, <1>5 DEF Ack, Write
    <2>2. Between!Acknowledge
      BY <1>2, <2>1 DEF Between!Acknowledge
    <2>3. QED
      BY <2>2 DEF Between!Next
  <1>6. CASE UNCHANGED answers
    BY <1>2, <1>6 DEF Between!vars
  <1>7. \/ Ack
        \/ UNCHANGED answers
        \/ pc["handler"] \in Before
           /\ (Refuse("413") \/ Refuse("404") \/ Refuse("400") \/ Refuse("500"))
    BY DEF Handle, Limit, Match, Check, Build, BuildFails, Return
  <1>8. QED
    BY <1>4, <1>5, <1>6, <1>7 DEF Between!Next

(* Proxy forwards, gives up, passes the answer on and then its body; in    *)
(* the background the client hears of none of it.                          *)
LEMMA ProxyExchanges ==
  ASSUME Inv, Relayed, NEW t \in Threads, Proxy(t) \/ Respond(t)
  PROVE  [Between!Next]_(Between!vars)
  <1>1. req' = req
    BY DEF Proxy, ReadBody, Send, CallFails, Respond, CopyBody
  <1>2. /\ pc["handler"] \in {"read", "send", "wait"} => answers = <<>>
        /\ pc["background"] \in Calling => answers = <<"202">>
    BY DEF Inv, AnsweredOnce, Handover
  <1>3. ASSUME Write(t, "502"), pc[t] \in {"read", "send", "wait"},
               UNCHANGED <<received, sized, reply>>
        PROVE  [Between!Next]_(Between!vars)
    <2>1. CASE t = "handler"
      <3>1. answers = <<>> /\ answers' = <<"502">>
        <4>1. answers = <<>> /\ answers' = Append(answers, "502")
          BY <1>2, <1>3, <2>1 DEF Write
        <4>2. QED
          BY <4>1
      <3>2. Between!GiveUp
        BY <1>1, <1>3, <3>1 DEF Between!GiveUp
      <3>3. QED
        BY <3>2 DEF Between!Next
    <2>2. CASE t = "background"
      BY <1>1, <1>3, <2>2 DEF Write, Between!vars
    <2>3. QED
      BY <2>1, <2>2
  <1>4. CASE ReadBody(t)
    <2>1. UNCHANGED <<received, sized, reply>> /\ pc[t] = "read"
      BY <1>4 DEF ReadBody
    <2>2. Write(t, "502") \/ UNCHANGED answers
      BY <1>4 DEF ReadBody
    <2>3. CASE UNCHANGED answers
      BY <1>1, <2>1, <2>3 DEF Between!vars
    <2>4. QED
      BY <1>3, <2>1, <2>2, <2>3
  <1>5. CASE Send(t)
    <2> DEFINE acceptable == IF req.route.table = "code" /\ req.route.validates
                             THEN {req.body} \ {"invalid"} ELSE Data
    <2>1. received = <<>> /\ pc[t] = "send" /\ received' = <<out>>
      <3>1. received = <<>> /\ pc[t] = "send" /\ received' = Append(received, out)
        BY <1>5 DEF Send, Inv, OneCall
      <3>2. QED
        BY <3>1
    <2>2. out \in acceptable
      BY <2>1 DEF Inv, TypeOK, Passed
    <2>3. answers \in {<<>>, <<"202">>}
      BY <1>2, <2>1
    <2>4. UNCHANGED <<answers, sized, reply>> /\ acceptable' = acceptable
      BY <1>1, <1>5 DEF Send
    <2>5. Between!Call
      BY <2>1, <2>2, <2>3, <2>4 DEF Between!Call
    <2>6. QED
      BY <2>5 DEF Between!Next
  <1>6. CASE CallFails(t)
    BY <1>3, <1>6 DEF CallFails
  <1>7. CASE Respond(t)
    <2>1. pc[t] = "wait" /\ UNCHANGED received /\ sized' \in BOOLEAN
      BY <1>7 DEF Respond
    <2>2. received # <<>>
      BY <2>1 DEF Inv, OneCall
    <2>3. reply'.body = reply.body
      BY <1>7 DEF Respond, Inv, TypeOK
    <2>4. \/ answers = <<>> /\ answers' = <<"upstream">>
          \/ answers = <<"202">> /\ UNCHANGED answers
      <3>1. CASE t = "handler"
        <4>1. answers = <<>> /\ answers' = Append(answers, "upstream")
          BY <1>2, <1>7, <2>1, <3>1 DEF Respond, Write
        <4>2. QED
          BY <4>1
      <3>2. CASE t = "background"
        BY <1>2, <1>7, <2>1, <3>2 DEF Respond, Write
      <3>3. QED
        BY <3>1, <3>2
    <2>5. Between!Respond
      BY <1>1, <2>1, <2>2, <2>3, <2>4 DEF Between!Respond
    <2>6. QED
      BY <2>5 DEF Between!Next
  <1>8. CASE CopyBody(t)
    <2>1. pc[t] = "copy" /\ UNCHANGED <<received, answers, sized>>
      BY <1>8 DEF CopyBody
    <2>2. CASE reply' = reply
      BY <1>1, <2>1, <2>2 DEF Between!vars
    <2>3. CASE reply' # reply
      <3>1. t = "handler"
        BY <1>8, <2>3 DEF CopyBody
      <3>2. reply.declared = sized /\ reply.body = "nothing"
        BY <2>1, <3>1 DEF Inv, Replied
      <3>3. PICK b \in {"whole", "part", "broken"} :
              /\ reply' = [reply EXCEPT !.body = b]
              /\ b = "part" => ~reply.declared
        BY <1>8, <2>3 DEF CopyBody
      <3>4. reply'.body = b
        BY <3>3 DEF Inv, TypeOK
      <3>5. answers = <<"upstream">>
        BY <2>1, <3>1 DEF Relayed
      <3>6. Between!Deliver
        BY <1>1, <2>1, <3>2, <3>3, <3>4, <3>5 DEF Between!Deliver
      <3>7. QED
        BY <3>6 DEF Between!Next
    <2>4. QED
      BY <2>2, <2>3
  <1>9. QED
    BY <1>4, <1>5, <1>6, <1>7, <1>8 DEF Proxy

(* Handler, background, client and upstream together keep to the exchange: *)
(* at most one call, with a body the validation of gateway.Handler has     *)
(* passed whole, at most one answer, and one that is true for good.        *)
THEOREM GatewayImplementsExchange == Spec => ImplementsExchange
  <1>1. Init => Between!Init
    <2> SUFFICES ASSUME Init
                 PROVE  Between!Init
      OBVIOUS
    <2>1. req.body \in Data
      BY DEF Init
    <2>2. QED
      BY <2>1 DEF Init, Between!Init
  <1>2. Init => Relayed
    BY DEF Init, Relayed
  <1>3. Inv /\ Relayed /\ [Next]_vars => Relayed'
    BY RelayedInv
  <1>4. Inv /\ Relayed /\ [Next]_vars => [Between!Next]_(Between!vars)
    <2> SUFFICES ASSUME Inv, Relayed, [Next]_vars
                 PROVE  [Between!Next]_(Between!vars)
      OBVIOUS
    <2>1. CASE ClientLeaves \/ UNCHANGED vars
      BY <2>1 DEF ClientLeaves, vars, call, Between!vars
    <2>2. QED
      BY <2>1, HandleExchanges, ProxyExchanges DEF Next
  <1>5. QED
    BY <1>1, <1>2, <1>3, <1>4, InvHolds, PTL
       DEF Spec, ImplementsExchange, Between!Spec

(* What the exchange comes to, for whatever implements it: one call and    *)
(* one answer at most, and the answer tells whether there was a call.      *)
AtMostOnce ==
    /\ received = <<>> \/ \E b \in Data : received = <<b>>
    /\ answers = <<>> \/ \E s \in Status : answers = <<s>>

THEOREM ExchangeIsTrue == ImplementsExchange => [](AtMostOnce /\ StatusIsTrue)
  <1> DEFINE acceptable == IF req.route.table = "code" /\ req.route.validates
                           THEN {req.body} \ {"invalid"} ELSE Data
             I == AtMostOnce /\ StatusIsTrue /\ acceptable \subseteq Data
  <1>1. Between!Init => I
    BY DEF Between!Init, AtMostOnce, StatusIsTrue
  <1>2. I /\ [Between!Next]_(Between!vars) => I'
    <2> SUFFICES ASSUME I, [Between!Next]_(Between!vars)
                 PROVE  I'
      OBVIOUS
    <2>1. /\ \A s \in Status : Len(<<s>>) = 1 /\ <<s>>[1] = s
          /\ \A b \in Data : Len(<<b>>) = 1
          /\ Len(<<>>) = 0
      OBVIOUS
    <2>2. ASSUME answers = <<>>, received' = received,
                 acceptable' = acceptable, NEW s \in Status, answers' = <<s>>,
                 s \in {"400", "404", "413", "500"} => received = <<>>,
                 s = "upstream" => received # <<>>
          PROVE  I'
      <3>1. acceptable' \subseteq Data
        BY <2>2
      <3>2. AtMostOnce'
        BY <2>2 DEF AtMostOnce
      <3>3. received # <<>> => Len(received) = 1
        BY <2>1 DEF AtMostOnce
      <3>4. Len(answers') = 1 /\ answers'[1] = s
        BY <2>1, <2>2
      <3>5. StatusIsTrue'
        BY <2>2, <3>3, <3>4 DEF StatusIsTrue
      <3>6. QED
        BY <3>1, <3>2, <3>5
    <2>3. CASE Between!Refuse
      BY <2>2, <2>3 DEF Between!Refuse
    <2>4. CASE Between!Acknowledge
      BY <2>2, <2>4 DEF Between!Acknowledge
    <2>5. CASE Between!Call
      <3>1. PICK b \in Data : received' = <<b>>
        BY <2>5 DEF Between!Call
      <3>2. /\ answers' = answers /\ answers \in {<<>>, <<"202">>}
            /\ acceptable' = acceptable
        BY <2>5 DEF Between!Call
      <3>3. acceptable' \subseteq Data
        BY <3>2
      <3>4. AtMostOnce'
        BY <3>1, <3>2 DEF AtMostOnce
      <3>5. \A i \in 1 .. Len(answers') : answers'[i] = "202"
        BY <2>1, <3>2
      <3>6. StatusIsTrue'
        BY <3>5 DEF StatusIsTrue
      <3>7. QED
        BY <3>3, <3>4, <3>6
    <2>6. CASE Between!GiveUp
      BY <2>2, <2>6 DEF Between!GiveUp
    <2>7. CASE Between!Respond
      <3>1. CASE answers = <<>> /\ answers' = <<"upstream">>
        BY <2>2, <2>7, <3>1 DEF Between!Respond
      <3>2. CASE UNCHANGED answers
        BY <2>7, <3>2 DEF Between!Respond, AtMostOnce, StatusIsTrue
      <3>3. QED
        BY <2>7, <3>1, <3>2 DEF Between!Respond
    <2>8. CASE Between!Deliver \/ UNCHANGED (Between!vars)
      BY <2>8 DEF Between!Deliver, Between!vars, AtMostOnce, StatusIsTrue
    <2>9. QED
      BY <2>3, <2>4, <2>5, <2>6, <2>7, <2>8 DEF Between!Next
  <1>3. QED
    BY <1>1, <1>2, PTL DEF ImplementsExchange, Between!Spec

=============================================================================
