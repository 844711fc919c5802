------------------------ MODULE DynamicGatewayProofs ------------------------
(***************************************************************************)
(* Theorems about the dynamic gateway, for every set of requests, every    *)
(* catalogue of APIs and groups and any number of edits of the tables.     *)
(***************************************************************************)
EXTENDS DynamicGateway, SequenceTheorems, TLAPS

(* Facts about headers. *)
LEMMA HeaderFacts ==
    /\ NoHeader \in FwHeader
    /\ \A h \in FwHeader : BumpTCIDSRNO(h) \in FwHeader
    /\ \A r \in Requests, m \in Makers : Made(r, m) \in FwHeader
    /\ \A r \in Requests, m \in Makers : Made(r, m).tcid = <<r, m>>
    BY DEF NoHeader, FwHeader, BumpTCIDSRNO, Made, Tcid, Code, NoTcid, NoCode,
           Makers

LEMMA BumpFacts ==
    ASSUME NEW r \in Requests, NEW m \in Makers
    PROVE  /\ BumpTCIDSRNO(Made(r, m)) \in FwHeader
           /\ BumpTCIDSRNO(Made(r, m)).tcid = <<r, m>>
           /\ BumpTCIDSRNO(Made(r, m)).srno = 2
    BY DEF FwHeader, BumpTCIDSRNO, Made, Tcid, Code

(* The tables stay tables, whoever edits them. *)
LEMMA EditedIsTables ==
    ASSUME NEW d \in Tables, NEW e \in Edited(d)
    PROVE  e \in Tables
    BY DEF Tables, Edited, Toggled

LEMMA ApprovalsAreApprovals ==
    ASSUME NEW d \in Tables
    PROVE  Approvals(d) \in SUBSET Approval
    BY DEF Tables, Approvals, Approval, Found, Role, GroupOpen, ApiOpen

(* The two headers of the gateway, as Arrive makes them. *)
LEMMA ArriveMakes ==
    ASSUME NEW r \in Requests, Arrive(r)
    PROVE  /\ trace' = [trace EXCEPT ![r] = Made(r, "trace")]
           /\ rHeader' = [rHeader EXCEPT ![r] = Made(r, "trace")]
           /\ merged' = [merged EXCEPT ![r] = Made(r, "merged")]
           /\ \E s \in Shape(r) : shape' = [shape EXCEPT ![r] = s]
<1>1. PICK s \in Shape(r) :
          LET t == EnsureTCIDForRequest(s.fw, GatewayCode, <<r, "trace">>)
          IN  /\ shape' = [shape EXCEPT ![r] = s]
              /\ trace' = [trace EXCEPT ![r] = t]
              /\ rHeader' = [rHeader EXCEPT ![r] = t]
              /\ merged' = [merged EXCEPT ![r] =
                     ApplyServerSideFields(t, BizCode(t), <<r, "merged">>)]
    BY DEF Arrive
<1>2. s.fw \in [tcid : Tcid \cup {NoTcid}, srno : Nat, code : Code]
    BY DEF Shape, NoHeader, Tcid, Code, Makers
<1>3. EnsureTCIDForRequest(s.fw, GatewayCode, <<r, "trace">>) = Made(r, "trace")
    BY <1>2 DEF EnsureTCIDForRequest, ApplyServerSideFieldsPreserveTCID, Made
<1>4. BizCode(Made(r, "trace")) = GatewayCode
    BY GatewayAssumption DEF BizCode, Made
<1>5. ApplyServerSideFields(Made(r, "trace"), GatewayCode, <<r, "merged">>)
          = Made(r, "merged")
    BY DEF ApplyServerSideFields, Made
<1>6. QED
    BY <1>1, <1>3, <1>4, <1>5

-----------------------------------------------------------------------------
(* Typing.  TypeOK needs TraceInv, because an event made from a header     *)
(* that is not there yet would have no TCID.                               *)

LEMMA EventFacts ==
    ASSUME NEW r \in Requests, NEW h \in FwHeader, NEW k \in FwHeader,
           h.tcid \in Tcid, k.tcid \in Tcid,
           NEW t \in {"11", "12", "21"}, NEW n \in {"Y", "N"}
    PROVE  Event(t, n, h, k) \in LogEvent
    BY DEF Event, LogEvent, FwHeader

LEMMA LogFacts ==
    ASSUME TypeOK, NEW r \in Requests, NEW p \in LogPoint,
           NEW e \in LogEvent, Log(r, p, e)
    PROVE  /\ events' \in [Requests -> Seq(LogEvent)]
           /\ off' \in [Requests -> SUBSET LogPoint]
<1>1. /\ Append(events[r], e) \in Seq(LogEvent)
      /\ off[r] \cup {p} \in SUBSET LogPoint
    BY AppendProperties DEF TypeOK
<1>2. /\ [events EXCEPT ![r] = Append(events[r], e)]
             \in [Requests -> Seq(LogEvent)]
      /\ [off EXCEPT ![r] = off[r] \cup {p}] \in [Requests -> SUBSET LogPoint]
    BY <1>1 DEF TypeOK
<1>3. QED
    BY <1>2 DEF TypeOK, Log

(* The headers that events are made from have a TCID by then. *)
LEMMA HeadersAtHand ==
    ASSUME TypeOK, TraceInv, NEW r \in Requests, pc[r] # "idle"
    PROVE  /\ \A h \in {trace[r], merged[r], rHeader[r]} :
                  h \in FwHeader /\ h.tcid \in Tcid /\ h.srno = 1
           /\ pc[r] \in Committed =>
                  outHeader[r][1] = trace[r] /\ outHeader[r] # <<>>
           /\ pc[r] \in {"logOutboundResponse", "logInboundResponse"} =>
                  wHeader[r] \in FwHeader /\ wHeader[r].tcid \in Tcid
<1>1. /\ trace[r] = Made(r, "trace") /\ merged[r] = Made(r, "merged")
      /\ rHeader[r] \in {trace[r], merged[r]}
      /\ outHeader[r] \in {<<>>, <<trace[r], merged[r]>>}
      /\ pc[r] \in Committed => outHeader[r] # <<>>
      /\ pc[r] \in {"logOutboundResponse", "logInboundResponse"} =>
             wHeader[r] = BumpTCIDSRNO(trace[r])
    BY DEF TraceInv, Traced
<1>2. \A m \in {"trace", "merged"} :
          /\ Made(r, m) \in FwHeader
          /\ Made(r, m).tcid \in Tcid
          /\ Made(r, m).srno = 1
    BY DEF Made, FwHeader, Tcid, Code, Makers
<1>3. /\ BumpTCIDSRNO(Made(r, "trace")) \in FwHeader
      /\ BumpTCIDSRNO(Made(r, "trace")).tcid \in Tcid
    <2>1. "trace" \in Makers
        BY DEF Makers
    <2>2. <<r, "trace">> \in Tcid
        BY <2>1 DEF Tcid
    <2>3. QED
        BY <2>1, <2>2, BumpFacts
<1>4. QED
    BY <1>1, <1>2, <1>3

(* How the variables that few actions change fare. *)
LEMMA CheckTypes ==
    ASSUME TypeOK, NEW r \in Requests, Check(r)
    PROVE  TypeOK'
<1> USE DEF TypeOK, PC, Outcome, Status
<1>1. CASE ParseBody(r)
    BY <1>1 DEF ParseBody, Continue, Refuse, checking, pass, past
<1>2. CASE FindApi(r)
    <2>1. api' \in [Requests -> Apis \cup {NoApi}]
        BY <1>2 DEF FindApi, FindRequestData, Tables
    <2>2. QED
        BY <1>2, <2>1 DEF FindApi, Continue, Refuse, checking, pass, past
<1>3. CASE CheckRole(r)
    BY <1>3 DEF CheckRole, Continue, Refuse, checking, pass, past
<1>4. CASE CheckGroup(r)
    BY <1>4 DEF CheckGroup, Continue, Refuse, checking, pass, past
<1>5. CASE CheckApi(r)
    BY <1>5 DEF CheckApi, Continue, Refuse, checking, pass, past
<1>6. CASE Prepare(r)
    <2>1. /\ rHeader' \in [Requests -> FwHeader]
          /\ outHeader' \in [Requests -> {<<>>} \cup FwHeader \X FwHeader]
        <3>1. rHeader[r] \in FwHeader /\ merged[r] \in FwHeader
            OBVIOUS
        <3>2. <<rHeader[r], merged[r]>> \in {<<>>} \cup FwHeader \X FwHeader
            BY <3>1
        <3>3. [outHeader EXCEPT ![r] = <<rHeader[r], merged[r]>>]
                  \in [Requests -> {<<>>} \cup FwHeader \X FwHeader]
            <4> DEFINE T == {<<>>} \cup FwHeader \X FwHeader
            <4>1. outHeader \in [Requests -> T]
                OBVIOUS
            <4>2. <<rHeader[r], merged[r]>> \in T
                BY <3>2
            <4> HIDE DEF T
            <4>3. [outHeader EXCEPT ![r] = <<rHeader[r], merged[r]>>]
                      \in [Requests -> T]
                BY <4>1, <4>2
            <4>4. QED
                BY <4>3 DEF T
        <3>4. [rHeader EXCEPT ![r] = merged[r]] \in [Requests -> FwHeader]
            BY <3>1
        <3>5. /\ \/ rHeader' = rHeader
                 \/ rHeader' = [rHeader EXCEPT ![r] = merged[r]]
              /\ \/ outHeader' = outHeader
                 \/ outHeader' = [outHeader EXCEPT ![r] =
                                      <<rHeader[r], merged[r]>>]
            BY <1>6 DEF Prepare
        <3>6. rHeader' \in [Requests -> FwHeader]
            BY <3>4, <3>5
        <3>7. outHeader' \in [Requests -> {<<>>} \cup FwHeader \X FwHeader]
            BY <3>3, <3>5
        <3>8. QED
            BY <3>6, <3>7
    <2>2. QED
        BY <1>6, <2>1 DEF Prepare, Continue, Refuse, checking, pass, past
<1>7. QED
    BY <1>1, <1>2, <1>3, <1>4, <1>5, <1>6 DEF Check

(* What is left to show for a step that leaves the first half of the       *)
(* variables alone.                                                        *)
LEMMA LoggingTypes ==
    ASSUME TypeOK, UNCHANGED logging, pc' \in [Requests -> PC],
           outcome' \in [Requests -> Outcome],
           wHeader' \in [Requests -> FwHeader],
           reply' \in [Requests -> FwHeader],
           events' \in [Requests -> Seq(LogEvent)],
           off' \in [Requests -> SUBSET LogPoint]
    PROVE  TypeOK'
    BY DEF TypeOK, logging, pass

LEMMA AnswerTypes ==
    ASSUME TypeOK, NEW r \in Requests, NEW to \in PC, NEW result \in Outcome,
           NEW h, Answer(r, to, result, h)
    PROVE  /\ pc' \in [Requests -> PC]
           /\ outcome' \in [Requests -> Outcome]
           /\ wHeader' \in [Requests -> FwHeader]
           /\ reply' \in [Requests -> FwHeader]
<1>1. WriteHeader(r, h) \in FwHeader
    BY HeaderFacts DEF TypeOK, WriteHeader
<1>2. QED
    BY <1>1 DEF TypeOK, Answer

(* The steps that log, call or answer. *)
LEMMA StepTypes ==
    ASSUME TypeOK, TraceInv, NEW r \in Requests, Step(r)
    PROVE  TypeOK'
<1>0. /\ events \in [Requests -> Seq(LogEvent)]
      /\ off \in [Requests -> SUBSET LogPoint]
      /\ pc \in [Requests -> PC]
      /\ outcome \in [Requests -> Outcome]
      /\ upHeader \in [Requests -> FwHeader]
      /\ wHeader \in [Requests -> FwHeader]
      /\ reply \in [Requests -> FwHeader]
    BY DEF TypeOK
<1>1. CASE LogInboundRequest(r)
    <2>1. Event("11", "Y", merged[r], rHeader[r]) \in LogEvent
        BY <1>1, HeadersAtHand, EventFacts DEF LogInboundRequest, Goto
    <2>2. /\ events' \in [Requests -> Seq(LogEvent)]
          /\ off' \in [Requests -> SUBSET LogPoint]
        BY <1>1, <2>1, LogFacts DEF LogInboundRequest, LogPoint
    <2>3. pc' \in [Requests -> PC]
        BY <1>0, <1>1 DEF LogInboundRequest, Goto, PC
    <2>4. UNCHANGED <<logging, wHeader, outcome, reply>>
        BY <1>1 DEF LogInboundRequest
    <2>5. QED
        BY <1>0, <2>2, <2>3, <2>4, LoggingTypes
<1>2. CASE Check(r)
    BY <1>2, CheckTypes
<1>3. CASE LogOutboundRequest(r)
    <2>1. pc' \in [Requests -> PC]
        BY <1>0, <1>3 DEF LogOutboundRequest, PC
    <2>2. /\ events' \in [Requests -> Seq(LogEvent)]
          /\ off' \in [Requests -> SUBSET LogPoint]
        <3>1. CASE shape[r].method = "POST" /\ shape[r].body = "noData"
            <4>1. [off EXCEPT ![r] = off[r] \cup {"outbound.request"}]
                      \in [Requests -> SUBSET LogPoint]
                BY <1>0 DEF LogPoint
            <4>2. QED
                BY <1>0, <1>3, <3>1, <4>1 DEF LogOutboundRequest, past
        <3>2. CASE ~(shape[r].method = "POST" /\ shape[r].body = "noData")
            <4>1. outHeader[r][1] = trace[r] /\ trace[r] \in FwHeader
                      /\ trace[r].tcid \in Tcid
                BY <1>3, HeadersAtHand DEF LogOutboundRequest, Committed
            <4>2. Event("21", "Y", outHeader[r][1], outHeader[r][1])
                      \in LogEvent
                BY <4>1, EventFacts
            <4>3. Log(r, "outbound.request",
                      Event("21", "Y", outHeader[r][1], outHeader[r][1]))
                BY <1>3, <3>2 DEF LogOutboundRequest
            <4>4. QED
                BY <4>2, <4>3, LogFacts DEF LogPoint
        <3>3. QED
            BY <3>1, <3>2
    <2>3. UNCHANGED <<logging, wHeader, outcome, reply>>
        BY <1>3 DEF LogOutboundRequest
    <2>4. QED
        BY <1>0, <2>1, <2>2, <2>3, LoggingTypes
<1>4. CASE CallFails(r)
    BY <1>4 DEF CallFails, Refuse, calling, pass, past, TypeOK, PC, Outcome,
                Status
<1>5. CASE CallReturns(r)
    <2>1. upHeader' \in [Requests -> FwHeader]
        <3>1. PICK h \in {NoHeader, [tcid |-> <<r, "upstream">>, srno |-> 7,
                                     code |-> "SMP"]} :
                  upHeader' = [upHeader EXCEPT ![r] = h]
            BY <1>5 DEF CallReturns
        <3>2. h \in FwHeader
            BY HeaderFacts DEF FwHeader, Tcid, Makers, Code
        <3>3. QED
            BY <1>0, <3>1, <3>2
    <2>2. QED
        BY <1>5, <2>1 DEF CallReturns, Continue, calling, pass, past, TypeOK, PC
<1>6. CASE ReturnError(r)
    <2> DEFINE h == [merged[r] EXCEPT !.srno = BumpBareNumber(@)]
    <2>1. /\ pc[r] = "refused"
          /\ Log(r, "inbound.response", Event("12", "N", h, rHeader[r]))
          /\ Answer(r, "answered", outcome[r], NoHeader)
          /\ UNCHANGED logging
        BY <1>6 DEF ReturnError
    <2>2. h = merged[r]
        BY DEF BumpBareNumber, TypeOK, FwHeader
    <2>3. Event("12", "N", h, rHeader[r]) \in LogEvent
        BY <2>1, <2>2, HeadersAtHand, EventFacts
    <2>4. /\ events' \in [Requests -> Seq(LogEvent)]
          /\ off' \in [Requests -> SUBSET LogPoint]
        BY <2>1, <2>3, LogFacts DEF LogPoint
    <2>5. /\ pc' \in [Requests -> PC]
          /\ outcome' \in [Requests -> Outcome]
          /\ wHeader' \in [Requests -> FwHeader]
          /\ reply' \in [Requests -> FwHeader]
        BY <1>0, <2>1, AnswerTypes DEF PC
    <2>6. QED
        BY <2>1, <2>4, <2>5, LoggingTypes
<1>7. CASE ReadFails(r) \/ PassOn(r)
    <2>1. PICK to \in PC, result \in Outcome, h \in {NoHeader,
                                              BumpTCIDSRNO(upHeader[r])} :
              Answer(r, to, result, h)
        BY <1>7 DEF ReadFails, PassOn, PC, Outcome
    <2>2. UNCHANGED <<logging, past>>
        BY <1>7 DEF ReadFails, PassOn
    <2>3. QED
        BY <1>0, <2>1, <2>2, AnswerTypes, LoggingTypes DEF past
<1>8. CASE LogOutboundResponse(r) \/ LogInboundResponse(r)
    <2>1. PICK p \in LogPoint :
              Log(r, p, Event("12", "Y", wHeader[r], wHeader[r]))
        BY <1>8 DEF LogOutboundResponse, LogInboundResponse, LogPoint
    <2>2. pc[r] \in {"logOutboundResponse", "logInboundResponse"}
        BY <1>8 DEF LogOutboundResponse, LogInboundResponse, Goto
    <2>3. Event("12", "Y", wHeader[r], wHeader[r]) \in LogEvent
        BY <2>2, HeadersAtHand, EventFacts
    <2>4. /\ events' \in [Requests -> Seq(LogEvent)]
          /\ off' \in [Requests -> SUBSET LogPoint]
        BY <2>1, <2>3, LogFacts
    <2>5. wHeader' \in [Requests -> FwHeader]
        <3>1. BumpTCIDSRNO(trace[r]) \in FwHeader
            BY HeaderFacts DEF TypeOK
        <3>2. QED
            BY <1>0, <1>8, <3>1
                DEF LogOutboundResponse, LogInboundResponse, WriteHeader
    <2>6. /\ UNCHANGED <<logging, outcome, reply>>
          /\ pc' \in [Requests -> PC]
        BY <1>0, <1>8
            DEF LogOutboundResponse, LogInboundResponse, Goto, PC
    <2>7. QED
        BY <1>0, <2>4, <2>5, <2>6, LoggingTypes
<1>9. QED
    BY <1>1, <1>2, <1>3, <1>4, <1>5, <1>6, <1>7, <1>8 DEF Step

LEMMA ArriveTypes ==
    ASSUME TypeOK, NEW r \in Requests, Arrive(r)
    PROVE  TypeOK'
<1>1. Made(r, "trace") \in FwHeader /\ Made(r, "merged") \in FwHeader
    BY HeaderFacts DEF Makers
<1>2. /\ trace' \in [Requests -> FwHeader]
      /\ rHeader' \in [Requests -> FwHeader]
      /\ merged' \in [Requests -> FwHeader]
    <2>1. /\ trace' = [trace EXCEPT ![r] = Made(r, "trace")]
          /\ rHeader' = [rHeader EXCEPT ![r] = Made(r, "trace")]
          /\ merged' = [merged EXCEPT ![r] = Made(r, "merged")]
        BY ArriveMakes
    <2>2. /\ trace \in [Requests -> FwHeader]
          /\ rHeader \in [Requests -> FwHeader]
          /\ merged \in [Requests -> FwHeader]
        BY DEF TypeOK
    <2>3. QED
        BY <1>1, <2>1, <2>2
<1>3. DOMAIN shape' = Requests /\ \A q \in Requests : shape'[q] \in Shape(q)
    <2>1. PICK s \in Shape(r) : shape' = [shape EXCEPT ![r] = s]
        BY ArriveMakes
    <2>2. DOMAIN shape = Requests /\ \A q \in Requests : shape[q] \in Shape(q)
        BY DEF TypeOK
    <2>3. QED
        BY <2>1, <2>2
<1>4. seen' \in [Requests -> SUBSET Approval]
    <2>1. Approvals(db) \in SUBSET Approval
        BY ApprovalsAreApprovals DEF TypeOK
    <2>2. QED
        BY <2>1 DEF TypeOK, Arrive
<1>5. pc' \in [Requests -> PC]
    BY DEF TypeOK, Arrive, PC
<1>6. UNCHANGED <<db, edits, api, outHeader, upHeader, wHeader, outcome, reply,
                  past>>
    BY DEF Arrive
<1>7. QED
    BY <1>2, <1>3, <1>4, <1>5, <1>6 DEF TypeOK, past

LEMMA EditTypes ==
    ASSUME TypeOK, EditTables
    PROVE  TypeOK'
<1>1. db' \in Tables
    BY EditedIsTables DEF TypeOK, EditTables
<1>2. edits' \in 0 .. MaxEdits
    BY GatewayAssumption DEF TypeOK, EditTables
<1>3. seen' \in [Requests -> SUBSET Approval]
    <2>1. Approvals(db') \in SUBSET Approval
        BY <1>1, ApprovalsAreApprovals
    <2>2. \A r \in Requests : seen[r] \in SUBSET Approval
        BY DEF TypeOK
    <2>3. QED
        BY <2>1, <2>2 DEF EditTables
<1>4. UNCHANGED <<pc, pass, rHeader, api, outHeader, upHeader, wHeader,
                  outcome, reply, past>>
    BY DEF EditTables
<1>5. QED
    BY <1>1, <1>2, <1>3, <1>4 DEF TypeOK, pass, past

LEMMA InitTypes ==
    ASSUME Init
    PROVE  TypeOK
<1>1. db \in Tables
    <2>1. PICK a \in Apis, logs \in SUBSET LogPoint :
              db = [path |-> a, apiControlled |-> {},
                    groups |-> [g \in Groups |-> "open"],
                    roles |-> Apis \X {GatewayCode}, logs |-> logs]
        BY DEF Init
    <2>2. /\ [g \in Groups |-> "open"]
                 \in [Groups -> {"open", "controlled", "missing"}]
          /\ Apis \X {GatewayCode} \in SUBSET (Apis \X Code)
        BY DEF Code
    <2>3. QED
        BY <2>1, <2>2 DEF Tables
<1>2. DOMAIN shape = Requests /\ \A r \in Requests : shape[r] \in Shape(r)
    BY DEF Init, Shape, Body
<1>3. events \in [Requests -> Seq(LogEvent)]
    BY EmptySeq DEF Init
<1>4. /\ off \in [Requests -> SUBSET LogPoint]
      /\ seen \in [Requests -> SUBSET Approval]
      /\ outHeader \in [Requests -> {<<>>} \cup FwHeader \X FwHeader]
    BY DEF Init
<1>5. /\ trace \in [Requests -> FwHeader] /\ merged \in [Requests -> FwHeader]
      /\ rHeader \in [Requests -> FwHeader]
      /\ upHeader \in [Requests -> FwHeader]
      /\ wHeader \in [Requests -> FwHeader] /\ reply \in [Requests -> FwHeader]
    BY HeaderFacts DEF Init
<1>6. /\ edits \in 0 .. MaxEdits
      /\ pc \in [Requests -> PC]
      /\ api \in [Requests -> Apis \cup {NoApi}]
      /\ outcome \in [Requests -> Outcome]
    BY GatewayAssumption DEF Init, PC, Outcome
<1>7. QED
    BY <1>1, <1>2, <1>3, <1>4, <1>5, <1>6 DEF TypeOK

-----------------------------------------------------------------------------
(* A step of a request leaves the other requests alone. *)
LEMMA TracedFrame ==
    ASSUME TypeOK, NEW r \in Requests, Arrive(r) \/ Step(r),
           NEW q \in Requests, q # r, Traced(q)
    PROVE  Traced(q)'
<1>1. /\ pc'[q] = pc[q] /\ trace'[q] = trace[q] /\ merged'[q] = merged[q]
      /\ rHeader'[q] = rHeader[q] /\ outHeader'[q] = outHeader[q]
      /\ reply'[q] = reply[q] /\ wHeader'[q] = wHeader[q]
    <2>1. CASE Arrive(r)
        <3>1. /\ trace'[q] = trace[q] /\ merged'[q] = merged[q]
              /\ rHeader'[q] = rHeader[q]
            BY <2>1, ArriveMakes DEF TypeOK
        <3>2. QED
            BY <2>1, <3>1 DEF Arrive, TypeOK
    <2>2. CASE Check(r)
        BY <2>2 DEF Check, ParseBody, FindApi, CheckRole, CheckGroup, CheckApi,
                    Prepare, Continue, Refuse, checking, pass, TypeOK
    <2>3. CASE \/ LogInboundRequest(r) \/ LogOutboundRequest(r)
               \/ LogOutboundResponse(r) \/ LogInboundResponse(r)
        BY <2>3 DEF LogInboundRequest, LogOutboundRequest, LogOutboundResponse,
                    LogInboundResponse, Goto, logging, pass, TypeOK
    <2>4. CASE CallFails(r) \/ CallReturns(r)
        BY <2>4 DEF CallFails, CallReturns, Refuse, Continue, calling, pass,
                    TypeOK
    <2>5. CASE ReturnError(r) \/ ReadFails(r) \/ PassOn(r)
        BY <2>5 DEF ReturnError, ReadFails, PassOn, Answer, logging, pass,
                    TypeOK
    <2>6. QED
        BY <2>1, <2>2, <2>3, <2>4, <2>5 DEF Step
<1>2. QED
    BY <1>1 DEF Traced

LEMMA TracedStep ==
    ASSUME TypeOK, NEW r \in Requests, Arrive(r) \/ Step(r), Traced(r)
    PROVE  Traced(r)'
<1> USE DEF TypeOK, BeforeCall, Committed
<1>1. CASE Arrive(r)
    <2>1. /\ trace'[r] = Made(r, "trace") /\ merged'[r] = Made(r, "merged")
          /\ rHeader'[r] = Made(r, "trace")
        BY <1>1, ArriveMakes
    <2>2. /\ pc'[r] = "logInbound" /\ outHeader'[r] = outHeader[r]
          /\ pc[r] = "idle"
        BY <1>1 DEF Arrive
    <2>3. QED
        BY <2>1, <2>2 DEF Traced
<1>2. CASE ParseBody(r) \/ FindApi(r) \/ CheckRole(r) \/ CheckGroup(r)
           \/ CheckApi(r)
    <2>1. /\ pc[r] \in BeforeCall \ {"logInbound"}
          /\ pc'[r] \in BeforeCall \cup {"refused"}
          /\ UNCHANGED checking
        BY <1>2 DEF ParseBody, FindApi, CheckRole, CheckGroup, CheckApi,
                    Continue, Refuse
    <2>2. QED
        BY <2>1 DEF Traced, checking, pass
<1>3. CASE Prepare(r)
    <2>1. /\ pc[r] = "prepare" /\ pc'[r] \in {"refused", "logOutbound"}
          /\ UNCHANGED <<pass, wHeader, reply>>
        BY <1>3 DEF Prepare, Continue, Refuse
    <2>2. \/ rHeader'[r] = rHeader[r] /\ outHeader'[r] = outHeader[r]
             /\ pc'[r] = "refused"
          \/ rHeader'[r] = merged[r]
             /\ outHeader'[r] = <<rHeader[r], merged[r]>>
        BY <1>3 DEF Prepare, Continue, Refuse
    <2>3. <<rHeader[r], merged[r]>> # <<>>
        OBVIOUS
    <2>4. QED
        BY <2>1, <2>2, <2>3 DEF Traced, pass
<1>4. CASE LogInboundRequest(r) \/ LogOutboundRequest(r)
    <2>1. /\ pc[r] \in {"logInbound", "logOutbound"}
          /\ pc[r] = "logInbound" => pc'[r] = "parse"
          /\ pc[r] = "logOutbound" => pc'[r] \in {"call", "panicked"}
          /\ UNCHANGED <<logging, wHeader, reply>>
        BY <1>4 DEF LogInboundRequest, LogOutboundRequest, Goto
    <2>2. QED
        BY <2>1 DEF Traced, logging, pass
<1>5. CASE CallFails(r) \/ CallReturns(r)
    <2>1. /\ pc[r] = "call" /\ pc'[r] \in {"refused", "read"}
          /\ UNCHANGED calling
        BY <1>5 DEF CallFails, CallReturns, Refuse, Continue
    <2>2. QED
        BY <2>1 DEF Traced, calling, pass
<1>6. CASE ReturnError(r) \/ ReadFails(r) \/ PassOn(r)
    <2>1. /\ pc[r] \in {"refused", "read"}
          /\ pc'[r] \in {"answered", "logOutboundResponse"}
          /\ pc[r] = "refused" => pc'[r] = "answered"
          /\ reply'[r] = BumpTCIDSRNO(trace[r])
          /\ wHeader'[r] = BumpTCIDSRNO(trace[r])
          /\ UNCHANGED logging
        BY <1>6 DEF ReturnError, ReadFails, PassOn, Answer, WriteHeader
    <2>2. QED
        BY <2>1 DEF Traced, logging, pass
<1>7. CASE LogOutboundResponse(r) \/ LogInboundResponse(r)
    <2>1. /\ pc[r] \in {"logOutboundResponse", "logInboundResponse"}
          /\ pc'[r] \in {"logInboundResponse", "answered"}
          /\ wHeader'[r] \in {wHeader[r], BumpTCIDSRNO(trace[r])}
          /\ UNCHANGED <<logging, reply>>
        BY <1>7 DEF LogOutboundResponse, LogInboundResponse, Goto, WriteHeader
    <2>2. QED
        BY <2>1 DEF Traced, logging, pass
<1>8. QED
    BY <1>1, <1>2, <1>3, <1>4, <1>5, <1>6, <1>7 DEF Step, Check

LEMMA InvNext ==
    ASSUME TypeOK, TraceInv, [Next]_vars
    PROVE  TypeOK' /\ TraceInv'
<1>1. CASE \E r \in Requests : Arrive(r) \/ Step(r)
    <2>1. PICK r \in Requests : Arrive(r) \/ Step(r)
        BY <1>1
    <2>2. TypeOK'
        BY <2>1, ArriveTypes, StepTypes
    <2>3. ASSUME NEW q \in Requests
          PROVE  Traced(q)'
        BY <2>1, TracedStep, TracedFrame DEF TraceInv
    <2>4. TraceInv'
        BY <2>3 DEF TraceInv
    <2>5. QED
        BY <2>2, <2>4
<1>2. CASE EditTables
    BY <1>2, EditTypes DEF TraceInv, Traced, EditTables, pass
<1>3. CASE UNCHANGED vars
    BY <1>3 DEF TypeOK, TraceInv, Traced, vars, pass, past
<1>4. QED
    BY <1>1, <1>2, <1>3 DEF Next

(* Every variable of the gateway keeps its type; no event is published     *)
(* without a TCID.                                                         *)
THEOREM TypeCorrect == Spec => []TypeOK
<1>1. Init => TypeOK /\ TraceInv
    BY InitTypes DEF Init, TraceInv, Traced
<1>2. TypeOK /\ TraceInv /\ [Next]_vars => (TypeOK /\ TraceInv)'
    BY InvNext
<1>3. QED
    BY <1>1, <1>2, PTL DEF Spec

THEOREM TraceInvCorrect == Spec => []TraceInv
<1>1. Init => TypeOK /\ TraceInv
    BY InitTypes DEF Init, TraceInv, Traced
<1>2. TypeOK /\ TraceInv /\ [Next]_vars => (TypeOK /\ TraceInv)'
    BY InvNext
<1>3. QED
    BY <1>1, <1>2, PTL DEF Spec

(* Whatever the database, the upstream and the other requests do: every    *)
(* answer bears the id of the header FwHeaderTrace made for its request,   *)
(* one hop on, and the request went upstream under this id.                *)
THEOREM AnswerIsTracedCorrect == Spec => []AnswerIsTraced
<1>1. TraceInv => AnswerIsTraced
    <2> SUFFICES ASSUME TraceInv, NEW r \in Requests, pc[r] = "answered"
                 PROVE  /\ reply[r].tcid = trace[r].tcid
                        /\ reply[r].srno = trace[r].srno + 1
                        /\ outHeader[r] # <<>> =>
                               reply[r].tcid = outHeader[r][1].tcid
        BY DEF AnswerIsTraced
    <2>1. /\ trace[r] = Made(r, "trace")
          /\ reply[r] = BumpTCIDSRNO(trace[r])
          /\ outHeader[r] \in {<<>>, <<trace[r], merged[r]>>}
        BY DEF TraceInv, Traced
    <2>2. /\ reply[r].tcid = <<r, "trace">> /\ reply[r].srno = 2
          /\ trace[r].srno = 1 /\ trace[r].tcid = <<r, "trace">>
        <3>1. "trace" \in Makers
            BY DEF Makers
        <3>2. Made(r, "trace").srno = 1 /\ Made(r, "trace").tcid = <<r, "trace">>
            BY DEF Made
        <3>3. QED
            BY <2>1, <3>1, <3>2, BumpFacts
    <2>3. outHeader[r] # <<>> => outHeader[r][1] = trace[r]
        BY <2>1
    <2>4. QED
        BY <2>2, <2>3
<1>2. QED
    BY <1>1, TraceInvCorrect, PTL

-----------------------------------------------------------------------------
(* Approval.  What the results of the queries mean. *)

LEMMA ApprovalFacts ==
    ASSUME NEW d \in Tables
    PROVE  /\ \A a \in FindRequestData(d) :
                  a # Error => a \in Apis /\ Found(a) \in Approvals(d)
           /\ \A a \in Apis, c \in Code :
                  "yes" \in ExistUseAPIList(d, a, c) =>
                      Role(a, c) \in Approvals(d)
           /\ \A a \in Apis :
                  "yes" \in ExistAPIGroup(d, a) => GroupOpen(a) \in Approvals(d)
           /\ "yes" \in ExistAPI(d) => ApiOpen \in Approvals(d)
<1>1. \A a \in FindRequestData(d) :
          a # Error => a \in Apis /\ Found(a) \in Approvals(d)
    BY DEF FindRequestData, Approvals, Tables
<1>2. ASSUME NEW a \in Apis, NEW c \in Code,
             "yes" \in ExistUseAPIList(d, a, c)
      PROVE  Role(a, c) \in Approvals(d)
    <2>1. <<a, c>> \in d.roles
        BY <1>2 DEF ExistUseAPIList, Error
    <2>2. Role(a, c) \in {Role(x[1], x[2]) : x \in d.roles}
        BY <2>1
    <2>3. QED
        BY <2>2 DEF Approvals
<1>3. ASSUME NEW a \in Apis, "yes" \in ExistAPIGroup(d, a)
      PROVE  GroupOpen(a) \in Approvals(d)
    <2>1. d.groups[GroupOf[a]] = "open"
        <3>1. d.groups[GroupOf[a]] \in {"open", "controlled", "missing"}
            BY RepositoryAssumption DEF Tables
        <3>2. QED
            BY <1>3, <3>1 DEF ExistAPIGroup, Error
    <2>2. QED
        BY <2>1 DEF Approvals
<1>4. "yes" \in ExistAPI(d) => ApiOpen \in Approvals(d)
    BY DEF ExistAPI, Error, Approvals
<1>5. QED
    BY <1>1, <1>2, <1>3, <1>4

LEMMA ApprovedFrame ==
    ASSUME TypeOK, NEW r \in Requests, Arrive(r) \/ Step(r),
           NEW q \in Requests, q # r, Approved(q)
    PROVE  Approved(q)'
<1>1. /\ pc'[q] = pc[q] /\ outcome'[q] = outcome[q] /\ trace'[q] = trace[q]
      /\ api'[q] = api[q] /\ seen'[q] = seen[q] /\ db' = db
    <2>1. CASE Arrive(r)
        <3>1. trace'[q] = trace[q]
            BY <2>1, ArriveMakes DEF TypeOK
        <3>2. QED
            BY <2>1, <3>1 DEF Arrive, TypeOK
    <2>2. CASE Check(r)
        <3>1. CASE CheckApi(r)
            BY <3>1 DEF CheckApi, Continue, Refuse, checking, pass, TypeOK
        <3>2. CASE ParseBody(r) \/ FindApi(r) \/ CheckRole(r)
                   \/ CheckGroup(r) \/ Prepare(r)
            BY <3>2 DEF ParseBody, FindApi, CheckRole, CheckGroup, Prepare,
                        Continue, Refuse, checking, pass, TypeOK
        <3>3. QED
            BY <2>2, <3>1, <3>2 DEF Check
    <2>3. CASE \/ LogInboundRequest(r) \/ LogOutboundRequest(r)
               \/ LogOutboundResponse(r) \/ LogInboundResponse(r)
        BY <2>3 DEF LogInboundRequest, LogOutboundRequest, LogOutboundResponse,
                    LogInboundResponse, Goto, logging, pass, TypeOK
    <2>4. CASE CallFails(r) \/ CallReturns(r)
        BY <2>4 DEF CallFails, CallReturns, Refuse, Continue, calling, pass,
                    TypeOK
    <2>5. CASE ReturnError(r) \/ ReadFails(r) \/ PassOn(r)
        BY <2>5 DEF ReturnError, ReadFails, PassOn, Answer, logging, pass,
                    TypeOK
    <2>6. QED
        BY <2>1, <2>2, <2>3, <2>4, <2>5 DEF Step
<1>2. QED
    BY <1>1 DEF Approved, Running, Sent

LEMMA ApprovedCheck ==
    ASSUME TypeOK, TraceInv, NEW r \in Requests, Check(r), Approved(r)
    PROVE  Approved(r)'
<1> USE DEF Committed, Error
<1>0. /\ db \in Tables /\ DOMAIN pc = Requests /\ DOMAIN outcome = Requests
      /\ DOMAIN api = Requests
      /\ trace[r] \in FwHeader
    BY DEF TypeOK
<1>1. /\ pc[r] \in {"parse", "findRequestData", "useApi", "apiGroup", "api",
                   "prepare"}
      /\ db' = db /\ seen' = seen /\ trace' = trace
    BY DEF Check, ParseBody, FindApi, CheckRole, CheckGroup, CheckApi, Prepare,
           checking, pass
<1>2. outcome[r] = "none" /\ Approvals(db) \subseteq seen[r]
    BY <1>1 DEF Approved, Running
<1>3. CASE /\ UNCHANGED api
           /\ \E status \in {"badRequest", "notFound", "serverError"} :
                  Refuse(r, status)
    <2>1. /\ pc'[r] = "refused"
          /\ outcome'[r] \in {"badRequest", "notFound", "serverError"}
        BY <1>0, <1>3 DEF Refuse
    <2>2. QED
        BY <1>1, <1>2, <1>3, <2>1 DEF Approved, Running, Sent
<1>4. CASE ParseBody(r)
    <2>1. CASE shape[r].body = "unusable"
        BY <1>3, <1>4, <2>1 DEF ParseBody
    <2>2. CASE shape[r].body # "unusable"
        BY <1>0, <1>1, <1>2, <1>4, <2>2
            DEF ParseBody, Continue, Approved, Running, Sent
    <2>3. QED
        BY <2>1, <2>2
<1>5. CASE FindApi(r)
    <2>1. PICK a \in FindRequestData(db) :
              IF a = Error
              THEN Refuse(r, "serverError") /\ UNCHANGED api
              ELSE Continue(r, "useApi") /\ api' = [api EXCEPT ![r] = a]
        BY <1>5 DEF FindApi
    <2>2. CASE a = Error
        BY <1>3, <2>1, <2>2
    <2>3. CASE a # Error
        <3>1. a \in Apis /\ Found(a) \in seen[r]
            BY <1>0, <1>2, <2>3, ApprovalFacts
        <3>2. api'[r] = a /\ pc'[r] = "useApi" /\ outcome' = outcome
            BY <1>0, <2>1, <2>3 DEF Continue
        <3>3. QED
            BY <1>1, <1>2, <3>1, <3>2 DEF Approved, Running, Sent
    <2>4. QED
        BY <2>2, <2>3
<1>6. CASE CheckRole(r)
    <2>1. PICK ok \in ExistUseAPIList(db, api[r], BizCode(trace[r])) :
              IF ok = "yes" THEN Continue(r, "apiGroup")
                            ELSE Refuse(r, "serverError")
        BY <1>6 DEF CheckRole
    <2>2. api' = api /\ pc[r] = "useApi"
        BY <1>6 DEF CheckRole
    <2>3. CASE ok # "yes"
        BY <1>3, <2>1, <2>2, <2>3
    <2>4. CASE ok = "yes"
        <3>1. api[r] \in Apis /\ Found(api[r]) \in seen[r]
            BY <2>2 DEF Approved
        <3>2. trace[r].code = GatewayCode
            <4>1. trace[r] = Made(r, "trace")
                BY <2>2 DEF TraceInv, Traced
            <4>2. QED
                BY <4>1 DEF Made
        <3>3. BizCode(trace[r]) = trace[r].code /\ trace[r].code \in Code
            BY <3>2, GatewayAssumption DEF BizCode, Code
        <3>4. Role(api[r], trace[r].code) \in seen[r]
            BY <1>0, <1>2, <2>4, <3>1, <3>3, ApprovalFacts
        <3>5. pc'[r] = "apiGroup" /\ outcome' = outcome
            BY <1>0, <2>1, <2>4 DEF Continue
        <3>6. QED
            BY <1>1, <1>2, <2>2, <3>1, <3>4, <3>5 DEF Approved, Running, Sent
    <2>5. QED
        BY <2>3, <2>4
<1>7. CASE CheckGroup(r)
    <2>1. PICK ok \in ExistAPIGroup(db, api[r]) :
              IF ok = "yes" THEN Continue(r, "api") ELSE Refuse(r, "serverError")
        BY <1>7 DEF CheckGroup
    <2>2. api' = api /\ pc[r] = "apiGroup"
        BY <1>7 DEF CheckGroup
    <2>3. CASE ok # "yes"
        BY <1>3, <2>1, <2>2, <2>3
    <2>4. CASE ok = "yes"
        <3>1. /\ api[r] \in Apis /\ Found(api[r]) \in seen[r]
              /\ Role(api[r], trace[r].code) \in seen[r]
            BY <2>2 DEF Approved
        <3>2. GroupOpen(api[r]) \in seen[r]
            BY <1>0, <1>2, <2>4, <3>1, ApprovalFacts
        <3>3. pc'[r] = "api" /\ outcome' = outcome
            BY <1>0, <2>1, <2>4 DEF Continue
        <3>4. QED
            BY <1>1, <1>2, <2>2, <3>1, <3>2, <3>3 DEF Approved, Running, Sent
    <2>5. QED
        BY <2>3, <2>4
<1>8. CASE CheckApi(r)
    <2>1. api' = api /\ pc[r] = "api"
        BY <1>8 DEF CheckApi
    <2>2. \/ "yes" \in ExistAPI(db) /\ Continue(r, "prepare")
          \/ Refuse(r, "notFound")
          \/ Refuse(r, "serverError")
        BY <1>8 DEF CheckApi, ExistAPI
    <2>3. CASE "yes" \in ExistAPI(db) /\ Continue(r, "prepare")
        <3>1. /\ api[r] \in Apis /\ Found(api[r]) \in seen[r]
              /\ Role(api[r], trace[r].code) \in seen[r]
              /\ GroupOpen(api[r]) \in seen[r]
            BY <2>1 DEF Approved
        <3>2. ApiOpen \in seen[r]
            BY <1>0, <1>2, <2>3, ApprovalFacts
        <3>3. pc'[r] = "prepare" /\ outcome' = outcome
            BY <1>0, <2>3 DEF Continue
        <3>4. QED
            BY <1>1, <1>2, <2>1, <3>1, <3>2, <3>3 DEF Approved, Running, Sent
    <2>4. QED
        BY <1>3, <2>1, <2>2, <2>3
<1>9. CASE Prepare(r)
    <2>1. api' = api /\ pc[r] = "prepare"
        BY <1>9 DEF Prepare
    <2>2. CASE Refuse(r, "serverError")
        BY <1>3, <2>1, <2>2
    <2>3. CASE Continue(r, "logOutbound")
        <3>1. pc'[r] = "logOutbound" /\ outcome' = outcome
            BY <1>0, <2>3 DEF Continue
        <3>2. QED
            BY <1>1, <1>2, <2>1, <3>1 DEF Approved, Running, Sent
    <2>4. QED
        BY <1>9, <2>2, <2>3 DEF Prepare
<1>10. QED
    BY <1>4, <1>5, <1>6, <1>7, <1>8, <1>9 DEF Check

LEMMA ApprovedStep ==
    ASSUME TypeOK, TraceInv, NEW r \in Requests, Arrive(r) \/ Step(r),
           Approved(r)
    PROVE  Approved(r)'
<1> USE DEF Committed
<1>0. /\ DOMAIN pc = Requests /\ DOMAIN outcome = Requests
      /\ DOMAIN seen = Requests
    BY DEF TypeOK
<1>1. CASE Arrive(r)
    <2>1. /\ pc[r] = "idle" /\ pc'[r] = "logInbound"
          /\ seen'[r] = Approvals(db)
          /\ UNCHANGED <<db, api, outcome>>
        BY <1>0, <1>1 DEF Arrive
    <2>2. QED
        BY <2>1 DEF Approved, Running, Sent
<1>2. CASE Check(r)
    BY <1>2, ApprovedCheck
<1>3. CASE \/ LogInboundRequest(r) \/ LogOutboundRequest(r)
           \/ LogOutboundResponse(r) \/ LogInboundResponse(r)
    <2>1. UNCHANGED <<db, api, outcome, seen, trace>>
        BY <1>3 DEF LogInboundRequest, LogOutboundRequest,
               LogOutboundResponse, LogInboundResponse, logging, pass
    <2>2. \/ pc[r] = "logInbound" /\ pc'[r] = "parse"
          \/ pc[r] = "logOutbound" /\ pc'[r] \in {"call", "panicked"}
          \/ pc[r] = "logOutboundResponse" /\ pc'[r] = "logInboundResponse"
          \/ pc[r] = "logInboundResponse" /\ pc'[r] = "answered"
        BY <1>0, <1>3 DEF LogInboundRequest, LogOutboundRequest,
               LogOutboundResponse, LogInboundResponse, Goto
    <2>3. QED
        BY <2>1, <2>2 DEF Approved, Running, Sent
<1>4. CASE CallFails(r)
    <2>1. /\ UNCHANGED <<db, api, seen, trace>> /\ pc[r] = "call"
          /\ pc'[r] = "refused" /\ outcome'[r] = "badGateway"
        BY <1>0, <1>4 DEF CallFails, Refuse, calling, pass
    <2>2. QED
        BY <2>1 DEF Approved, Running, Sent
<1>5. CASE CallReturns(r)
    <2>1. /\ UNCHANGED <<db, api, seen, trace, outcome>> /\ pc[r] = "call"
          /\ pc'[r] = "read"
        BY <1>0, <1>5 DEF CallReturns, Continue, calling, pass
    <2>2. QED
        BY <2>1 DEF Approved, Running, Sent
<1>6. CASE ReturnError(r)
    <2>1. /\ UNCHANGED <<db, api, seen, trace>> /\ pc[r] = "refused"
          /\ pc'[r] = "answered" /\ outcome'[r] = outcome[r]
        BY <1>0, <1>6 DEF ReturnError, Answer, logging, pass
    <2>2. QED
        BY <2>1 DEF Approved, Running, Sent
<1>7. CASE ReadFails(r) \/ PassOn(r)
    <2>1. /\ UNCHANGED <<db, api, seen, trace>> /\ pc[r] = "read"
          /\ pc'[r] \in {"answered", "logOutboundResponse"}
          /\ outcome'[r] \in {"cutShort", "passed"}
        BY <1>0, <1>7 DEF ReadFails, PassOn, Answer, logging, pass
    <2>2. QED
        BY <2>1 DEF Approved, Running, Sent
<1>8. QED
    BY <1>1, <1>2, <1>3, <1>4, <1>5, <1>6, <1>7 DEF Step

(* However the tables are edited meanwhile: each check a request has       *)
(* passed was right at some moment since the request arrived.              *)
THEOREM ApprovedCorrect == Spec => []ApprovedInv
<1>1. Init => ApprovedInv
    BY DEF Init, ApprovedInv, Approved, Running, Sent, Committed
<1>2. ASSUME TypeOK, TraceInv, ApprovedInv, [Next]_vars
      PROVE  ApprovedInv'
    <2>1. CASE \E r \in Requests : Arrive(r) \/ Step(r)
        <3>1. PICK r \in Requests : Arrive(r) \/ Step(r)
            BY <2>1
        <3>2. ASSUME NEW q \in Requests
              PROVE  Approved(q)'
            BY <1>2, <3>1, ApprovedStep, ApprovedFrame DEF ApprovedInv
        <3>3. QED
            BY <3>2 DEF ApprovedInv
    <2>2. CASE EditTables
        <3>1. ASSUME NEW r \in Requests
              PROVE  Approved(r)'
            <4>1. /\ UNCHANGED <<pc, outcome, api, trace>>
                  /\ seen'[r] = IF Running(r) THEN seen[r] \cup Approvals(db')
                                             ELSE seen[r]
                BY <2>2 DEF EditTables, pass
            <4>2. /\ seen[r] \subseteq seen'[r]
                  /\ Running(r) => Approvals(db') \subseteq seen'[r]
                BY <4>1
            <4>3. Approved(r)
                BY <1>2 DEF ApprovedInv
            <4>4. QED
                BY <4>1, <4>2, <4>3 DEF Approved, Running, Sent
        <3>2. QED
            BY <3>1 DEF ApprovedInv
    <2>3. CASE UNCHANGED vars
        BY <1>2, <2>3 DEF ApprovedInv, Approved, Running, Sent, vars, pass
    <2>4. QED
        BY <1>2, <2>1, <2>2, <2>3 DEF Next
<1>3. QED
    BY <1>1, <1>2, TypeCorrect, TraceInvCorrect, PTL DEF Spec

(* No request reaches the upstream without its four approvals.             *)
THEOREM ForwardedIsApprovedCorrect == Spec => []ForwardedIsApproved
<1>1. ApprovedInv => ForwardedIsApproved
    BY DEF ApprovedInv, Approved, ForwardedIsApproved
<1>2. QED
    BY <1>1, ApprovedCorrect, PTL

-----------------------------------------------------------------------------
(* The trail.  What one call of Log adds to it. *)

Typs(s) == [i \in 1 .. Len(s) |-> s[i].rasTyp]

LEMMA TypsOfAppend ==
    ASSUME NEW s \in Seq(LogEvent), NEW e \in LogEvent
    PROVE  Typs(Append(s, e)) = Typs(s) \o <<e.rasTyp>>
<1> DEFINE T == {"11", "12", "21"}
<1>1. /\ Append(s, e) \in Seq(LogEvent)
      /\ Len(Append(s, e)) = Len(s) + 1
      /\ \A i \in 1 .. Len(s) : Append(s, e)[i] = s[i]
      /\ Append(s, e)[Len(s) + 1] = e
      /\ Len(s) \in Nat
    BY AppendProperties, LenProperties
<1>2. \A i \in 1 .. Len(s) : s[i] \in LogEvent
    BY ElementOfSeq
<1>3. ASSUME NEW t \in Seq(LogEvent)
      PROVE  /\ Typs(t) \in Seq(T)
             /\ Len(Typs(t)) = Len(t)
             /\ \A i \in 1 .. Len(t) : Typs(t)[i] = t[i].rasTyp
    <2>1. \A i \in 1 .. Len(t) : t[i] \in LogEvent
        BY ElementOfSeq
    <2>2. \A i \in 1 .. Len(t) : t[i].rasTyp \in T
        BY <2>1 DEF LogEvent
    <2>3. Len(t) \in Nat
        BY LenProperties
    <2>4. QED
        BY <2>2, <2>3 DEF Typs
<1>4. e.rasTyp \in T
    BY DEF LogEvent
<1>5. /\ Append(Typs(s), e.rasTyp) \in Seq(T)
      /\ Len(Append(Typs(s), e.rasTyp)) = Len(s) + 1
      /\ \A i \in 1 .. Len(s) :
             Append(Typs(s), e.rasTyp)[i] = s[i].rasTyp
      /\ Append(Typs(s), e.rasTyp)[Len(s) + 1] = e.rasTyp
    BY <1>3, <1>4, AppendProperties
<1>6. /\ Typs(Append(s, e)) \in Seq(T)
      /\ Len(Typs(Append(s, e))) = Len(s) + 1
      /\ \A i \in 1 .. Len(s) + 1 :
             Typs(Append(s, e))[i] = Append(s, e)[i].rasTyp
    BY <1>1, <1>3
<1>7. \A i \in 1 .. Len(s) + 1 :
          Typs(Append(s, e))[i] = Append(Typs(s), e.rasTyp)[i]
    BY <1>1, <1>5, <1>6
<1>8. Typs(Append(s, e)) = Append(Typs(s), e.rasTyp)
    <2> HIDE DEF T
    <2>1. QED
        BY <1>5, <1>6, <1>7, SeqEqual
<1>9. Typs(s) \in Seq(T)
    BY <1>3
<1>10. Append(Typs(s), e.rasTyp) = Typs(s) \o <<e.rasTyp>>
    <2> HIDE DEF T
    <2>1. QED
        BY <1>4, <1>9, AppendIsConcat
<1>11. QED
    BY <1>8, <1>10

LEMMA TypsOfNone ==
    ASSUME NEW s \in Seq(LogEvent)
    PROVE  /\ Typs(s) \o <<>> = Typs(s)
           /\ <<>> \o Typs(s) = Typs(s)
<1> DEFINE T == {"11", "12", "21"}
<1>0. \A i \in 1 .. Len(s) : s[i] \in LogEvent
    BY ElementOfSeq
<1>1. Len(s) \in Nat /\ \A i \in 1 .. Len(s) : s[i].rasTyp \in T
    BY <1>0, LenProperties DEF LogEvent
<1>2. Typs(s) \in Seq(T)
    BY <1>1 DEF Typs
<1>3. QED
    <2> HIDE DEF T
    <2>1. QED
        BY <1>2, ConcatEmptySeq

LEMMA LogTrail ==
    ASSUME TypeOK, NEW r \in Requests, NEW p \in LogPoint,
           NEW e \in LogEvent, p \notin off[r], Log(r, p, e)
    PROVE  /\ RasTyps(r)' =
                  RasTyps(r) \o (IF p \in off'[r] THEN <<>> ELSE <<e.rasTyp>>)
           /\ off'[r] \in {off[r], off[r] \cup {p}}
           /\ \A i \in DOMAIN events'[r] :
                  \/ i \in DOMAIN events[r] /\ events'[r][i] = events[r][i]
                  \/ events'[r][i] = e
<1>1. events[r] \in Seq(LogEvent) /\ DOMAIN events = Requests
      /\ DOMAIN off = Requests
    BY DEF TypeOK
<1>2. RasTyps(r) = Typs(events[r]) /\ RasTyps(r)' = Typs(events'[r])
    BY DEF RasTyps, Typs
<1>3. CASE events' = [events EXCEPT ![r] = Append(events[r], e)] /\ off' = off
    <2>1. events'[r] = Append(events[r], e) /\ off'[r] = off[r]
        BY <1>1, <1>3
    <2>2. RasTyps(r)' = RasTyps(r) \o <<e.rasTyp>>
        BY <1>1, <1>2, <2>1, TypsOfAppend
    <2>3. \A i \in DOMAIN events'[r] :
              \/ i \in DOMAIN events[r] /\ events'[r][i] = events[r][i]
              \/ events'[r][i] = e
        <3>1. /\ DOMAIN events[r] = 1 .. Len(events[r])
              /\ DOMAIN Append(events[r], e) = 1 .. Len(events[r]) + 1
              /\ Len(events[r]) \in Nat
            BY <1>1, AppendProperties, LenProperties
        <3>2. QED
            BY <1>1, <2>1, <3>1, AppendProperties
    <2>4. QED
        BY <2>1, <2>2, <2>3
<1>4. CASE off' = [off EXCEPT ![r] = off[r] \cup {p}] /\ events' = events
    <2>1. events'[r] = events[r] /\ off'[r] = off[r] \cup {p}
        BY <1>1, <1>4
    <2>2. RasTyps(r)' = RasTyps(r) \o <<>>
        BY <1>1, <1>2, <2>1, TypsOfNone
    <2>3. QED
        BY <2>1, <2>2
<1>5. QED
    BY <1>3, <1>4 DEF Log

(* The entries of a point that no step touches stay what they are.         *)
LEMMA EntryFacts ==
    ASSUME NEW r \in Requests
    PROVE  /\ ("inbound.request" \in off'[r] <=> "inbound.request" \in off[r]) =>
                  InboundEntry(r)' = InboundEntry(r)
           /\ off'[r] \cap {"inbound.request", "outbound.request"}
                  = off[r] \cap {"inbound.request", "outbound.request"} =>
                  CallEntries(r)' = CallEntries(r)
           /\ off'[r] \cap (LogPoint \ {"inbound.response"})
                  = off[r] \cap (LogPoint \ {"inbound.response"}) =>
                  ResponseEntries(r)' = ResponseEntries(r)
    BY DEF InboundEntry, CallEntries, ResponseEntries, Entry, LogPoint

(* What LoggedAsAnswered says of one request. *)
Told(r) ==
    outcome[r] = "passed" =>
        \A i \in DOMAIN events[r] :
            events[r][i].rasTyp = "12" =>
                /\ events[r][i].tcid = reply[r].tcid
                /\ events[r][i].srno = reply[r].srno

Kept(q) ==
    /\ pc'[q] = pc[q] /\ outcome'[q] = outcome[q] /\ reply'[q] = reply[q]
    /\ events'[q] = events[q] /\ off'[q] = off[q]

LEMMA KeptIsRecorded ==
    ASSUME NEW q, Kept(q), Recorded(q), Told(q)
    PROVE  Recorded(q)' /\ Told(q)'
<1>1. /\ RasTyps(q)' = RasTyps(q) /\ Trail(q)' = Trail(q)
      /\ InboundEntry(q)' = InboundEntry(q)
      /\ CallEntries(q)' = CallEntries(q)
      /\ ResponseEntries(q)' = ResponseEntries(q)
    BY DEF Kept, RasTyps, Trail, AnswerEntry, InboundEntry, CallEntries,
           ResponseEntries, Entry
<1>2. Recorded(q)'
    BY <1>1 DEF Kept, Recorded, Stage, BadGateway
<1>3. QED
    BY <1>2 DEF Kept, Told

LEMMA StepKeepsOthers ==
    ASSUME TypeOK, NEW r \in Requests, Arrive(r) \/ Step(r),
           NEW q \in Requests, q # r
    PROVE  Kept(q)
<1>1. CASE Arrive(r)
    BY <1>1 DEF Arrive, past, Kept, TypeOK
<1>2. CASE Check(r)
    <2>1. CASE CheckApi(r)
        BY <2>1 DEF CheckApi, Continue, Refuse, checking, past, Kept, TypeOK
    <2>2. CASE ParseBody(r) \/ FindApi(r) \/ CheckRole(r)
               \/ CheckGroup(r) \/ Prepare(r)
        BY <2>2 DEF ParseBody, FindApi, CheckRole, CheckGroup, Prepare,
                    Continue, Refuse, checking, past, Kept, TypeOK
    <2>3. QED
        BY <1>2, <2>1, <2>2 DEF Check
<1>3. CASE \/ LogInboundRequest(r) \/ LogOutboundRequest(r)
           \/ LogOutboundResponse(r) \/ LogInboundResponse(r)
    BY <1>3 DEF LogInboundRequest, LogOutboundRequest, LogOutboundResponse,
                LogInboundResponse, Goto, Log, past, Kept, TypeOK
<1>4. CASE CallFails(r) \/ CallReturns(r)
    BY <1>4 DEF CallFails, CallReturns, Refuse, Continue, calling, past, Kept,
                TypeOK
<1>5. CASE ReturnError(r) \/ ReadFails(r) \/ PassOn(r)
    BY <1>5 DEF ReturnError, ReadFails, PassOn, Answer, Log, past, Kept, TypeOK
<1>6. QED
    BY <1>1, <1>2, <1>3, <1>4, <1>5 DEF Step

(* The ways of a request that record nothing. *)
LEMMA SilentStep ==
    ASSUME TypeOK, TraceInv, NEW r \in Requests, Approved(r), Recorded(r),
           Told(r),
           Arrive(r) \/ Check(r) \/ CallFails(r) \/ CallReturns(r)
               \/ ReadFails(r) \/ PassOn(r)
    PROVE  Recorded(r)' /\ Told(r)'
<1>0. /\ DOMAIN pc = Requests /\ DOMAIN outcome = Requests
      /\ outcome[r] \in Outcome
    BY DEF TypeOK
<1>1. UNCHANGED past
    <2>1. CASE CheckApi(r)
        BY <2>1 DEF CheckApi, checking
    <2>2. CASE ~CheckApi(r)
        BY <2>2 DEF Arrive, Check, ParseBody, FindApi, CheckRole, CheckGroup,
               Prepare, CallFails, CallReturns, ReadFails, PassOn, checking,
               calling
    <2>3. QED
        BY <2>1, <2>2
<1>2. /\ RasTyps(r)' = RasTyps(r)
      /\ events'[r] = events[r] /\ off'[r] = off[r]
      /\ InboundEntry(r)' = InboundEntry(r)
      /\ CallEntries(r)' = CallEntries(r)
      /\ ResponseEntries(r)' = ResponseEntries(r)
    BY <1>1 DEF past, RasTyps, InboundEntry, CallEntries, ResponseEntries, Entry
<1>3. outcome[r] # "none" =>
          pc[r] \in {"refused", "logOutboundResponse", "logInboundResponse",
                     "answered"}
    BY DEF Approved
<1>4. CASE Arrive(r)
    <2>1. /\ pc[r] = "idle" /\ pc'[r] = "logInbound" /\ outcome'[r] = outcome[r]
        BY <1>0, <1>4 DEF Arrive
    <2>2. QED
        BY <1>2, <1>3, <2>1 DEF Recorded, Told, Stage, BadGateway
<1>5. CASE Check(r)
    <2>1. /\ pc[r] \in {"parse", "findRequestData", "useApi", "apiGroup", "api",
                        "prepare"}
          /\ \/ /\ pc'[r] \in {"findRequestData", "useApi", "apiGroup", "api",
                               "prepare", "logOutbound"}
                /\ outcome'[r] = outcome[r]
             \/ /\ pc'[r] = "refused"
                /\ outcome'[r] \in {"badRequest", "notFound", "serverError"}
        <3>1. CASE CheckApi(r)
            BY <1>0, <3>1 DEF CheckApi, ExistAPI, Continue, Refuse
        <3>2. CASE ~CheckApi(r)
            BY <1>0, <1>5, <3>2 DEF Check, ParseBody, FindApi, CheckRole,
                   CheckGroup, Prepare, Continue, Refuse
        <3>3. QED
            BY <3>1, <3>2
    <2>2. QED
        BY <1>2, <1>3, <2>1 DEF Recorded, Told, Stage, BadGateway, Status
<1>6. CASE CallFails(r)
    <2>1. /\ pc[r] = "call" /\ pc'[r] = "refused"
          /\ outcome'[r] = "badGateway"
        BY <1>0, <1>6 DEF CallFails, Refuse
    <2>2. QED
        BY <1>2, <1>3, <2>1 DEF Recorded, Told, Stage, BadGateway, Status
<1>7. CASE CallReturns(r)
    <2>1. pc[r] = "call" /\ pc'[r] = "read" /\ outcome'[r] = outcome[r]
        BY <1>0, <1>7 DEF CallReturns, Continue
    <2>2. QED
        BY <1>2, <1>3, <2>1 DEF Recorded, Told, Stage, BadGateway
<1>8. CASE ReadFails(r)
    <2>1. pc[r] = "read" /\ pc'[r] = "answered" /\ outcome'[r] = "cutShort"
        BY <1>0, <1>8 DEF ReadFails, Answer
    <2>2. Trail(r)' = CallEntries(r)'
        BY <2>1 DEF Trail
    <2>3. QED
        BY <1>2, <1>3, <2>1, <2>2 DEF Recorded, Told, Stage, BadGateway
<1>9. CASE PassOn(r)
    <2>1. /\ pc[r] = "read" /\ pc'[r] = "logOutboundResponse"
          /\ outcome'[r] = "passed" /\ outcome[r] = "none"
        BY <1>0, <1>3, <1>9 DEF PassOn, Answer
    <2>2. \A j \in DOMAIN events'[r] : events'[r][j].rasTyp # "12"
        BY <1>2, <2>1 DEF Recorded
    <2>3. QED
        BY <1>2, <2>1, <2>2 DEF Recorded, Told, Stage, BadGateway
<1>10. QED
    BY <1>4, <1>5, <1>6, <1>7, <1>8, <1>9

(* The ways that record an event, or that the point's lookup said no. *)
LEMMA InboundRequestStep ==
    ASSUME TypeOK, TraceInv, NEW r \in Requests, Approved(r), Recorded(r),
           LogInboundRequest(r)
    PROVE  Recorded(r)' /\ Told(r)'
<1> DEFINE e == Event("11", "Y", merged[r], rHeader[r])
<1>1. /\ pc[r] = "logInbound" /\ pc'[r] = "parse" /\ outcome'[r] = outcome[r]
      /\ Log(r, "inbound.request", e)
    BY DEF LogInboundRequest, Goto, TypeOK
<1>2. outcome[r] = "none" /\ RasTyps(r) = <<>> /\ off[r] = {}
    BY <1>1 DEF Approved, Recorded, Stage
<1>3. e \in LogEvent
    BY <1>1, HeadersAtHand, EventFacts
<1>4. e.rasTyp = "11" /\ "inbound.request" \in LogPoint
    BY DEF Event, LogPoint
<1>5. /\ RasTyps(r)' = RasTyps(r)
             \o (IF "inbound.request" \in off'[r] THEN <<>> ELSE <<"11">>)
      /\ off'[r] \subseteq {"inbound.request"}
      /\ \A j \in DOMAIN events'[r] :
             \/ j \in DOMAIN events[r] /\ events'[r][j] = events[r][j]
             \/ events'[r][j] = e
    <2> HIDE DEF e
    <2>1. "inbound.request" \notin off[r]
        BY <1>2
    <2>2. /\ RasTyps(r)' = RasTyps(r)
                 \o (IF "inbound.request" \in off'[r] THEN <<>>
                                                    ELSE <<e.rasTyp>>)
          /\ off'[r] \in {off[r], off[r] \cup {"inbound.request"}}
          /\ \A j \in DOMAIN events'[r] :
                 \/ j \in DOMAIN events[r] /\ events'[r][j] = events[r][j]
                 \/ events'[r][j] = e
        BY <1>1, <1>3, <1>4, <2>1, LogTrail
    <2>3. QED
        BY <1>2, <1>4, <2>2
<1>6. RasTyps(r)' = InboundEntry(r)'
    BY <1>2, <1>5 DEF InboundEntry, Entry
<1>7. \A j \in DOMAIN events'[r] : events'[r][j].rasTyp # "12"
    <2> HIDE DEF e
    <2>1. QED
        BY <1>2, <1>4, <1>5 DEF Recorded
<1>8. QED
    BY <1>1, <1>2, <1>5, <1>6, <1>7 DEF Recorded, Told, Stage, BadGateway

LEMMA OutboundRequestStep ==
    ASSUME TypeOK, TraceInv, NEW r \in Requests, Approved(r), Recorded(r),
           LogOutboundRequest(r)
    PROVE  Recorded(r)' /\ Told(r)'
<1> DEFINE e == Event("21", "Y", outHeader[r][1], outHeader[r][1])
<1>1. /\ pc[r] = "logOutbound" /\ pc'[r] \in {"panicked", "call"}
      /\ outcome'[r] = outcome[r]
      /\ pc'[r] = "panicked" => UNCHANGED past
    BY DEF LogOutboundRequest, TypeOK
<1>2. /\ outcome[r] = "none" /\ RasTyps(r) = InboundEntry(r)
      /\ off[r] \subseteq {"inbound.request"}
    BY <1>1 DEF Approved, Recorded, Stage
<1>3. CASE pc'[r] = "panicked"
    <2>1. events'[r] = events[r]
        BY <1>1, <1>3 DEF past
    <2>2. QED
        BY <1>1, <1>2, <1>3, <2>1 DEF Recorded, Told, BadGateway
<1>4. CASE pc'[r] = "call"
    <2>1. e \in LogEvent
        BY <1>1, HeadersAtHand, EventFacts DEF Committed
    <2>2. e.rasTyp = "21" /\ "outbound.request" \in LogPoint
        BY DEF Event, LogPoint
    <2>3. Log(r, "outbound.request", e)
        <3>1. \/ Log(r, "outbound.request", e)
              \/ /\ FALSE \in ExistConfig(db, "outbound.request")
                 /\ off' = [off EXCEPT ![r] = off[r] \cup {"outbound.request"}]
                 /\ UNCHANGED events
              \/ pc' = [pc EXCEPT ![r] = "panicked"]
            BY DEF LogOutboundRequest
        <3>2. pc' # [pc EXCEPT ![r] = "panicked"]
            BY <1>4 DEF TypeOK
        <3>3. QED
            BY <3>1, <3>2 DEF Log
    <2>4. /\ RasTyps(r)' = RasTyps(r)
                 \o (IF "outbound.request" \in off'[r] THEN <<>> ELSE <<"21">>)
          /\ off'[r] \in {off[r], off[r] \cup {"outbound.request"}}
          /\ \A j \in DOMAIN events'[r] :
                 \/ j \in DOMAIN events[r] /\ events'[r][j] = events[r][j]
                 \/ events'[r][j] = e
        <3> HIDE DEF e
        <3>1. "outbound.request" \notin off[r]
            BY <1>2
        <3>2. QED
            BY <2>1, <2>2, <2>3, <3>1, LogTrail
    <2>5. InboundEntry(r)' = InboundEntry(r)
        BY <2>4, EntryFacts
    <2>6. RasTyps(r)' = CallEntries(r)'
        BY <1>2, <2>4, <2>5 DEF CallEntries, Entry
    <2>7. off'[r] \subseteq {"inbound.request", "outbound.request"}
        BY <1>2, <2>4
    <2>8. \A j \in DOMAIN events'[r] : events'[r][j].rasTyp # "12"
        <3> HIDE DEF e
        <3>1. QED
            BY <1>2, <2>2, <2>4 DEF Recorded
    <2>9. QED
        BY <1>1, <1>2, <1>4, <2>6, <2>7, <2>8
            DEF Recorded, Told, Stage, BadGateway
<1>5. QED
    BY <1>1, <1>3, <1>4

LEMMA ReturnErrorStep ==
    ASSUME TypeOK, TraceInv, NEW r \in Requests, Approved(r), Recorded(r),
           ReturnError(r)
    PROVE  Recorded(r)' /\ Told(r)'
<1> DEFINE h == [merged[r] EXCEPT !.srno = BumpBareNumber(@)]
           e == Event("12", "N", h, rHeader[r])
<1>1. /\ pc[r] = "refused" /\ pc'[r] = "answered" /\ outcome'[r] = outcome[r]
      /\ Log(r, "inbound.response", e)
    BY DEF ReturnError, Answer, TypeOK
<1>2. /\ outcome[r] \in Status /\ outcome'[r] \in Status
      /\ outcome[r] = "badGateway" =>
             /\ RasTyps(r) = CallEntries(r)
             /\ off[r] \subseteq {"inbound.request", "outbound.request"}
      /\ outcome[r] # "badGateway" =>
             /\ RasTyps(r) = InboundEntry(r)
             /\ off[r] \subseteq {"inbound.request"}
    BY <1>1 DEF Recorded, Stage, BadGateway
<1>3. e \in LogEvent /\ e.rasTyp = "12"
    <2>1. h = merged[r]
        BY <1>1, HeadersAtHand DEF BumpBareNumber, FwHeader
    <2>2. QED
        BY <1>1, <2>1, HeadersAtHand, EventFacts DEF Event
<1>4. /\ RasTyps(r)' = RasTyps(r)
             \o (IF "inbound.response" \in off'[r] THEN <<>> ELSE <<"12">>)
      /\ off'[r] \in {off[r], off[r] \cup {"inbound.response"}}
    <2> HIDE DEF e
    <2>1. "inbound.response" \notin off[r] /\ "inbound.response" \in LogPoint
        BY <1>2 DEF LogPoint
    <2>2. QED
        BY <1>1, <1>3, <2>1, LogTrail
<1>5. InboundEntry(r)' = InboundEntry(r) /\ CallEntries(r)' = CallEntries(r)
    BY <1>4, EntryFacts
<1>6. RasTyps(r)' = Trail(r)'
    <2>1. AnswerEntry(r)' =
              IF "inbound.response" \in off'[r] THEN <<>> ELSE <<"12">>
        BY DEF AnswerEntry, Entry
    <2>2. Trail(r)' = (IF outcome'[r] = "badGateway"
                       THEN CallEntries(r)' ELSE InboundEntry(r)')
                          \o AnswerEntry(r)'
        BY <1>2 DEF Trail, Status
    <2>3. CASE outcome[r] = "badGateway"
        BY <1>1, <1>2, <1>4, <1>5, <2>1, <2>2, <2>3
    <2>4. CASE outcome[r] # "badGateway"
        BY <1>1, <1>2, <1>4, <1>5, <2>1, <2>2, <2>4
    <2>5. QED
        BY <2>3, <2>4
<1>7. QED
    BY <1>1, <1>2, <1>6 DEF Recorded, Told, Status, BadGateway

LEMMA ResponseStep ==
    ASSUME TypeOK, TraceInv, NEW r \in Requests, Approved(r), Recorded(r),
           Told(r), LogOutboundResponse(r) \/ LogInboundResponse(r)
    PROVE  Recorded(r)' /\ Told(r)'
<1> DEFINE e == Event("12", "Y", wHeader[r], wHeader[r])
<1>1. /\ pc[r] \in {"logOutboundResponse", "logInboundResponse"}
      /\ outcome' = outcome /\ reply' = reply
      /\ outcome[r] = "passed"
    BY DEF LogOutboundResponse, LogInboundResponse, Goto, Recorded
<1>2. /\ e \in LogEvent /\ e.rasTyp = "12"
      /\ e.tcid = reply[r].tcid /\ e.srno = reply[r].srno
    <2>1. wHeader[r] = reply[r]
        BY <1>1 DEF TraceInv, Traced
    <2>2. e \in LogEvent
        BY <1>1, HeadersAtHand, EventFacts
    <2>3. QED
        BY <2>1, <2>2 DEF Event
<1>3. ASSUME \A j \in DOMAIN events'[r] :
                 \/ j \in DOMAIN events[r] /\ events'[r][j] = events[r][j]
                 \/ events'[r][j] = e
      PROVE  Told(r)'
    <2> HIDE DEF e
    <2>1. QED
        BY <1>1, <1>2, <1>3 DEF Told
<1>4. CASE LogOutboundResponse(r)
    <2>1. /\ pc[r] = "logOutboundResponse" /\ pc'[r] = "logInboundResponse"
          /\ Log(r, "outbound.response", e)
        BY <1>4 DEF LogOutboundResponse, Goto, TypeOK
    <2>2. /\ RasTyps(r) = CallEntries(r)
          /\ off[r] \subseteq {"inbound.request", "outbound.request"}
        BY <2>1 DEF Recorded, Stage
    <2>3. /\ RasTyps(r)' = RasTyps(r)
                 \o (IF "outbound.response" \in off'[r] THEN <<>> ELSE <<"12">>)
          /\ off'[r] \in {off[r], off[r] \cup {"outbound.response"}}
          /\ Told(r)'
        <3> HIDE DEF e
        <3>1. "outbound.response" \notin off[r] /\ "outbound.response" \in LogPoint
            BY <2>2 DEF LogPoint
        <3>2. QED
            BY <1>2, <1>3, <2>1, <3>1, LogTrail
    <2>4. CallEntries(r)' = CallEntries(r)
        BY <2>3, EntryFacts
    <2>5. RasTyps(r)' = ResponseEntries(r)'
        BY <2>2, <2>3, <2>4 DEF ResponseEntries, Entry
    <2>6. off'[r] \subseteq LogPoint \ {"inbound.response"}
        BY <2>2, <2>3 DEF LogPoint
    <2>7. QED
        BY <1>1, <2>1, <2>3, <2>5, <2>6 DEF Recorded, Stage, BadGateway
<1>5. CASE LogInboundResponse(r)
    <2>1. /\ pc[r] = "logInboundResponse" /\ pc'[r] = "answered"
          /\ Log(r, "inbound.response", e)
        BY <1>5 DEF LogInboundResponse, Goto, TypeOK
    <2>2. /\ RasTyps(r) = ResponseEntries(r)
          /\ off[r] \subseteq LogPoint \ {"inbound.response"}
        BY <2>1 DEF Recorded, Stage
    <2>3. /\ RasTyps(r)' = RasTyps(r)
                 \o (IF "inbound.response" \in off'[r] THEN <<>> ELSE <<"12">>)
          /\ off'[r] \in {off[r], off[r] \cup {"inbound.response"}}
          /\ Told(r)'
        <3> HIDE DEF e
        <3>1. "inbound.response" \notin off[r] /\ "inbound.response" \in LogPoint
            BY <2>2 DEF LogPoint
        <3>2. QED
            BY <1>2, <1>3, <2>1, <3>1, LogTrail
    <2>4. ResponseEntries(r)' = ResponseEntries(r)
        BY <2>3, EntryFacts
    <2>5. Trail(r)' = ResponseEntries(r)' \o AnswerEntry(r)'
        BY <1>1 DEF Trail
    <2>6. AnswerEntry(r)' =
              IF "inbound.response" \in off'[r] THEN <<>> ELSE <<"12">>
        BY DEF AnswerEntry, Entry
    <2>7. RasTyps(r)' = Trail(r)'
        BY <2>2, <2>3, <2>4, <2>5, <2>6
    <2>8. QED
        BY <1>1, <2>1, <2>3, <2>7 DEF Recorded, BadGateway
<1>6. QED
    BY <1>4, <1>5

(* Events and unlogged points add up, wherever a request has got to. *)
THEOREM RecordInvCorrect == Spec => []RecordInv
<1>1. RecordInv <=> \A r \in Requests : Recorded(r) /\ Told(r)
    BY DEF RecordInv, LoggedAsAnswered, Told
<1>2. RecordInv' <=> \A r \in Requests : Recorded(r)' /\ Told(r)'
    BY DEF RecordInv, LoggedAsAnswered, Told
<1>3. Init => RecordInv
    <2> SUFFICES ASSUME Init, NEW r \in Requests
                 PROVE  Recorded(r) /\ Told(r)
        BY <1>1
    <2>1. /\ pc[r] = "idle" /\ outcome[r] = "none" /\ events[r] = <<>>
          /\ off[r] = {}
        BY DEF Init
    <2>2. RasTyps(r) = <<>> /\ DOMAIN events[r] = {}
        BY <2>1 DEF RasTyps
    <2>3. QED
        BY <2>1, <2>2 DEF Recorded, Told, Stage, BadGateway
<1>4. ASSUME TypeOK, TraceInv, ApprovedInv, RecordInv, [Next]_vars
      PROVE  RecordInv'
    <2>1. CASE \E r \in Requests : Arrive(r) \/ Step(r)
        <3>1. PICK r \in Requests : Arrive(r) \/ Step(r)
            BY <2>1
        <3>2. Approved(r) /\ Recorded(r) /\ Told(r)
            BY <1>1, <1>4 DEF ApprovedInv
        <3>3. Recorded(r)' /\ Told(r)'
            BY <1>4, <3>1, <3>2, SilentStep, InboundRequestStep,
               OutboundRequestStep, ReturnErrorStep, ResponseStep DEF Step
        <3>4. ASSUME NEW q \in Requests, q # r
              PROVE  Recorded(q)' /\ Told(q)'
            BY <1>1, <1>4, <3>1, <3>4, StepKeepsOthers, KeptIsRecorded
        <3>5. QED
            BY <1>2, <3>3, <3>4
    <2>2. CASE EditTables \/ UNCHANGED vars
        <3>1. ASSUME NEW r \in Requests
              PROVE  Recorded(r)' /\ Told(r)'
            <4>1. Kept(r)
                BY <2>2 DEF EditTables, vars, past, Kept
            <4>2. Recorded(r) /\ Told(r)
                BY <1>1, <1>4
            <4>3. QED
                BY <4>1, <4>2, KeptIsRecorded
        <3>2. QED
            BY <1>2, <3>1
    <2>3. QED
        BY <1>4, <2>1, <2>2 DEF Next
<1>5. QED
    BY <1>3, <1>4, TypeCorrect, TraceInvCorrect, ApprovedCorrect, PTL DEF Spec

(* The log says of an answer what the caller was sent.                     *)
THEOREM LoggedAsAnsweredCorrect == Spec => []LoggedAsAnswered
<1>1. RecordInv => LoggedAsAnswered
    BY DEF RecordInv
<1>2. QED
    BY <1>1, RecordInvCorrect, PTL

(* Whatever way through Post a request takes, and whenever log points are  *)
(* switched meanwhile: its trail lacks no event and has none too many.     *)
THEOREM TrailCompleteCorrect == Spec => []TrailComplete
<1>1. RecordInv => TrailComplete
    BY DEF RecordInv, Recorded, TrailComplete
<1>2. QED
    BY <1>1, RecordInvCorrect, PTL

-----------------------------------------------------------------------------
(* One request alone.  Alone is the gateway that serves the request One    *)
(* and no other, on the same tables; Only(f) is what concerns One of a     *)
(* variable f.                                                             *)

CONSTANT One

Only(f) == [q \in {One} |-> f[q]]

Alone == INSTANCE DynamicGateway WITH
    Requests <- {One},
    pc <- Only(pc), shape <- Only(shape), trace <- Only(trace),
    rHeader <- Only(rHeader), merged <- Only(merged), api <- Only(api),
    upHeader <- Only(upHeader), wHeader <- Only(wHeader),
    outcome <- Only(outcome), reply <- Only(reply),
    outHeader <- Only(outHeader), events <- Only(events), off <- Only(off),
    seen <- Only(seen)

LEMMA OnlyOne == \A f : Only(f)[One] = f[One]
    BY DEF Only

(* A variable f and what it is in the next state, g: the change of one     *)
(* request is the change of One, or does not concern it.                   *)
Keeps(f, g) ==
    /\ \A x : g = [f EXCEPT ![One] = x]
                 => Only(g) = [Only(f) EXCEPT ![One] = x]
    /\ \A r \in Requests \ {One} :
          \A x : g = [f EXCEPT ![r] = x] => Only(g) = Only(f)

LEMMA KeepsFunction ==
    ASSUME One \in Requests, NEW f, DOMAIN f = Requests
    PROVE  \A g : Keeps(f, g)
    BY DEF Keeps, Only

LEMMA KeepsAll ==
    ASSUME One \in Requests, TypeOK
    PROVE  /\ Keeps(pc, pc') /\ Keeps(shape, shape') /\ Keeps(trace, trace')
           /\ Keeps(merged, merged') /\ Keeps(rHeader, rHeader')
           /\ Keeps(api, api') /\ Keeps(outHeader, outHeader')
           /\ Keeps(upHeader, upHeader') /\ Keeps(wHeader, wHeader')
           /\ Keeps(reply, reply') /\ Keeps(outcome, outcome')
           /\ Keeps(events, events') /\ Keeps(off, off') /\ Keeps(seen, seen')
    BY KeepsFunction DEF TypeOK

(* Headers, queries and tables do not depend on what requests there are.   *)
LEMMA SameHeaders ==
    /\ Alone!NoHeader = NoHeader
    /\ \A h : Alone!BumpTCIDSRNO(h) = BumpTCIDSRNO(h)
    /\ \A n : Alone!BumpBareNumber(n) = BumpBareNumber(n)
    /\ \A h, c, id :
          /\ Alone!EnsureTCIDForRequest(h, c, id)
                 = EnsureTCIDForRequest(h, c, id)
          /\ Alone!ApplyServerSideFields(h, c, id)
                 = ApplyServerSideFields(h, c, id)
    /\ \A h : Alone!BizCode(h) = BizCode(h)
    /\ \A t, n, h, k : Alone!Event(t, n, h, k) = Event(t, n, h, k)
    /\ \A r : Alone!Shape(r) = Shape(r)
<1> USE DEF NoHeader, Alone!NoHeader, NoTcid, Alone!NoTcid, NoCode, Alone!NoCode
<1>1. Alone!NoHeader = NoHeader
    OBVIOUS
<1>2. /\ \A h : Alone!BumpTCIDSRNO(h) = BumpTCIDSRNO(h)
      /\ \A n : Alone!BumpBareNumber(n) = BumpBareNumber(n)
    BY DEF BumpTCIDSRNO, Alone!BumpTCIDSRNO, BumpBareNumber,
           Alone!BumpBareNumber
<1>3. \A h, c, id :
          /\ Alone!EnsureTCIDForRequest(h, c, id)
                 = EnsureTCIDForRequest(h, c, id)
          /\ Alone!ApplyServerSideFields(h, c, id)
                 = ApplyServerSideFields(h, c, id)
    BY DEF EnsureTCIDForRequest, ApplyServerSideFieldsPreserveTCID,
           ApplyServerSideFields, Alone!EnsureTCIDForRequest,
           Alone!ApplyServerSideFieldsPreserveTCID, Alone!ApplyServerSideFields
<1>4. \A h : Alone!BizCode(h) = BizCode(h)
    BY DEF BizCode, Alone!BizCode
<1>5. \A t, n, h, k : Alone!Event(t, n, h, k) = Event(t, n, h, k)
    BY DEF Event, Alone!Event
<1>6. \A r : Alone!Shape(r) = Shape(r)
    BY DEF Shape, Alone!Shape, Body, Alone!Body
<1>7. QED
    BY <1>1, <1>2, <1>3, <1>4, <1>5, <1>6

LEMMA SameTables ==
    /\ Alone!Error = Error
    /\ \A d : Alone!Approvals(d) = Approvals(d)
    /\ \A d : Alone!Edited(d) = Edited(d)
    /\ \A d : Alone!FindRequestData(d) = FindRequestData(d)
    /\ \A d, a, c : Alone!ExistUseAPIList(d, a, c) = ExistUseAPIList(d, a, c)
    /\ \A d, a : Alone!ExistAPIGroup(d, a) = ExistAPIGroup(d, a)
    /\ \A d : Alone!ExistAPI(d) = ExistAPI(d)
    /\ \A d, p : Alone!ExistConfig(d, p) = ExistConfig(d, p)
<1> USE DEF Error, Alone!Error
<1>1. \A d : Alone!Approvals(d) = Approvals(d)
    BY DEF Approvals, Found, Role, GroupOpen, ApiOpen, Alone!Approvals,
           Alone!Found, Alone!Role, Alone!GroupOpen, Alone!ApiOpen
<1>2. \A d : Alone!Edited(d) = Edited(d)
    BY DEF Edited, Toggled, Code, LogPoint, NoCode, Alone!Edited,
           Alone!Toggled, Alone!Code, Alone!LogPoint, Alone!NoCode
<1>3. /\ \A d : Alone!FindRequestData(d) = FindRequestData(d)
      /\ \A d, p : Alone!ExistConfig(d, p) = ExistConfig(d, p)
    BY DEF FindRequestData, ExistConfig, Alone!FindRequestData,
           Alone!ExistConfig
<1>4. \A d, a, c : Alone!ExistUseAPIList(d, a, c) = ExistUseAPIList(d, a, c)
    BY DEF ExistUseAPIList, Alone!ExistUseAPIList
<1>5. /\ \A d, a : Alone!ExistAPIGroup(d, a) = ExistAPIGroup(d, a)
      /\ \A d : Alone!ExistAPI(d) = ExistAPI(d)
    BY DEF ExistAPIGroup, ExistAPI, Alone!ExistAPIGroup, Alone!ExistAPI
<1>6. QED
    BY <1>1, <1>2, <1>3, <1>4, <1>5

(* What is left alone in all is left alone in what concerns One. *)
LEMMA OnlyUnchanged ==
    /\ UNCHANGED pass => UNCHANGED Alone!pass
    /\ UNCHANGED past => UNCHANGED Alone!past
    /\ UNCHANGED logging => UNCHANGED Alone!logging
    /\ UNCHANGED checking => UNCHANGED Alone!checking
    /\ UNCHANGED calling => UNCHANGED Alone!calling
    /\ UNCHANGED vars => UNCHANGED Alone!vars
    BY DEF pass, past, logging, checking, calling, vars, Alone!pass,
           Alone!past, Alone!logging, Alone!checking, Alone!calling, Alone!vars

(* The steps of One are its steps when it is alone. *)

LEMMA OnlyParts ==
    ASSUME One \in Requests, TypeOK
    PROVE  /\ \A to : Continue(One, to) => Alone!Continue(One, to)
           /\ \A s : Refuse(One, s) => Alone!Refuse(One, s)
           /\ \A from, to : Goto(One, from, to) => Alone!Goto(One, from, to)
           /\ \A p, e : Log(One, p, e) => Alone!Log(One, p, e)
           /\ \A to, s, h : Answer(One, to, s, h) => Alone!Answer(One, to, s, h)
<1>1. /\ \A to : Continue(One, to) => Alone!Continue(One, to)
      /\ \A s : Refuse(One, s) => Alone!Refuse(One, s)
    BY KeepsAll DEF Keeps, Continue, Refuse, Alone!Continue, Alone!Refuse
<1>2. \A from, to : Goto(One, from, to) => Alone!Goto(One, from, to)
    BY KeepsAll, OnlyOne DEF Keeps, Goto, Alone!Goto
<1>3. ASSUME NEW p, NEW e, Log(One, p, e)
      PROVE  Alone!Log(One, p, e)
    <2>1. \A x : /\ events' = [events EXCEPT ![One] = x]
                        => Only(events)' = [Only(events) EXCEPT ![One] = x]
                 /\ off' = [off EXCEPT ![One] = x]
                        => Only(off)' = [Only(off) EXCEPT ![One] = x]
        BY KeepsAll DEF Keeps
    <2>2. /\ Only(events)[One] = events[One] /\ Only(off)[One] = off[One]
          /\ Alone!ExistConfig(db, p) = ExistConfig(db, p)
          /\ UNCHANGED off => UNCHANGED Only(off)
          /\ UNCHANGED events => UNCHANGED Only(events)
        BY OnlyOne, SameTables
    <2>3. QED
        BY <1>3, <2>1, <2>2 DEF Log, Alone!Log
<1>4. ASSUME NEW to, NEW s, NEW h, Answer(One, to, s, h)
      PROVE  Alone!Answer(One, to, s, h)
    <2>1. WriteHeader(One, h) = Alone!WriteHeader(One, h)
        BY OnlyOne, SameHeaders DEF WriteHeader, Alone!WriteHeader
    <2>2. \A x : /\ wHeader' = [wHeader EXCEPT ![One] = x]
                        => Only(wHeader)' = [Only(wHeader) EXCEPT ![One] = x]
                 /\ reply' = [reply EXCEPT ![One] = x]
                        => Only(reply)' = [Only(reply) EXCEPT ![One] = x]
        BY KeepsAll DEF Keeps
    <2>3. \A x : /\ pc' = [pc EXCEPT ![One] = x]
                        => Only(pc)' = [Only(pc) EXCEPT ![One] = x]
                 /\ outcome' = [outcome EXCEPT ![One] = x]
                        => Only(outcome)' = [Only(outcome) EXCEPT ![One] = x]
        BY KeepsAll DEF Keeps
    <2>4. QED
        BY <1>4, <2>1, <2>2, <2>3 DEF Answer, Alone!Answer
<1>5. QED
    BY <1>1, <1>2, <1>3, <1>4

LEMMA OnlyArrive ==
    ASSUME One \in Requests, TypeOK, Arrive(One)
    PROVE  Alone!Arrive(One)
<1>1. PICK s \in Shape(One) :
          LET t == EnsureTCIDForRequest(s.fw, GatewayCode, <<One, "trace">>)
          IN  /\ shape' = [shape EXCEPT ![One] = s]
              /\ trace' = [trace EXCEPT ![One] = t]
              /\ rHeader' = [rHeader EXCEPT ![One] = t]
              /\ merged' = [merged EXCEPT ![One] =
                     ApplyServerSideFields(t, BizCode(t), <<One, "merged">>)]
    BY DEF Arrive
<1>2. Only(shape)' = [Only(shape) EXCEPT ![One] = s]
    BY <1>1, KeepsAll DEF Keeps
<1>3. \A x : /\ trace' = [trace EXCEPT ![One] = x]
                    => Only(trace)' = [Only(trace) EXCEPT ![One] = x]
             /\ rHeader' = [rHeader EXCEPT ![One] = x]
                    => Only(rHeader)' = [Only(rHeader) EXCEPT ![One] = x]
             /\ merged' = [merged EXCEPT ![One] = x]
                    => Only(merged)' = [Only(merged) EXCEPT ![One] = x]
    BY KeepsAll DEF Keeps
<1>4. \A x : /\ pc' = [pc EXCEPT ![One] = x]
                    => Only(pc)' = [Only(pc) EXCEPT ![One] = x]
             /\ seen' = [seen EXCEPT ![One] = x]
                    => Only(seen)' = [Only(seen) EXCEPT ![One] = x]
    BY KeepsAll DEF Keeps
<1>5. \E s_1 \in Alone!Shape(One) :
          LET t == Alone!EnsureTCIDForRequest(s_1.fw, GatewayCode,
                                              <<One, "trace">>)
          IN  /\ Only(shape)' = [Only(shape) EXCEPT ![One] = s_1]
              /\ Only(trace)' = [Only(trace) EXCEPT ![One] = t]
              /\ Only(rHeader)' = [Only(rHeader) EXCEPT ![One] = t]
              /\ Only(merged)' = [Only(merged) EXCEPT ![One] =
                     Alone!ApplyServerSideFields(t, Alone!BizCode(t),
                                                 <<One, "merged">>)]
    BY <1>1, <1>2, <1>3, SameHeaders
<1>6. /\ Only(pc)[One] = "idle"
      /\ Only(pc)' = [Only(pc) EXCEPT ![One] = "logInbound"]
      /\ Only(seen)' = [Only(seen) EXCEPT ![One] = Alone!Approvals(db)]
    BY <1>4, OnlyOne, SameTables DEF Arrive
<1>7. UNCHANGED <<db, edits, Only(api), Only(outHeader), Only(upHeader),
                  Only(wHeader), Only(outcome), Only(reply), Alone!past>>
    BY OnlyUnchanged DEF Arrive
<1>8. QED
    BY <1>5, <1>6, <1>7 DEF Alone!Arrive

LEMMA OnlyCheck ==
    ASSUME One \in Requests, TypeOK, Check(One)
    PROVE  Alone!Check(One)
<1> USE OnlyOne, OnlyUnchanged, OnlyParts, SameTables
<1>1. CASE ParseBody(One)
    BY <1>1 DEF ParseBody, Alone!ParseBody, Alone!Check
<1>2. CASE FindApi(One)
    <2>1. \A x : api' = [api EXCEPT ![One] = x]
                     => Only(api)' = [Only(api) EXCEPT ![One] = x]
        BY KeepsAll DEF Keeps
    <2>2. QED
        BY <1>2, <2>1 DEF FindApi, Alone!FindApi, Alone!Check
<1>3. CASE CheckRole(One)
    BY <1>3, SameHeaders DEF CheckRole, Alone!CheckRole, Alone!Check
<1>4. CASE CheckGroup(One)
    BY <1>4 DEF CheckGroup, Alone!CheckGroup, Alone!Check
<1>5. CASE CheckApi(One)
    BY <1>5 DEF CheckApi, Alone!CheckApi, Alone!Check
<1>6. CASE Prepare(One)
    <2>1. \A x : /\ rHeader' = [rHeader EXCEPT ![One] = x]
                        => Only(rHeader)' = [Only(rHeader) EXCEPT ![One] = x]
                 /\ outHeader' = [outHeader EXCEPT ![One] = x]
                        => Only(outHeader)'
                               = [Only(outHeader) EXCEPT ![One] = x]
        BY KeepsAll DEF Keeps
    <2>2. QED
        BY <1>6, <2>1 DEF Prepare, Alone!Prepare, Alone!Check
<1>7. QED
    BY <1>1, <1>2, <1>3, <1>4, <1>5, <1>6 DEF Check

LEMMA OnlyOutboundRequest ==
    ASSUME One \in Requests, TypeOK, LogOutboundRequest(One)
    PROVE  Alone!LogOutboundRequest(One)
<1>1. /\ pc[One] = "logOutbound"
      /\ UNCHANGED <<logging, wHeader, outcome, reply>>
    BY DEF LogOutboundRequest
<1>2. \A x : /\ pc' = [pc EXCEPT ![One] = x]
                    => Only(pc)' = [Only(pc) EXCEPT ![One] = x]
             /\ off' = [off EXCEPT ![One] = x]
                    => Only(off)' = [Only(off) EXCEPT ![One] = x]
    BY KeepsAll DEF Keeps
<1>3. /\ Only(pc)[One] = pc[One] /\ Only(shape)[One] = shape[One]
      /\ Only(off)[One] = off[One] /\ Only(outHeader)[One] = outHeader[One]
      /\ UNCHANGED <<Alone!logging, Only(wHeader), Only(outcome), Only(reply)>>
    BY <1>1, OnlyOne, OnlyUnchanged
<1>4. CASE shape[One].method = "POST" /\ shape[One].body = "noData"
    <2>1. CASE /\ TRUE \in ExistConfig(db, "outbound.request")
               /\ pc' = [pc EXCEPT ![One] = "panicked"]
               /\ UNCHANGED past
        BY <1>1, <1>2, <1>3, <1>4, <2>1, OnlyUnchanged, SameTables
           DEF Alone!LogOutboundRequest
    <2>2. CASE /\ FALSE \in ExistConfig(db, "outbound.request")
               /\ pc' = [pc EXCEPT ![One] = "call"]
               /\ off' = [off EXCEPT ![One] = @ \cup {"outbound.request"}]
               /\ UNCHANGED events
        BY <1>1, <1>2, <1>3, <1>4, <2>2, SameTables
           DEF Alone!LogOutboundRequest
    <2>3. QED
        BY <1>4, <2>1, <2>2 DEF LogOutboundRequest
<1>5. CASE ~(shape[One].method = "POST" /\ shape[One].body = "noData")
    <2>1. /\ pc' = [pc EXCEPT ![One] = "call"]
          /\ Log(One, "outbound.request",
                 Event("21", "Y", outHeader[One][1], outHeader[One][1]))
        BY <1>5 DEF LogOutboundRequest
    <2>2. QED
        BY <1>1, <1>2, <1>3, <1>5, <2>1, OnlyParts, SameHeaders
           DEF Alone!LogOutboundRequest
<1>6. QED
    BY <1>4, <1>5

LEMMA OnlyStep ==
    ASSUME One \in Requests, TypeOK, Step(One)
    PROVE  Alone!Step(One)
<1> USE OnlyOne, OnlyUnchanged, OnlyParts, SameHeaders
<1>1. CASE LogInboundRequest(One)
    BY <1>1 DEF LogInboundRequest, Alone!LogInboundRequest, Alone!Step
<1>2. CASE Check(One)
    BY <1>2, OnlyCheck DEF Alone!Step
<1>3. CASE LogOutboundRequest(One)
    BY <1>3, OnlyOutboundRequest DEF Alone!Step
<1>4. CASE CallFails(One)
    BY <1>4 DEF CallFails, Alone!CallFails, Alone!Step
<1>5. CASE CallReturns(One)
    <2>1. \A x : upHeader' = [upHeader EXCEPT ![One] = x]
                     => Only(upHeader)' = [Only(upHeader) EXCEPT ![One] = x]
        BY KeepsAll DEF Keeps
    <2>2. QED
        BY <1>5, <2>1 DEF CallReturns, Alone!CallReturns, Alone!Step
<1>6. CASE ReturnError(One)
    BY <1>6 DEF ReturnError, Alone!ReturnError, Alone!Step
<1>7. CASE ReadFails(One)
    BY <1>7 DEF ReadFails, Alone!ReadFails, Alone!Step
<1>8. CASE PassOn(One)
    BY <1>8 DEF PassOn, Alone!PassOn, Alone!Step
<1>9. CASE LogOutboundResponse(One)
    <2>1. \A x : wHeader' = [wHeader EXCEPT ![One] = x]
                     => Only(wHeader)' = [Only(wHeader) EXCEPT ![One] = x]
        BY KeepsAll DEF Keeps
    <2>2. \A h : WriteHeader(One, h) = Alone!WriteHeader(One, h)
        BY DEF WriteHeader, Alone!WriteHeader
    <2>3. QED
        BY <1>9, <2>1, <2>2
           DEF LogOutboundResponse, Alone!LogOutboundResponse, Alone!Step
<1>10. CASE LogInboundResponse(One)
    BY <1>10 DEF LogInboundResponse, Alone!LogInboundResponse, Alone!Step
<1>11. QED
    BY <1>1, <1>2, <1>3, <1>4, <1>5, <1>6, <1>7, <1>8, <1>9, <1>10 DEF Step

(* The steps of the others do not concern One. *)

LEMMA OtherArrive ==
    ASSUME One \in Requests, TypeOK, NEW r \in Requests \ {One}, Arrive(r)
    PROVE  UNCHANGED Alone!vars
<1>1. PICK s :
          /\ shape' = [shape EXCEPT ![r] = s]
          /\ trace' = [trace EXCEPT ![r] = Made(r, "trace")]
          /\ rHeader' = [rHeader EXCEPT ![r] = Made(r, "trace")]
          /\ merged' = [merged EXCEPT ![r] = Made(r, "merged")]
    BY ArriveMakes
<1>2. UNCHANGED <<Only(shape), Only(trace), Only(rHeader), Only(merged)>>
    BY <1>1, KeepsAll DEF Keeps
<1>3. UNCHANGED <<Only(pc), Only(seen)>>
    BY KeepsAll DEF Keeps, Arrive
<1>4. QED
    BY <1>2, <1>3 DEF Arrive, past, Alone!vars, Alone!pass, Alone!past

LEMMA OtherParts ==
    ASSUME One \in Requests, TypeOK, NEW r \in Requests \ {One}
    PROVE  /\ \A to : Continue(r, to) => UNCHANGED <<Only(pc), Only(outcome)>>
           /\ \A s : Refuse(r, s) => UNCHANGED <<Only(pc), Only(outcome)>>
           /\ \A from, to : Goto(r, from, to) => UNCHANGED Only(pc)
           /\ \A p, e : Log(r, p, e) => UNCHANGED Alone!past
           /\ \A to, s, h : Answer(r, to, s, h) =>
                 UNCHANGED <<Only(pc), Only(outcome), Only(wHeader), Only(reply)>>
<1>1. /\ \A to : Continue(r, to) => UNCHANGED <<Only(pc), Only(outcome)>>
      /\ \A s : Refuse(r, s) => UNCHANGED <<Only(pc), Only(outcome)>>
      /\ \A from, to : Goto(r, from, to) => UNCHANGED Only(pc)
    BY KeepsAll DEF Keeps, Continue, Refuse, Goto
<1>2. \A p, e : Log(r, p, e) => UNCHANGED Alone!past
    <2>1. Keeps(events, events') /\ Keeps(off, off')
        BY KeepsAll
    <2>2. QED
        BY <2>1 DEF Keeps, Log, Alone!past
<1>3. \A to, s, h : Answer(r, to, s, h) =>
          UNCHANGED <<Only(pc), Only(outcome), Only(wHeader), Only(reply)>>
    <2>1. /\ Keeps(pc, pc') /\ Keeps(outcome, outcome')
          /\ Keeps(wHeader, wHeader') /\ Keeps(reply, reply')
        BY KeepsAll
    <2>2. QED
        BY <2>1 DEF Keeps, Answer
<1>4. QED
    BY <1>1, <1>2, <1>3

LEMMA OtherCheck ==
    ASSUME One \in Requests, TypeOK, NEW r \in Requests \ {One}, Check(r)
    PROVE  UNCHANGED Alone!vars
<1> USE OtherParts, OnlyUnchanged DEF Alone!vars, Alone!checking
<1>1. CASE ParseBody(r)
    BY <1>1 DEF ParseBody
<1>2. CASE FindApi(r)
    BY <1>2, KeepsAll DEF Keeps, FindApi
<1>3. CASE CheckRole(r) \/ CheckGroup(r)
    BY <1>3 DEF CheckRole, CheckGroup
<1>4. CASE CheckApi(r)
    BY <1>4 DEF CheckApi
<1>5. CASE Prepare(r)
    BY <1>5, KeepsAll DEF Keeps, Prepare
<1>6. QED
    BY <1>1, <1>2, <1>3, <1>4, <1>5 DEF Check

LEMMA OtherStep ==
    ASSUME One \in Requests, TypeOK, NEW r \in Requests \ {One}, Step(r)
    PROVE  UNCHANGED Alone!vars
<1> USE OtherParts, OnlyUnchanged DEF Alone!vars, Alone!logging, Alone!calling
<1>1. CASE LogInboundRequest(r) \/ LogInboundResponse(r)
    BY <1>1 DEF LogInboundRequest, LogInboundResponse
<1>2. CASE Check(r)
    BY <1>2, OtherCheck
<1>3. CASE LogOutboundRequest(r)
    <2>1. UNCHANGED <<Only(pc), Alone!past>>
        <3>1. CASE pc' = [pc EXCEPT ![r] = "panicked"] /\ UNCHANGED past
            BY <3>1, KeepsAll DEF Keeps
        <3>2. CASE /\ pc' = [pc EXCEPT ![r] = "call"]
                   /\ off' = [off EXCEPT ![r] = @ \cup {"outbound.request"}]
                   /\ UNCHANGED events
            BY <3>2, KeepsAll DEF Keeps, Alone!past
        <3>3. CASE pc' = [pc EXCEPT ![r] = "call"] /\ UNCHANGED Alone!past
            BY <3>3, KeepsAll DEF Keeps
        <3>4. QED
            BY <1>3, <3>1, <3>2, <3>3 DEF LogOutboundRequest
    <2>2. QED
        BY <1>3, <2>1 DEF LogOutboundRequest
<1>4. CASE CallFails(r)
    BY <1>4 DEF CallFails
<1>5. CASE CallReturns(r)
    <2>1. UNCHANGED Only(upHeader)
        <3>1. PICK h : upHeader' = [upHeader EXCEPT ![r] = h]
            BY <1>5 DEF CallReturns
        <3>2. QED
            BY <3>1, KeepsAll DEF Keeps
    <2>2. QED
        BY <1>5, <2>1 DEF CallReturns
<1>6. CASE ReturnError(r)
    BY <1>6 DEF ReturnError
<1>7. CASE ReadFails(r) \/ PassOn(r)
    BY <1>7 DEF ReadFails, PassOn
<1>8. CASE LogOutboundResponse(r)
    BY <1>8, KeepsAll DEF Keeps, LogOutboundResponse
<1>9. QED
    BY <1>1, <1>2, <1>3, <1>4, <1>5, <1>6, <1>7, <1>8 DEF Step

LEMMA OnlyEdit ==
    ASSUME One \in Requests, EditTables
    PROVE  Alone!EditTables
<1>1. Only(seen)' = [r \in {One} |->
                        IF Running(r) THEN seen[r] \cup Approvals(db')
                        ELSE seen[r]]
    BY DEF EditTables, Only
<1>2. Alone!Running(One) <=> Running(One)
    BY OnlyOne DEF Running, Alone!Running
<1>3. Only(seen)' = [r \in {One} |->
                        IF Alone!Running(r)
                        THEN Only(seen)[r] \cup Alone!Approvals(db')
                        ELSE Only(seen)[r]]
    BY <1>1, <1>2, OnlyOne, SameTables
<1>4. UNCHANGED <<Only(pc), Alone!pass, Only(rHeader), Only(api),
                  Only(outHeader), Only(upHeader), Only(wHeader),
                  Only(outcome), Only(reply), Alone!past>>
    BY OnlyUnchanged DEF EditTables
<1>5. QED
    BY <1>3, <1>4, SameTables DEF EditTables, Alone!EditTables

LEMMA OnlyInit ==
    ASSUME One \in Requests, Init
    PROVE  Alone!Init
<1>1. \A x : Only([r \in Requests |-> x]) = [r \in {One} |-> x]
    BY DEF Only
<1>2. \E a \in Apis, logs \in SUBSET Alone!LogPoint :
          db = [path |-> a, apiControlled |-> {},
                groups |-> [g \in Groups |-> "open"],
                roles |-> Apis \X {GatewayCode}, logs |-> logs]
    BY DEF Init, LogPoint, Alone!LogPoint
<1>3. QED
    BY <1>1, <1>2, SameHeaders DEF Init, Alone!Init

(* Requests do not interfere: whatever the others do, and however many     *)
(* there are, what one request goes through could happen to it alone, with *)
(* the same edits of the tables.  A run with a single request therefore    *)
(* shows every behaviour of a request.                                     *)
THEOREM RunsAlone ==
    ASSUME One \in Requests
    PROVE  Spec => Alone!Spec
<1>1. Init => Alone!Init
    BY OnlyInit
<1>2. TypeOK /\ [Next]_vars => [Alone!Next]_(Alone!vars)
    <2>1. SUFFICES ASSUME TypeOK, [Next]_vars
                   PROVE  [Alone!Next]_(Alone!vars)
        OBVIOUS
    <2>2. CASE Arrive(One) \/ Step(One)
        BY <2>1, <2>2, OnlyArrive, OnlyStep DEF Alone!Next
    <2>3. CASE \E r \in Requests \ {One} : Arrive(r) \/ Step(r)
        BY <2>1, <2>3, OtherArrive, OtherStep
    <2>4. CASE EditTables
        BY <2>4, OnlyEdit DEF Alone!Next
    <2>5. CASE UNCHANGED vars
        BY <2>5, OnlyUnchanged
    <2>6. QED
        BY <2>1, <2>2, <2>3, <2>4, <2>5 DEF Next
<1>3. QED
    BY <1>1, <1>2, TypeCorrect, PTL DEF Spec, Alone!Spec

=============================================================================
